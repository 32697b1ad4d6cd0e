------------------------------ MODULE OfflineQueue ------------------------------
(***************************************************************************)
(* POST /sync/batch: a device flushes the actions its user took offline,   *)
(* and retries them under the same idempotency keys until each is settled. *)
(* One user, several devices.                                              *)
(*                                                                         *)
(* Every await of BatchService.runOne is a step of its own, so a process   *)
(* may die, a statement may fail and another flush may run between any two *)
(* of them.  The server keeps no lock and no session: what survives a      *)
(* crash is what each statement committed.                                 *)
(*                                                                         *)
(* An operator named after another with a suffix, as LookUp_AnyAction, is  *)
(* a mutated form of it that no action uses.                               *)
(***************************************************************************)
EXTENDS Naturals, Sequences, FiniteSets

CONSTANTS
  Device,     \* the user's devices
  Slot,       \* slots for flushes in progress on the server
  Actions,    \* the actions the user may take, each once
  Job,        \* jobs an action can name
  Record,     \* the user's entries of experience and education
  Gone,       \* jobs and entries that no longer exist
  MaxBatch,   \* actions a device sends at a time (the server accepts up to 50)
  Overlap,    \* whether a device may flush while a flush of its own is running
  Faults,     \* the faults that happen
  MaxFaults   \* how many of them

Profile == "profile"   \* a user has exactly one: its id is not in the payload
Nothing == "none"      \* a payload without the id its action needs

OnAJob == {"SAVE_JOB", "UNSAVE_JOB", "DISMISS_RECOMMENDATION", "SUBMIT_APPLICATION"}
Updates == {"UPDATE_PROFILE", "UPDATE_EXPERIENCE", "UPDATE_EDUCATION"}
ActionType == OnAJob \cup Updates

\* What becomes of payload.changes, which nothing validates before the record's own code reads it:
\* applied, refused by the entity's constructor, or accepted by it and refused by the database.
ChangesKind == {"good", "unfit", "unstorable"}

\* What an action names, its payload as dispatch reads it.
ASSUME ActionsAssumption ==
  /\ Gone \subseteq Job \cup Record /\ {Profile, Nothing} \cap (Job \cup Record) = {}
  /\ \A a \in Actions : a.changes \in ChangesKind
  /\ \A a \in Actions : CASE a.type \in OnAJob         -> a.of \in Job \cup {Nothing}
                         [] a.type = "UPDATE_PROFILE" -> a.of = Profile
                         [] OTHER -> a.type \in Updates /\ a.of \in Record \cup {Nothing}
ASSUME BoundsAssumption ==
  /\ MaxBatch \in Nat \ {0} /\ MaxFaults \in Nat /\ Overlap \in BOOLEAN
  /\ Faults \subseteq {"crash", "lost", "failing", "unreceipted", "expiry"}

VARIABLES
  taken,     \* each device: what its user did offline, in order
  settled,   \* each device: the actions it no longer sends
  saved,     \* the user's saved jobs
  applied,   \* jobs the user has an application for
  dismissed, \* recommendations the user has dismissed
  version,   \* [the profile, an entry -> its version]
  receipts,  \* rows of IdempotencyKey
  flush,     \* the flushes in progress
  did,       \* history: the actions whose own write was committed
  faults     \* faults so far

client == <<taken, settled>>
server == <<saved, applied, dismissed, version, did>>
vars   == <<client, server, receipts, flush, faults>>

-----------------------------------------------------------------------------
(* Rows and messages. *)

\* An action in a device's queue, and the version it was taken against.
Entry == [act : Actions, expected : Nat]

Key == {a.key : a \in Actions}
Receipt == [state : {"live", "expired"}, entry : Entry]
NoReceipt == [state |-> "none"]

\* FAILED is the only code that asks the client to try again.
Refusal == {"CONFLICT", "NOT_FOUND", "INVALID_PAYLOAD", "IDEMPOTENCY_CONFLICT",
            "VERSION_CONFLICT"}
Outcome == {"success", "FAILED"} \cup Refusal
Result  == [act : Actions, outcome : Outcome]

Pc == {"idle", "lookup", "dispatch", "save", "finish", "store"}
NoDevice == "nobody"
\* What is left of a batch: the places of its actions in the device's queue.
Flush == [device : Device \cup {NoDevice}, pc : Pc, todo : SUBSET Nat, results : Seq(Result)]
NoFlush == [device |-> NoDevice, pc |-> "idle", todo |-> {}, results |-> <<>>]

First(places) == CHOOSE i \in places : \A j \in places : i <= j
Current(f) == taken[flush[f].device][First(flush[f].todo)]
At(f, pc)  == flush[f].pc = pc /\ flush[f].todo # {}
GoTo(f, pc) == flush' = [flush EXCEPT ![f].pc = pc]

\* The result joins the others and the loop goes on with the next action.
Finish(f, outcome) ==
  flush' = [flush EXCEPT
              ![f].pc      = "lookup",
              ![f].todo    = @ \ {First(@)},
              ![f].results = Append(@, [act |-> Current(f).act, outcome |-> outcome])]

-----------------------------------------------------------------------------
(* The client: it keys an action when the user takes it, sends what is not  *)
(* settled in that order, and settles what the response did not ask to retry. *)

TakenBy(d) == {taken[d][i].act : i \in DOMAIN taken[d]}
Pending(d) == {i \in DOMAIN taken[d] : taken[d][i].act \notin settled[d]}
Batch(d) == {i \in Pending(d) : Cardinality({j \in Pending(d) : j < i}) < MaxBatch}

TakeAction(d, a) ==
  /\ \A e \in Device : a \notin TakenBy(e)
  /\ taken' = [taken EXCEPT ![d] = Append(@, [act |-> a, expected |-> IF a.of \in DOMAIN version THEN version[a.of] ELSE 0])]
  /\ UNCHANGED <<settled, server, receipts, flush, faults>>

BeginFlush(f, d) ==
  /\ flush[f] = NoFlush
  /\ Pending(d) # {}
  /\ Overlap \/ \A g \in Slot : flush[g].device # d
  /\ flush' = [flush EXCEPT ![f] = [device |-> d, pc |-> "lookup", todo |-> Batch(d), results |-> <<>>]]
  /\ UNCHANGED <<client, server, receipts, faults>>

\* The actions a response tells the client to stop sending.
Settles(results) == {results[i].act : i \in {j \in DOMAIN results : results[j].outcome # "FAILED"}}

\* Every action has a result: the response reaches the device.
Respond(f) ==
  /\ flush[f].pc = "lookup" /\ flush[f].todo = {}
  /\ settled' = [settled EXCEPT ![flush[f].device] = @ \cup Settles(flush[f].results)]
  /\ flush' = [flush EXCEPT ![f] = NoFlush]
  /\ UNCHANGED <<taken, server, receipts, faults>>

-----------------------------------------------------------------------------
(* runOne: look the key up, run the action, record the receipt. *)

HasReceipt(k) == receipts[k].state = "live"

LookUp_Reserving(f) ==
  LET e == Current(f) IN
  /\ At(f, "lookup")
  /\ IF HasReceipt(e.act.key) THEN Finish(f, "success") /\ UNCHANGED receipts
     ELSE /\ GoTo(f, "dispatch")
          /\ receipts' = [receipts EXCEPT ![e.act.key] = [state |-> "live", entry |-> e]]
  /\ UNCHANGED <<client, server, faults>>
LookUp_AnyAction(f) ==
  LET e == Current(f) IN
  /\ At(f, "lookup")
  /\ IF HasReceipt(e.act.key) THEN Finish(f, "success") ELSE GoTo(f, "dispatch")
  /\ UNCHANGED <<client, server, receipts, faults>>
LookUp(f) ==
  LET e == Current(f) IN
  /\ At(f, "lookup")
  /\ CASE ~HasReceipt(e.act.key)             -> GoTo(f, "dispatch")
       [] HasReceipt(e.act.key) /\ receipts[e.act.key].entry = e -> Finish(f, "success")
       [] OTHER                              -> Finish(f, "IDEMPOTENCY_CONFLICT")
  /\ UNCHANGED <<client, server, receipts, faults>>

\* dispatch: the id that the action needs, before its service is called.
RefusePayload(f) ==
  /\ At(f, "dispatch") /\ Current(f).act.of = Nothing
  /\ Finish(f, "INVALID_PAYLOAD")
  /\ UNCHANGED <<client, server, receipts, faults>>
Dispatched(f, types) ==
  At(f, "dispatch") /\ Current(f).act.type \in types /\ Current(f).act.of # Nothing

\* The write of action a is committed.
Write(f, pc) == did' = did \cup {Current(f).act} /\ GoTo(f, pc)

\* Inserting a bookmark that is already there counts as success; a job that is gone is a 400.
SaveJob(f) ==
  LET a == Current(f).act IN
  /\ Dispatched(f, {"SAVE_JOB"})
  /\ IF a.of \in Gone
     THEN Finish(f, "INVALID_PAYLOAD") /\ UNCHANGED server
     ELSE /\ saved' = saved \cup {a.of} /\ Write(f, "finish")
          /\ UNCHANGED <<applied, dismissed, version>>
  /\ UNCHANGED <<client, receipts, faults>>

UnsaveJob(f) ==
  LET a == Current(f).act IN
  /\ Dispatched(f, {"UNSAVE_JOB"})
  /\ saved' = saved \ {a.of} /\ Write(f, "finish")
  /\ UNCHANGED <<client, applied, dismissed, version, receipts, faults>>

\* Touches the live row if there is one; nothing to do is not an error.
DismissRecommendation(f) ==
  LET a == Current(f).act IN
  /\ Dispatched(f, {"DISMISS_RECOMMENDATION"})
  /\ dismissed' = dismissed \cup {a.of} /\ Write(f, "store")
  /\ UNCHANGED <<client, saved, applied, version, receipts, faults>>

\* One application per user and job: found beforehand, or refused by the index at the insert.
\* Either way the message says "already applied", and mapError makes it a CONFLICT.
AlreadyApplied_Retry == "FAILED"
AlreadyApplied == "CONFLICT"

SubmitApplication(f) ==
  LET a == Current(f).act IN
  /\ Dispatched(f, {"SUBMIT_APPLICATION"})
  /\ CASE a.of \in Gone    -> Finish(f, "NOT_FOUND")    /\ UNCHANGED <<applied, did>>
       [] a.of \in applied -> Finish(f, AlreadyApplied) /\ UNCHANGED <<applied, did>>
       [] OTHER             -> applied' = applied \cup {a.of} /\ Write(f, "finish")
  /\ UNCHANGED <<client, saved, dismissed, version, receipts, faults>>

\* The entity rebuilt from the row and the changes throws: the profile and an entry of education
\* turn that into a 400, an entry of experience lets the plain Error through to mapError.
RefusedByEntity(a) == IF a.type = "UPDATE_EXPERIENCE" THEN "FAILED" ELSE "INVALID_PAYLOAD"

\* assertVersionMatches, on the row as it was read, then the entity's constructor; an entry that
\* is gone is a 404.
CheckVersion_Never(f) ==
  /\ Dispatched(f, Updates)
  /\ CASE Current(f).act.of \in Gone       -> Finish(f, "NOT_FOUND")
       [] Current(f).act.changes = "unfit" -> Finish(f, RefusedByEntity(Current(f).act))
       [] OTHER                            -> GoTo(f, "save")
  /\ UNCHANGED <<client, server, receipts, faults>>
CheckVersion(f) ==
  LET e == Current(f) IN
  /\ Dispatched(f, Updates)
  /\ CASE e.act.of \in Gone                 -> Finish(f, "NOT_FOUND")
       [] e.act.of \notin Gone /\ e.expected # version[e.act.of] -> Finish(f, "VERSION_CONFLICT")
       [] OTHER -> IF e.act.changes = "unfit" THEN Finish(f, RefusedByEntity(e.act)) ELSE GoTo(f, "save")
  /\ UNCHANGED <<client, server, receipts, faults>>

\* The save that follows repeats no check, and stamps a new updatedAt; what the database refuses is
\* not an HttpException, so it is FAILED whichever record it was for.
SaveRecord(f) ==
  /\ At(f, "save")
  /\ IF Current(f).act.changes = "unstorable"
     THEN Finish(f, "FAILED") /\ UNCHANGED <<version, did>>
     ELSE version' = [version EXCEPT ![Current(f).act.of] = @ + 1] /\ Write(f, "store")
  /\ UNCHANGED <<client, saved, applied, dismissed, receipts, faults>>

\* What the handler does after its write: list the bookmarks, or record and screen.
FinishHandler(f) ==
  /\ At(f, "finish")
  /\ GoTo(f, "store")
  /\ UNCHANGED <<client, server, receipts, faults>>

\* create() fails on a key that has a row, expired or not, and the failure is swallowed.
StoreReceipt(f) ==
  LET e == Current(f) IN
  /\ At(f, "store")
  /\ receipts' = IF receipts[e.act.key] = NoReceipt
                 THEN [receipts EXCEPT ![e.act.key] = [state |-> "live", entry |-> e]]
                 ELSE receipts
  /\ Finish(f, "success")
  /\ UNCHANGED <<client, server, faults>>

\* Whatever is thrown becomes this action's result, and the loop goes on.
ResultOfFailure_Settled == "CONFLICT"
ResultOfFailure == "FAILED"

-----------------------------------------------------------------------------
(* Faults, and time passing. *)

Fault(kind) == kind \in Faults /\ faults < MaxFaults /\ faults' = faults + 1

\* A statement throws: nothing of it was committed.
StatementFails(f) ==
  /\ Fault("failing")
  /\ \E pc \in {"lookup", "dispatch", "save", "finish"} : At(f, pc)
  /\ Finish(f, ResultOfFailure)
  /\ UNCHANGED <<client, server, receipts>>

\* store() fails and says nothing: the action succeeded and has no receipt.
ReceiptFails(f) ==
  /\ Fault("unreceipted")
  /\ At(f, "store")
  /\ Finish(f, "success")
  /\ UNCHANGED <<client, server, receipts>>

\* The process dies with its flush; what was committed stays.
Crash(f) ==
  /\ Fault("crash")
  /\ flush[f] # NoFlush
  /\ flush' = [flush EXCEPT ![f] = NoFlush]
  /\ UNCHANGED <<client, server, receipts>>

\* All of it was done and the device never hears.
LoseResponse(f) ==
  /\ Fault("lost")
  /\ flush[f].pc = "lookup" /\ flush[f].todo = {}
  /\ flush' = [flush EXCEPT ![f] = NoFlush]
  /\ UNCHANGED <<client, server, receipts>>

\* 24 hours after the receipt was written.
Expire(k) ==
  /\ Fault("expiry")
  /\ HasReceipt(k)
  /\ receipts' = [receipts EXCEPT ![k].state = "expired"]
  /\ UNCHANGED <<client, server, flush>>

\* POST /admin/system/idempotency-keys/cleanup
DeleteExpired ==
  /\ \E k \in Key : receipts[k].state = "expired"
  /\ receipts' = [k \in Key |-> IF HasReceipt(k) THEN receipts[k] ELSE NoReceipt]
  /\ UNCHANGED <<client, server, flush, faults>>

-----------------------------------------------------------------------------
Init ==
  /\ taken     = [d \in Device |-> <<>>]
  /\ settled   = [d \in Device |-> {}]
  /\ saved = {} /\ applied = {} /\ dismissed = {}
  /\ version = [r \in Record \cup {Profile} |-> 0]
  /\ receipts  = [k \in Key |-> NoReceipt]
  /\ flush     = [f \in Slot |-> NoFlush]
  /\ did = {}
  /\ faults = 0

\* One step of the server on a flush.
Serve(f) ==
  \/ LookUp(f)
  \/ RefusePayload(f)
  \/ SaveJob(f)
  \/ UnsaveJob(f)
  \/ DismissRecommendation(f)
  \/ SubmitApplication(f)
  \/ CheckVersion(f)
  \/ SaveRecord(f)
  \/ FinishHandler(f)
  \/ StoreReceipt(f)

Fail(f) ==
  \/ StatementFails(f)
  \/ ReceiptFails(f)
  \/ Crash(f)
  \/ LoseResponse(f)

Next ==
  \/ \E d \in Device, a \in Actions : TakeAction(d, a)
  \/ \E f \in Slot : (\E d \in Device : BeginFlush(f, d)) \/ Serve(f) \/ Respond(f) \/ Fail(f)
  \/ \E k \in Key : Expire(k)
  \/ DeleteExpired

Spec == Init /\ [][Next]_vars

\* The server runs what it was given, a response arrives if it is not lost, and a
\* device that has something pending and nothing in flight tries again.
FairSpec ==
  /\ Spec
  /\ \A f \in Slot : WF_vars(Serve(f)) /\ WF_vars(Respond(f))
  /\ \A d \in Device : WF_vars(\E f \in Slot : BeginFlush(f, d))

-----------------------------------------------------------------------------
(* Properties: what flushing an offline queue promises. *)

\* A result that says success, and a receipt that will be replayed as one, belong to an
\* action whose own write was committed: no crash, expiry, shared key or overlapping flush
\* makes the server report what it did not do (batch.service.ts, "Replay safety").
SuccessIsTrue ==
  /\ \A f \in Slot : \A i \in DOMAIN flush[f].results :
       flush[f].results[i].outcome = "success" => flush[f].results[i].act \in did
  /\ \A k \in Key : receipts[k] # NoReceipt => receipts[k].entry.act \in did

\* The action can never be applied, and it is not the fault of the attempt.
Hopeless(e) ==
  \/ e.act.of = Nothing
  \/ e.act.of \in Gone /\ e.act.type \in Updates \cup {"SAVE_JOB", "SUBMIT_APPLICATION"}
  \/ e.act.of \in applied /\ e.act.type = "SUBMIT_APPLICATION"
  \/ e.act.type \in Updates /\ (e.expected # version[e.act.of] \/ e.act.changes = "unfit")
  \/ \E b \in did \ {e.act} : b.key = e.act.key

\* A device stops sending an action only once it was applied or can never be: a transient
\* failure, a crash or a lost response never makes a user's action disappear
\* (batch.service.ts, "Receipts are written only on success").
SettledActionsLand ==
  \A d \in Device : \A i \in DOMAIN taken[d] :
    LET e == taken[d][i] IN e.act \in settled[d] => e.act \in did \/ Hopeless(e)

\* After the first n actions a device's user took, the job is bookmarked.
Wish(d, n, j) ==
  \E i \in 1..n :
    /\ taken[d][i].act.type = "SAVE_JOB" /\ taken[d][i].act.of = j
    /\ \A k \in (i + 1)..n : ~(taken[d][k].act.type = "UNSAVE_JOB" /\ taken[d][k].act.of = j)

\* With one device, the bookmarks are at all times what the user's actions up to some point
\* produce, a point that is past everything the device has settled: a save and the unsave
\* after it land in that order (batch.service.ts, "Order").
SavedFollowsTheQueue ==
  \A d \in Device :
    \E n \in 0..Len(taken[d]) :
      /\ \A i \in (n + 1)..Len(taken[d]) : taken[d][i].act \notin settled[d]
      /\ \A j \in Job \ Gone : j \in saved <=> Wish(d, n, j)

\* While a device waits for its own flush, no edit of the profile or of an entry is applied
\* twice, however often it is retried and whatever its receipt's fate: a record's version is the
\* number of the edits applied to it (version-conflict.exception.ts, assertVersionMatches).
EachEditOnce ==
  \A r \in DOMAIN version : version[r] = Cardinality({a \in did : a.type \in Updates /\ a.of = r})

\* Refused for good and reported as FAILED: the client is told to send it again.
Stuck(a) ==
  /\ a.type \in Updates
  /\ \/ a.changes = "unstorable"
     \/ a.changes = "unfit" /\ RefusedByEntity(a) = "FAILED"

\* Every other action a device has pending is settled in the end, past the edits that are refused
\* for good and retried for ever, as long as those do not fill a batch: whatever mapError calls
\* CONFLICT, NOT_FOUND or INVALID_PAYLOAD leaves the queue, and what may pass gets its turn
\* (batch.service.ts, mapError: "FAILED means try again later").
Passing(d) == {a \in TakenBy(d) \ settled[d] : ~Stuck(a)}
QueueDrains ==
  Cardinality({a \in Actions : Stuck(a)}) < MaxBatch
    => \A d \in Device : Passing(d) # {} ~> Passing(d) = {}
=============================================================================
