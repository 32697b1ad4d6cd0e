------------------------------ MODULE OfflineProofs ------------------------------
(***************************************************************************)
(* What flushing an offline queue promises, for any devices, actions,      *)
(* flushes in progress, sizes of a batch, faults and number of them.       *)
(***************************************************************************)
EXTENDS OfflineQueue, FiniteSetTheorems, WellFoundedInduction, TLAPS

TypeOK ==
  /\ taken \in [Device -> Seq(Entry)]
  /\ settled \in [Device -> SUBSET Actions]
  /\ saved \subseteq Job /\ applied \subseteq Job /\ dismissed \subseteq Job
  /\ version \in [Record \cup {Profile} -> Nat]
  /\ receipts \in [Key -> Receipt \cup {NoReceipt}]
  /\ flush \in [Slot -> Flush]
  /\ did \subseteq Actions
  /\ faults \in Nat

\* A flush in progress sends what its device took.
FlushOK ==
  \A f \in Slot : flush[f] = NoFlush \/
    /\ flush[f].device \in Device /\ flush[f].pc # "idle"
    /\ flush[f].todo \subseteq DOMAIN taken[flush[f].device]

\* An action past its write was written.
Written == \A f \in Slot : flush[f].todo # {} /\ flush[f].pc \in {"finish", "store"} => Current(f).act \in did

\* A receipt is filed under its own key.
Keyed == \A k \in Key : receipts[k] # NoReceipt => receipts[k].entry.act.key = k

TypeInv == TypeOK /\ FlushOK
HonestInv == TypeInv /\ Written /\ Keyed /\ SuccessIsTrue

-----------------------------------------------------------------------------
(* Places in a queue. *)

LEMMA Least ==
  ASSUME NEW places \in SUBSET Nat, places # {}
  PROVE  First(places) \in places /\ \A j \in places : First(places) <= j
  <1>1. \E i \in places : \A j \in places : ~(<<j, i>> \in OpToRel(<, Nat))
    BY WFMin, NatLessThanWellFounded
  <1>2. PICK i \in places : \A j \in places : ~(<<j, i>> \in OpToRel(<, Nat))
    BY <1>1
  <1>3. ASSUME NEW j \in places PROVE i <= j
    <2>1. i \in Nat /\ j \in Nat
      OBVIOUS
    <2>2. ~(j < i)
      BY <1>2, <2>1, Zenon DEF OpToRel
    <2> QED BY <2>1, <2>2
  <1>4. \E m \in places : \A j \in places : m <= j
    BY <1>3
  <1> QED BY <1>4 DEF First

\* The action at hand was taken by the device.
LEMMA AtHand ==
  ASSUME TypeInv, NEW f \in Slot, flush[f].todo # {}
  PROVE  LET d == flush[f].device
             i == First(flush[f].todo)
         IN  /\ flush[f] # NoFlush /\ d \in Device /\ i \in DOMAIN taken[d] /\ i \in flush[f].todo
             /\ Current(f) = taken[d][i] /\ Current(f) \in Entry
             /\ Current(f).act \in Actions /\ Current(f).act.key \in Key
             /\ \A j \in flush[f].todo : i <= j
  <1>1. flush[f] \in Flush /\ flush[f] # NoFlush
    BY DEF TypeInv, TypeOK, NoFlush
  <1>2. flush[f].todo \in SUBSET Nat
    BY <1>1 DEF Flush
  <1>3. First(flush[f].todo) \in flush[f].todo /\ \A j \in flush[f].todo : First(flush[f].todo) <= j
    BY <1>2, Least
  <1>4. flush[f].device \in Device /\ First(flush[f].todo) \in DOMAIN taken[flush[f].device]
    BY <1>1, <1>3 DEF TypeInv, FlushOK
  <1>5. Current(f) \in Entry
    BY <1>4 DEF TypeInv, TypeOK, Current
  <1> QED BY <1>1, <1>3, <1>4, <1>5 DEF Current, Entry, Key

\* What an action's type says of what it names.
LEMMA Names ==
  ASSUME NEW a \in Actions, a.of # Nothing
  PROVE  /\ a.type \in OnAJob \/ a.type \in Updates
         /\ a.type \in OnAJob => a.of \in Job
         /\ a.type \in Updates => a.of \in Record \cup {Profile}
         /\ a.type \in OnAJob => a.type \notin Updates
  BY ActionsAssumption DEF OnAJob, Updates

-----------------------------------------------------------------------------
(* The steps of one flush. *)

\* The server works on the action at hand.
Working(f) ==
  \/ LookUp(f) \/ RefusePayload(f) \/ SaveJob(f) \/ UnsaveJob(f) \/ DismissRecommendation(f)
  \/ SubmitApplication(f) \/ CheckVersion(f) \/ SaveRecord(f) \/ FinishHandler(f) \/ StoreReceipt(f)
  \/ StatementFails(f) \/ ReceiptFails(f)

\* It goes on with the same action, or is done with it.
Went(f, pc) ==
  /\ flush'[f].device = flush[f].device /\ flush'[f].pc = pc
  /\ flush'[f].todo = flush[f].todo /\ flush'[f].results = flush[f].results
Closed(f, outcome) ==
  /\ flush'[f].device = flush[f].device /\ flush'[f].pc = "lookup"
  /\ flush'[f].todo = flush[f].todo \ {First(flush[f].todo)}
  /\ flush'[f].results = Append(flush[f].results, [act |-> Current(f).act, outcome |-> outcome])

LEMMA FlushSteps ==
  ASSUME TypeOK, NEW f \in Slot
  PROVE  /\ \A pc \in Pc : GoTo(f, pc) =>
              Went(f, pc) /\ flush' \in [Slot -> Flush] /\ \A g \in Slot \ {f} : flush'[g] = flush[g]
         /\ \A o \in Outcome : Finish(f, o) /\ Current(f).act \in Actions =>
              Closed(f, o) /\ flush' \in [Slot -> Flush] /\ \A g \in Slot \ {f} : flush'[g] = flush[g]
  <1>1. flush \in [Slot -> Flush] /\ flush[f] \in Flush
    BY DEF TypeOK
  <1>2. ASSUME NEW pc \in Pc, GoTo(f, pc)
        PROVE  Went(f, pc) /\ flush' \in [Slot -> Flush] /\ \A g \in Slot \ {f} : flush'[g] = flush[g]
    BY <1>1, <1>2 DEF GoTo, Went, Flush
  <1>3. ASSUME NEW o \in Outcome, Finish(f, o), Current(f).act \in Actions
        PROVE  Closed(f, o) /\ flush' \in [Slot -> Flush] /\ \A g \in Slot \ {f} : flush'[g] = flush[g]
    <2> DEFINE one  == [act |-> Current(f).act, outcome |-> o]
               more == Append(flush[f].results, one)
               left == flush[f].todo \ {First(flush[f].todo)}
    <2>1. one \in Result /\ flush[f].results \in Seq(Result) /\ left \subseteq Nat
      BY <1>1, <1>3 DEF Result, Flush
    <2> HIDE DEF one
    <2>2. more \in Seq(Result)
      BY <2>1
    <2>3. flush' = [flush EXCEPT ![f].pc = "lookup", ![f].todo = left, ![f].results = more]
      BY <1>3 DEF Finish, one
    <2> HIDE DEF more, left
    <2>4. /\ flush'[f].device = flush[f].device /\ flush'[f].pc = "lookup"
          /\ flush'[f].todo = left /\ flush'[f].results = more
          /\ \A g \in Slot \ {f} : flush'[g] = flush[g]
      BY <1>1, <2>3 DEF Flush
    <2>5. flush' \in [Slot -> Flush]
      BY <1>1, <2>1, <2>2, <2>3 DEF Flush, Pc
    <2> QED BY <2>4, <2>5 DEF Closed, more, left, one
  <1> QED BY <1>2, <1>3

\* What the server may do to the rows while it works on the action at hand.
Writes(f) ==
  /\ saved' \subseteq Job /\ applied' \subseteq Job /\ dismissed' \subseteq Job
  /\ applied \subseteq applied'
  /\ version' \in [Record \cup {Profile} -> Nat]
  /\ \A r \in Record \cup {Profile} : version[r] <= version'[r]

\* The action goes on, written or not; or it is over, with a result that says what became of it.
GoesOn(f) ==
  /\ receipts' = receipts
  /\ \E pc \in Pc \ {"idle"} :
       /\ Went(f, pc)
       /\ pc \in {"finish", "store"} => Current(f).act \in did'
  /\ did' = did \/ did' = did \cup {Current(f).act}
Lands(e) == e.act \in did \/ Hopeless(e)
IsOver(f) ==
  /\ \E o \in Outcome :
       /\ Closed(f, o)
       /\ o = "success" => Current(f).act \in did
       /\ o # "FAILED" => Lands(Current(f))
  /\ did' = did
  /\ \/ receipts' = receipts
     \/ /\ Current(f).act \in did
        /\ receipts' = [receipts EXCEPT ![Current(f).act.key] = [state |-> "live", entry |-> Current(f)]]

LEMMA WorkStep ==
  ASSUME HonestInv, NEW f \in Slot, Working(f)
  PROVE  /\ flush[f].todo # {}
         /\ taken' = taken /\ settled' = settled
         /\ flush' \in [Slot -> Flush] /\ \A g \in Slot \ {f} : flush'[g] = flush[g]
         /\ Writes(f)
         /\ GoesOn(f) \/ IsOver(f)
         /\ faults' \in Nat
  <1> DEFINE e == Current(f)
            Moved == flush' \in [Slot -> Flush] /\ \A g \in Slot \ {f} : flush'[g] = flush[g]
            Goal == /\ taken' = taken /\ settled' = settled
                    /\ Moved /\ Writes(f)
                    /\ GoesOn(f) \/ IsOver(f)
                    /\ faults' \in Nat
  <1>1. flush[f].todo # {}
    BY DEF Working, LookUp, RefusePayload, SaveJob, UnsaveJob, DismissRecommendation, SubmitApplication,
      CheckVersion, SaveRecord, FinishHandler, StoreReceipt, StatementFails, ReceiptFails, Dispatched, At
  <1>2. e \in Entry /\ e.act \in Actions /\ e.act.key \in Key /\ e.expected \in Nat
    BY <1>1, AtHand DEF HonestInv, Entry
  <1>3. TypeOK
    BY DEF HonestInv, TypeInv
  <1>4. \A pc \in Pc : GoTo(f, pc) => Went(f, pc) /\ Moved
    BY <1>3, FlushSteps
  <1>5. \A o \in Outcome : Finish(f, o) => Closed(f, o) /\ Moved
    BY <1>2, <1>3, FlushSteps
  <1>6. flush[f].pc \in {"finish", "store"} => e.act \in did
    BY <1>1 DEF HonestInv, Written
  <1>7. /\ saved \subseteq Job /\ applied \subseteq Job /\ dismissed \subseteq Job /\ faults \in Nat
        /\ version \in [Record \cup {Profile} -> Nat]
    BY <1>3 DEF TypeOK
  <1>8. UNCHANGED <<saved, applied, dismissed, version>> => Writes(f)
    BY <1>7 DEF Writes
  <1>9. /\ "success" \in Outcome /\ "FAILED" \in Outcome /\ Refusal \subseteq Outcome
        /\ {"dispatch", "save", "finish", "store"} \subseteq Pc \ {"idle"}
    BY DEF Outcome, Pc
  <1>10. e.act.of # Nothing =>
           /\ e.act.type \in OnAJob => e.act.of \in Job
           /\ e.act.type \in Updates => e.act.of \in Record \cup {Profile}
    BY <1>2, Names
  <1> HIDE DEF Moved
  <1>24. ASSUME NEW pc \in Pc \ {"idle"}, GoTo(f, pc), pc \in {"finish", "store"} => e.act \in did',
                did' = did \/ did' = did \cup {e.act}, receipts' = receipts,
                Writes(f), taken' = taken, settled' = settled, faults' \in Nat
         PROVE  Goal
    <2>1. Went(f, pc) /\ Moved
      BY <1>4, <1>24
    <2>2. GoesOn(f)
      BY <1>24, <2>1, Zenon DEF GoesOn
    <2> QED BY <1>24, <2>1, <2>2, Zenon
  <1>25. ASSUME NEW o \in Outcome, Finish(f, o), o = "success" => e.act \in did, o # "FAILED" => Lands(e),
                did' = did,
                receipts' = receipts \/ (e.act \in did /\ receipts' = [receipts EXCEPT ![e.act.key] = [state |-> "live", entry |-> e]]),
                Writes(f), taken' = taken, settled' = settled, faults' \in Nat
         PROVE  Goal
    <2>1. Closed(f, o) /\ Moved
      BY <1>5, <1>25
    <2>2. IsOver(f)
      BY <1>25, <2>1, Zenon DEF IsOver
    <2> QED BY <1>25, <2>1, <2>2, Zenon
  <1> SUFFICES Goal
    BY <1>1 DEF Moved
  <1> HIDE DEF e, Goal
  <1>11. CASE LookUp(f)
    <2>1. CASE GoTo(f, "dispatch") /\ UNCHANGED <<client, server, receipts, faults>>
      BY <1>24, <1>7, <1>8, <1>9, <2>1 DEF client, server
    <2>2. CASE HasReceipt(e.act.key) /\ receipts[e.act.key].entry = e /\ Finish(f, "success") /\ UNCHANGED <<client, server, receipts, faults>>
      <3>1. e.act \in did
        BY <1>2, <2>2 DEF HonestInv, SuccessIsTrue, HasReceipt, NoReceipt
      <3> QED BY <1>25, <1>7, <1>8, <1>9, <2>2, <3>1 DEF client, server, Lands
    <2>3. CASE HasReceipt(e.act.key) /\ receipts[e.act.key].entry # e /\ Finish(f, "IDEMPOTENCY_CONFLICT") /\ UNCHANGED <<client, server, receipts, faults>>
      <3>1. receipts[e.act.key] # NoReceipt
        BY <2>3 DEF HasReceipt, NoReceipt
      <3>2. receipts[e.act.key].entry.act \in did /\ receipts[e.act.key].entry.act.key = e.act.key
        BY <1>2, <3>1 DEF HonestInv, SuccessIsTrue, Keyed
      <3>3. Lands(e)
        BY <3>2 DEF Lands, Hopeless
      <3>4. "IDEMPOTENCY_CONFLICT" \in Outcome
        BY DEF Outcome, Refusal
      <3> QED BY <1>25, <1>7, <1>8, <1>9, <2>3, <3>3, <3>4 DEF client, server
    <2> QED BY <1>11, <2>1, <2>2, <2>3 DEF LookUp, e
  <1>12. CASE RefusePayload(f)
    <2>1. Lands(e) /\ "INVALID_PAYLOAD" \in Outcome
      BY <1>12 DEF RefusePayload, Lands, Hopeless, Outcome, Refusal, e
    <2> QED BY <1>25, <1>7, <1>8, <1>12, <2>1 DEF RefusePayload, client, server, e
  <1>13. CASE SaveJob(f)
    <2>1. e.act.type = "SAVE_JOB" /\ e.act.of \in Job
      BY <1>10, <1>13 DEF SaveJob, Dispatched, OnAJob, e
    <2>2. CASE e.act.of \in Gone
      <3>1. Lands(e) /\ "INVALID_PAYLOAD" \in Outcome
        BY <2>1, <2>2 DEF Lands, Hopeless, Outcome, Refusal
      <3> QED BY <1>25, <1>7, <1>8, <1>13, <2>2, <3>1 DEF SaveJob, client, server, e
    <2>3. CASE e.act.of \notin Gone
      <3>1. GoTo(f, "finish") /\ did' = did \cup {e.act} /\ saved' = saved \cup {e.act.of}
            /\ UNCHANGED <<taken, settled, applied, dismissed, version, receipts, faults>>
        BY <1>13, <2>3 DEF SaveJob, Write, client, e
      <3>2. Writes(f)
        BY <1>7, <2>1, <3>1 DEF Writes
      <3> QED BY <1>24, <1>7, <1>9, <3>1, <3>2
    <2> QED BY <2>2, <2>3
  <1>14. CASE UnsaveJob(f)
    <2>1. GoTo(f, "finish") /\ did' = did \cup {e.act} /\ saved' = saved \ {e.act.of}
          /\ UNCHANGED <<taken, settled, applied, dismissed, version, receipts, faults>>
      BY <1>14 DEF UnsaveJob, Write, client, e
    <2>2. Writes(f)
      BY <1>7, <2>1 DEF Writes
    <2> QED BY <1>24, <1>7, <1>9, <2>1, <2>2
  <1>15. CASE DismissRecommendation(f)
    <2>1. GoTo(f, "store") /\ did' = did \cup {e.act} /\ dismissed' = dismissed \cup {e.act.of}
          /\ UNCHANGED <<taken, settled, saved, applied, version, receipts, faults>>
          /\ e.act.type = "DISMISS_RECOMMENDATION" /\ e.act.of # Nothing
      BY <1>15 DEF DismissRecommendation, Write, Dispatched, client, e
    <2>2. Writes(f)
      BY <1>7, <1>10, <2>1 DEF Writes, OnAJob
    <2> QED BY <1>24, <1>7, <1>9, <2>1, <2>2
  <1>16. CASE SubmitApplication(f)
    <2>1. e.act.type = "SUBMIT_APPLICATION" /\ e.act.of \in Job
      BY <1>10, <1>16 DEF SubmitApplication, Dispatched, OnAJob, e
    <2>2. ASSUME NEW o \in {"NOT_FOUND", "CONFLICT"}, Finish(f, o), e.act.of \in Gone \cup applied, UNCHANGED <<applied, did>>
          PROVE  Goal
      <3>1. Lands(e) /\ o \in Outcome /\ o # "success"
        BY <2>1, <2>2 DEF Lands, Hopeless, Outcome, Refusal
      <3>2. UNCHANGED <<taken, settled, saved, applied, dismissed, version, receipts, did, faults>>
        BY <1>16, <2>2 DEF SubmitApplication, client
      <3> QED BY <1>25, <1>7, <1>8, <2>2, <3>1, <3>2
    <2>3. ASSUME applied' = applied \cup {e.act.of}, Write(f, "finish") PROVE Goal
      <3>1. GoTo(f, "finish") /\ did' = did \cup {e.act}
            /\ UNCHANGED <<taken, settled, saved, dismissed, version, receipts, faults>>
        BY <1>16, <2>3 DEF SubmitApplication, Write, client, e
      <3>2. Writes(f)
        BY <1>7, <2>1, <2>3, <3>1 DEF Writes
      <3> QED BY <1>24, <1>7, <1>9, <3>1, <3>2
    <2>4. \/ e.act.of \in Gone /\ Finish(f, "NOT_FOUND") /\ UNCHANGED <<applied, did>>
          \/ e.act.of \in applied /\ Finish(f, "CONFLICT") /\ UNCHANGED <<applied, did>>
          \/ applied' = applied \cup {e.act.of} /\ Write(f, "finish")
      BY <1>16 DEF SubmitApplication, AlreadyApplied, e
    <2> QED BY <2>2, <2>3, <2>4
  <1>17. CASE CheckVersion(f)
    <2>1. e.act.type \in Updates /\ UNCHANGED <<taken, settled, saved, applied, dismissed, version, receipts, did, faults>>
      BY <1>17 DEF CheckVersion, Dispatched, client, server, e
    <2>2. CASE GoTo(f, "save")
      BY <1>24, <1>7, <1>8, <1>9, <2>1, <2>2
    <2>3. CASE e.act.of \in Gone /\ Finish(f, "NOT_FOUND")
      <3>1. Lands(e) /\ "NOT_FOUND" \in Outcome
        BY <2>1, <2>3 DEF Lands, Hopeless, Outcome, Refusal
      <3> QED BY <1>25, <1>7, <1>8, <2>1, <2>3, <3>1
    <2>4. CASE e.expected # version[e.act.of] /\ Finish(f, "VERSION_CONFLICT")
      <3>1. Lands(e) /\ "VERSION_CONFLICT" \in Outcome
        BY <2>1, <2>4 DEF Lands, Hopeless, Outcome, Refusal
      <3> QED BY <1>25, <1>7, <1>8, <2>1, <2>4, <3>1
    <2>5. CASE e.act.changes = "unfit" /\ Finish(f, RefusedByEntity(e.act))
      <3>1. Lands(e) /\ RefusedByEntity(e.act) \in Outcome /\ RefusedByEntity(e.act) # "success"
        BY <2>1, <2>5 DEF Lands, Hopeless, Outcome, Refusal, RefusedByEntity
      <3> QED BY <1>25, <1>7, <1>8, <2>1, <2>5, <3>1
    <2> QED BY <1>17, <2>2, <2>3, <2>4, <2>5 DEF CheckVersion, e
  <1>23. CASE SaveRecord(f) /\ e.act.changes = "unstorable"
    <2>1. Finish(f, "FAILED") /\ UNCHANGED <<taken, settled, saved, applied, dismissed, version, did, receipts, faults>>
      BY <1>23 DEF SaveRecord, client, e
    <2> QED BY <1>25, <1>7, <1>8, <1>9, <2>1
  <1>18. CASE SaveRecord(f) /\ e.act.changes # "unstorable"
    <2>1. GoTo(f, "store") /\ did' = did \cup {e.act} /\ version' = [version EXCEPT ![e.act.of] = @ + 1]
          /\ UNCHANGED <<taken, settled, saved, applied, dismissed, receipts, faults>>
      BY <1>18 DEF SaveRecord, Write, client, e
    <2>3. ASSUME NEW r \in Record \cup {Profile}
          PROVE  version[r] \in Nat /\ version'[r] = IF r = e.act.of THEN version[r] + 1 ELSE version[r]
      BY <1>7, <2>1
    <2>4. DOMAIN version' = Record \cup {Profile} /\ version' = [r \in DOMAIN version' |-> version'[r]]
      BY <1>7, <2>1
    <2>5. version' \in [Record \cup {Profile} -> Nat]
      BY <2>3, <2>4
    <2>2. Writes(f)
      BY <1>7, <2>1, <2>3, <2>5 DEF Writes
    <2> QED BY <1>24, <1>7, <1>9, <2>1, <2>2
  <1>19. CASE FinishHandler(f)
    <2>1. GoTo(f, "store") /\ e.act \in did
          /\ UNCHANGED <<taken, settled, saved, applied, dismissed, version, did, receipts, faults>>
      BY <1>6, <1>19 DEF FinishHandler, At, client, server
    <2> QED BY <1>24, <1>7, <1>8, <1>9, <2>1
  <1>20. CASE StoreReceipt(f)
    <2>1. Finish(f, "success") /\ e.act \in did
          /\ UNCHANGED <<taken, settled, saved, applied, dismissed, version, did, faults>>
          /\ \/ receipts' = receipts
             \/ receipts' = [receipts EXCEPT ![e.act.key] = [state |-> "live", entry |-> e]]
      BY <1>6, <1>20 DEF StoreReceipt, At, client, server, e
    <2> QED BY <1>25, <1>7, <1>8, <1>9, <2>1 DEF Lands
  <1>21. CASE StatementFails(f)
    <2>1. Finish(f, "FAILED") /\ faults' = faults + 1
          /\ UNCHANGED <<taken, settled, saved, applied, dismissed, version, did, receipts>>
      BY <1>21 DEF StatementFails, Fault, ResultOfFailure, client, server
    <2> QED BY <1>25, <1>7, <1>8, <1>9, <2>1
  <1>22. CASE ReceiptFails(f)
    <2>1. Finish(f, "success") /\ faults' = faults + 1 /\ e.act \in did
          /\ UNCHANGED <<taken, settled, saved, applied, dismissed, version, did, receipts>>
      BY <1>6, <1>22 DEF ReceiptFails, Fault, At, client, server
    <2> QED BY <1>25, <1>7, <1>8, <1>9, <2>1 DEF Lands
  <1> QED
    BY <1>11, <1>12, <1>13, <1>14, <1>15, <1>16, <1>17, <1>18, <1>19, <1>20, <1>21, <1>22, <1>23 DEF Working

-----------------------------------------------------------------------------
(* The other steps. *)

\* A device's queue only gets longer, by an action nobody took.
LEMMA Taking ==
  ASSUME TypeOK, NEW d \in Device, NEW a \in Actions, TakeAction(d, a)
  PROVE  /\ taken' \in [Device -> Seq(Entry)]
         /\ \A e \in Device : \A i \in DOMAIN taken[e] : i \in DOMAIN taken'[e] /\ taken'[e][i] = taken[e][i]
         /\ \A e \in Device : \A i \in DOMAIN taken'[e] \ DOMAIN taken[e] :
              /\ e = d /\ i = Len(taken[d]) + 1 /\ taken'[e][i].act = a
              /\ \A r \in Record \cup {Profile} : a.of = r => taken'[e][i].expected = version[r]
         /\ \A e \in Device : a \notin TakenBy(e)
         /\ UNCHANGED <<settled, saved, applied, dismissed, version, did, receipts, flush, faults>>
  <1> DEFINE n == IF a.of \in DOMAIN version THEN version[a.of] ELSE 0
            new == [act |-> a, expected |-> n]
  <1>1. taken \in [Device -> Seq(Entry)] /\ version \in [Record \cup {Profile} -> Nat] /\ taken[d] \in Seq(Entry)
    BY DEF TypeOK
  <1>2. new \in Entry /\ new.act = a /\ \A r \in Record \cup {Profile} : a.of = r => new.expected = version[r]
    BY <1>1 DEF Entry
  <1>3. taken' = [taken EXCEPT ![d] = Append(taken[d], new)]
    BY DEF TakeAction
  <1> HIDE DEF new
  <1>4. taken'[d] = Append(taken[d], new) /\ \A e \in Device \ {d} : taken'[e] = taken[e]
    BY <1>1, <1>3
  <1>5. Append(taken[d], new) \in Seq(Entry)
    BY <1>1, <1>2
  <1>6. taken' \in [Device -> Seq(Entry)]
    BY <1>1, <1>3, <1>5
  <1>7. /\ \A i \in DOMAIN taken[d] : i \in DOMAIN taken'[d] /\ taken'[d][i] = taken[d][i]
        /\ \A i \in DOMAIN taken'[d] \ DOMAIN taken[d] : i = Len(taken[d]) + 1 /\ taken'[d][i] = new
    BY <1>1, <1>2, <1>4
  <1> QED BY <1>2, <1>4, <1>6, <1>7 DEF TakeAction, client, server

\* Nobody is sent further than the device has gone.
LEMMA Beginning ==
  ASSUME TypeInv, NEW f \in Slot, NEW d \in Device, BeginFlush(f, d)
  PROVE  /\ flush[f] = NoFlush
         /\ flush'[f].device = d /\ flush'[f].pc = "lookup" /\ flush'[f].results = <<>>
         /\ flush'[f].todo \subseteq Pending(d) /\ Pending(d) \subseteq DOMAIN taken[d]
         /\ flush' \in [Slot -> Flush] /\ \A g \in Slot \ {f} : flush'[g] = flush[g]
         /\ UNCHANGED <<taken, settled, saved, applied, dismissed, version, did, receipts, faults>>
  <1>1. flush \in [Slot -> Flush] /\ taken[d] \in Seq(Entry)
    BY DEF TypeInv, TypeOK
  <1>2. Pending(d) \subseteq DOMAIN taken[d] /\ Batch(d) \subseteq Pending(d) /\ DOMAIN taken[d] \subseteq Nat
    BY <1>1 DEF Pending, Batch
  <1> DEFINE new == [device |-> d, pc |-> "lookup", todo |-> Batch(d), results |-> <<>>]
  <1>3. flush' = [flush EXCEPT ![f] = new]
    BY DEF BeginFlush
  <1>4. new \in Flush
    BY <1>2 DEF Flush, Pc
  <1>5. flush' \in [Slot -> Flush] /\ flush'[f] = new /\ \A g \in Slot \ {f} : flush'[g] = flush[g]
    BY <1>1, <1>3, <1>4
  <1> QED BY <1>2, <1>5 DEF BeginFlush, client, server

\* A flush is over: answered, or lost with its process or its response.
Ending(f) == flush' = [flush EXCEPT ![f] = NoFlush] /\ UNCHANGED <<taken, saved, applied, dismissed, version, did, receipts>>

LEMMA Endings ==
  ASSUME TypeOK, NEW f \in Slot, Respond(f) \/ Crash(f) \/ LoseResponse(f)
  PROVE  /\ Ending(f) /\ faults' \in Nat
         /\ flush' \in [Slot -> Flush] /\ flush'[f] = NoFlush /\ \A g \in Slot \ {f} : flush'[g] = flush[g]
         /\ settled' \in [Device -> SUBSET Actions]
  <1>1. /\ flush \in [Slot -> Flush] /\ settled \in [Device -> SUBSET Actions] /\ faults \in Nat
        /\ NoFlush \in Flush
    BY DEF TypeOK, NoFlush, Flush, Pc
  <1>2. Ending(f) /\ faults' \in Nat
    BY <1>1 DEF Respond, Crash, LoseResponse, Ending, Fault, client, server
  <1>3. flush' \in [Slot -> Flush] /\ flush'[f] = NoFlush /\ \A g \in Slot \ {f} : flush'[g] = flush[g]
    BY <1>1, <1>2 DEF Ending
  <1>4. CASE Respond(f)
    <2>1. flush[f].results \in Seq(Result)
      BY <1>1 DEF Flush
    <2>3. \A i \in DOMAIN flush[f].results : flush[f].results[i].act \in Actions
      <3>1. ASSUME NEW i \in DOMAIN flush[f].results PROVE flush[f].results[i] \in Result
        BY <2>1
      <3> QED BY <3>1 DEF Result
    <2>2. Settles(flush[f].results) \subseteq Actions
      BY <2>3, Zenon DEF Settles
    <2> QED BY <1>1, <1>2, <1>3, <1>4, <2>2 DEF Respond
  <1>5. CASE Crash(f) \/ LoseResponse(f)
    BY <1>1, <1>2, <1>3, <1>5 DEF Crash, LoseResponse, client
  <1> QED BY <1>4, <1>5

\* Receipts age and go; what remains is what was there.
Aging == (\E k \in Key : Expire(k)) \/ DeleteExpired

LEMMA Agings ==
  ASSUME TypeOK, Aging
  PROVE  /\ receipts' \in [Key -> Receipt \cup {NoReceipt}] /\ faults' \in Nat
         /\ \A k \in Key : receipts'[k] # NoReceipt => receipts[k] # NoReceipt /\ receipts'[k].entry = receipts[k].entry
         /\ UNCHANGED <<taken, settled, saved, applied, dismissed, version, did, flush>>
  <1>1. receipts \in [Key -> Receipt \cup {NoReceipt}] /\ faults \in Nat
    BY DEF TypeOK
  <1>2. ASSUME NEW k \in Key, Expire(k)
        PROVE  /\ receipts' \in [Key -> Receipt \cup {NoReceipt}] /\ faults' \in Nat
               /\ \A l \in Key : receipts'[l] # NoReceipt => receipts[l] # NoReceipt /\ receipts'[l].entry = receipts[l].entry
    <2>1. receipts[k] \in Receipt /\ receipts[k] # NoReceipt
      BY <1>1, <1>2 DEF Expire, HasReceipt, NoReceipt
    <2> DEFINE old == [receipts[k] EXCEPT !.state = "expired"]
    <2>2. old \in Receipt /\ old.entry = receipts[k].entry
      BY <2>1 DEF Receipt
    <2>3. receipts' = [receipts EXCEPT ![k] = old]
      BY <1>2 DEF Expire
    <2> HIDE DEF old
    <2> QED BY <1>1, <1>2, <2>1, <2>2, <2>3 DEF Expire, Fault
  <1>3. ASSUME DeleteExpired
        PROVE  /\ receipts' \in [Key -> Receipt \cup {NoReceipt}] /\ faults' \in Nat
               /\ \A l \in Key : receipts'[l] # NoReceipt => receipts[l] # NoReceipt /\ receipts'[l].entry = receipts[l].entry
    <2>1. \A l \in Key : receipts'[l] = IF HasReceipt(l) THEN receipts[l] ELSE NoReceipt
      BY <1>3 DEF DeleteExpired
    <2>2. receipts' = [l \in Key |-> receipts'[l]]
      BY <1>3 DEF DeleteExpired
    <2> QED BY <1>1, <1>3, <2>1, <2>2 DEF DeleteExpired
  <1> QED BY <1>2, <1>3 DEF Aging, Expire, DeleteExpired, client, server

\* What can happen, in the parts the proofs go through.
LEMMA NextParts ==
  ASSUME [Next]_vars
  PROVE  \/ \E d \in Device, a \in Actions : TakeAction(d, a)
         \/ \E f \in Slot, d \in Device : BeginFlush(f, d)
         \/ \E f \in Slot : Working(f)
         \/ \E f \in Slot : Respond(f) \/ Crash(f) \/ LoseResponse(f)
         \/ Aging
         \/ UNCHANGED vars
  BY Zenon DEF Next, Serve, Fail, Working, Aging

-----------------------------------------------------------------------------
(* What the server reports was done. *)

LEMMA HonestStart == Init => HonestInv
  <1> SUFFICES ASSUME Init PROVE HonestInv
    OBVIOUS
  <1>1. TypeOK
    BY DEF Init, TypeOK, NoFlush, Flush, Pc
  <1>2. \A f \in Slot : flush[f] = NoFlush
    BY DEF Init
  <1>3. \A f \in Slot : flush[f].todo = {}
    BY <1>2 DEF NoFlush
  <1>5. FlushOK /\ Written
    BY <1>2, <1>3 DEF FlushOK, Written
  <1>4. Keyed /\ SuccessIsTrue
    BY <1>2 DEF Init, Keyed, SuccessIsTrue, NoFlush
  <1> QED BY <1>1, <1>4, <1>5 DEF HonestInv, TypeInv

LEMMA HonestWork ==
  ASSUME HonestInv, NEW f \in Slot, Working(f)
  PROVE  HonestInv'
  <1>1. /\ flush[f].todo # {}
        /\ taken' = taken /\ settled' = settled
        /\ flush' \in [Slot -> Flush] /\ \A g \in Slot \ {f} : flush'[g] = flush[g]
        /\ Writes(f)
        /\ GoesOn(f) \/ IsOver(f)
        /\ faults' \in Nat
    BY WorkStep
  <1> DEFINE e == Current(f)
  <1>2. /\ flush[f] # NoFlush /\ flush[f].device \in Device /\ e \in Entry
        /\ e.act \in Actions /\ e.act.key \in Key
    BY <1>1, AtHand DEF HonestInv
  <1>3. TypeOK /\ FlushOK
    BY DEF HonestInv, TypeInv
  <1>4. did \subseteq did' /\ did' \subseteq Actions
    BY <1>1, <1>2, <1>3 DEF GoesOn, IsOver, TypeOK
  <1> HIDE DEF e
  <1>5. /\ receipts' \in [Key -> Receipt \cup {NoReceipt}]
        /\ \A k \in Key : receipts'[k] # NoReceipt =>
             \/ receipts[k] # NoReceipt /\ receipts'[k] = receipts[k]
             \/ k = e.act.key /\ receipts'[k].entry = e /\ e.act \in did
    <2>1. receipts \in [Key -> Receipt \cup {NoReceipt}]
      BY <1>3 DEF TypeOK
    <2>2. CASE receipts' = receipts
      BY <2>1, <2>2
    <2>3. CASE e.act \in did /\ receipts' = [receipts EXCEPT ![e.act.key] = [state |-> "live", entry |-> e]]
      <3> DEFINE new == [state |-> "live", entry |-> e]
      <3>1. new \in Receipt /\ new.entry = e
        BY <1>2 DEF Receipt
      <3>2. receipts' = [receipts EXCEPT ![e.act.key] = new]
        BY <2>3
      <3> HIDE DEF new
      <3> QED BY <1>2, <2>1, <2>3, <3>1, <3>2
    <2> QED BY <1>1, <2>2, <2>3 DEF GoesOn, IsOver, e
  <1>6. TypeOK'
    BY <1>1, <1>3, <1>4, <1>5 DEF TypeOK, Writes
  <1>7. flush'[f].device = flush[f].device /\ flush'[f].todo \subseteq flush[f].todo /\ flush'[f].pc # "idle"
    BY <1>1 DEF GoesOn, IsOver, Went, Closed
  <1>8. FlushOK'
    BY <1>1, <1>2, <1>3, <1>7 DEF FlushOK
  <1>9. Written'
    <2> SUFFICES ASSUME NEW g \in Slot, flush'[g].todo # {}, flush'[g].pc \in {"finish", "store"}
                 PROVE  Current(g)'.act \in did'
      BY DEF Written
    <2>1. CASE g # f
      BY <1>1, <1>4, <2>1 DEF HonestInv, Written, Current
    <2>2. CASE g = f /\ GoesOn(f)
      BY <1>1, <2>2 DEF GoesOn, Went, Current
    <2>3. CASE g = f /\ IsOver(f)
      BY <2>3 DEF IsOver, Closed
    <2> QED BY <1>1, <2>1, <2>2, <2>3
  <1>10. Keyed'
    BY <1>5 DEF HonestInv, Keyed
  <1>11. ASSUME NEW g \in Slot, NEW i \in DOMAIN flush'[g].results, flush'[g].results[i].outcome = "success"
         PROVE  flush'[g].results[i].act \in did'
    <2>1. CASE g # f
      BY <1>1, <1>4, <1>11, <2>1 DEF HonestInv, SuccessIsTrue
    <2>2. CASE g = f /\ GoesOn(f)
      BY <1>1, <1>4, <1>11, <2>2 DEF HonestInv, SuccessIsTrue, GoesOn, Went
    <2>3. CASE g = f /\ IsOver(f)
      <3>1. PICK o \in Outcome : Closed(f, o) /\ (o = "success" => e.act \in did)
        BY <2>3 DEF IsOver, e
      <3> DEFINE one == [act |-> e.act, outcome |-> o]
      <3>2. flush'[f].results = Append(flush[f].results, one) /\ one.act = e.act /\ one.outcome = o
        BY <3>1 DEF Closed, e
      <3> HIDE DEF one
      <3>3. flush[f].results \in Seq(Result)
        BY <1>3 DEF TypeOK, Flush
      <3>4. \/ i \in DOMAIN flush[f].results /\ flush'[f].results[i] = flush[f].results[i]
            \/ flush'[f].results[i] = one
        BY <1>11, <2>3, <3>2, <3>3
      <3> QED BY <1>4, <1>11, <2>3, <3>1, <3>2, <3>4 DEF HonestInv, SuccessIsTrue
    <2> QED BY <1>1, <2>1, <2>2, <2>3
  <1>12. SuccessIsTrue'
    BY <1>4, <1>5, <1>11 DEF HonestInv, SuccessIsTrue
  <1> QED BY <1>6, <1>8, <1>9, <1>10, <1>12 DEF HonestInv, TypeInv

LEMMA HonestStep == HonestInv /\ [Next]_vars => HonestInv'
  <1> SUFFICES ASSUME HonestInv, [Next]_vars PROVE HonestInv'
    OBVIOUS
  <1>1. TypeOK /\ FlushOK /\ Written /\ Keyed /\ SuccessIsTrue /\ TypeInv
    BY DEF HonestInv, TypeInv
  <1>2. ASSUME NEW d \in Device, NEW a \in Actions, TakeAction(d, a) PROVE HonestInv'
    <2>1. /\ taken' \in [Device -> Seq(Entry)]
          /\ \A e \in Device : \A i \in DOMAIN taken[e] : i \in DOMAIN taken'[e] /\ taken'[e][i] = taken[e][i]
          /\ UNCHANGED <<settled, saved, applied, dismissed, version, did, receipts, flush, faults>>
      BY <1>1, <1>2, Taking
    <2>2. TypeOK'
      BY <1>1, <2>1 DEF TypeOK
    <2>3. FlushOK' /\ SuccessIsTrue' /\ Keyed'
      BY <1>1, <2>1 DEF FlushOK, SuccessIsTrue, Keyed
    <2>4. ASSUME NEW f \in Slot, flush[f].todo # {} PROVE Current(f)' = Current(f)
      BY <1>1, <2>1, <2>4, AtHand DEF Current
    <2>5. Written'
      BY <1>1, <2>1, <2>4 DEF Written
    <2> QED BY <2>2, <2>3, <2>5 DEF HonestInv, TypeInv
  <1>3. ASSUME NEW f \in Slot, NEW d \in Device, BeginFlush(f, d) PROVE HonestInv'
    <2>1. /\ flush'[f].device = d /\ flush'[f].pc = "lookup" /\ flush'[f].results = <<>>
          /\ flush'[f].todo \subseteq DOMAIN taken[d]
          /\ flush' \in [Slot -> Flush] /\ \A g \in Slot \ {f} : flush'[g] = flush[g]
          /\ UNCHANGED <<taken, settled, saved, applied, dismissed, version, did, receipts, faults>>
      BY <1>1, <1>3, Beginning
    <2>2. TypeOK'
      BY <1>1, <2>1 DEF TypeOK
    <2>3. FlushOK'
      BY <1>1, <2>1 DEF FlushOK
    <2>4. Written'
      BY <1>1, <2>1 DEF Written, Current
    <2>5. SuccessIsTrue' /\ Keyed'
      BY <1>1, <2>1 DEF SuccessIsTrue, Keyed
    <2> QED BY <2>2, <2>3, <2>4, <2>5 DEF HonestInv, TypeInv
  <1>4. ASSUME NEW f \in Slot, Respond(f) \/ Crash(f) \/ LoseResponse(f) PROVE HonestInv'
    <2>1. /\ Ending(f) /\ faults' \in Nat
          /\ flush' \in [Slot -> Flush] /\ flush'[f] = NoFlush /\ \A g \in Slot \ {f} : flush'[g] = flush[g]
          /\ settled' \in [Device -> SUBSET Actions]
      BY <1>1, <1>4, Endings
    <2>2. TypeOK'
      BY <1>1, <2>1 DEF TypeOK, Ending
    <2>3. FlushOK'
      BY <1>1, <2>1 DEF FlushOK, Ending
    <2>4. Written'
      BY <1>1, <2>1 DEF Written, Current, Ending, NoFlush
    <2>5. SuccessIsTrue' /\ Keyed'
      BY <1>1, <2>1 DEF SuccessIsTrue, Keyed, Ending, NoFlush
    <2> QED BY <2>2, <2>3, <2>4, <2>5 DEF HonestInv, TypeInv
  <1>5. CASE Aging
    <2>1. /\ receipts' \in [Key -> Receipt \cup {NoReceipt}] /\ faults' \in Nat
          /\ \A k \in Key : receipts'[k] # NoReceipt => receipts[k] # NoReceipt /\ receipts'[k].entry = receipts[k].entry
          /\ UNCHANGED <<taken, settled, saved, applied, dismissed, version, did, flush>>
      BY <1>1, <1>5, Agings
    <2>2. TypeOK'
      BY <1>1, <2>1 DEF TypeOK
    <2>3. FlushOK' /\ Written'
      BY <1>1, <2>1 DEF FlushOK, Written, Current
    <2>4. SuccessIsTrue' /\ Keyed'
      BY <1>1, <2>1 DEF SuccessIsTrue, Keyed
    <2> QED BY <2>2, <2>3, <2>4 DEF HonestInv, TypeInv
  <1>6. CASE UNCHANGED vars
    BY <1>1, <1>6 DEF HonestInv, TypeInv, TypeOK, FlushOK, Written, Keyed, SuccessIsTrue, Current, vars, client, server
  <1> QED BY <1>2, <1>3, <1>4, <1>5, <1>6, HonestWork, NextParts

\* A success reported or recorded belongs to an action whose own write was committed, for any
\* devices, shared keys, overlapping flushes and faults (SuccessIsTrue).
THEOREM ReportsAreTrue == Spec => []SuccessIsTrue
  <1>1. HonestInv => SuccessIsTrue
    BY DEF HonestInv
  <1> QED BY <1>1, HonestStart, HonestStep, PTL DEF Spec

-----------------------------------------------------------------------------
(* What becomes of an action a device no longer sends. *)

Landed == {e \in Entry : Lands(e)}

\* An action is taken once, on one device.
TakenOnce ==
  \A d, e \in Device : \A i \in DOMAIN taken[d], j \in DOMAIN taken[e] :
    taken[d][i].act = taken[e][j].act => d = e /\ i = j

\* Against a version there has been.
Seen ==
  \A d \in Device : \A i \in DOMAIN taken[d] : \A r \in Record \cup {Profile} :
    taken[d][i].act.of = r => taken[d][i].expected <= version[r]

\* A result is about an action of its device, and one that settles it says why it may.
ResultsLand ==
  \A f \in Slot : \A n \in DOMAIN flush[f].results :
    \E i \in DOMAIN taken[flush[f].device] :
      /\ taken[flush[f].device][i].act = flush[f].results[n].act
      /\ flush[f].results[n].outcome # "FAILED" => taken[flush[f].device][i] \in Landed

SettledTaken == \A d \in Device : settled[d] \subseteq TakenBy(d)
SettledLanded == \A d \in Device : \A i \in DOMAIN taken[d] : taken[d][i].act \in settled[d] => taken[d][i] \in Landed

QueueInv == TakenOnce /\ Seen /\ ResultsLand /\ SettledTaken /\ SettledLanded
LandInv == HonestInv /\ QueueInv

\* The reason for which an action may be settled does not go away.
LEMMA LandsForGood ==
  ASSUME HonestInv, Seen, [Next]_vars,
         NEW d \in Device, NEW i \in DOMAIN taken[d], taken[d][i] \in Landed
  PROVE  taken[d][i] \in Landed'
  <1> DEFINE e == taken[d][i]
  <1>1. TypeInv /\ TypeOK
    BY DEF HonestInv, TypeInv
  <1>2. taken[d] \in Seq(Entry) /\ version \in [Record \cup {Profile} -> Nat]
    BY <1>1 DEF TypeOK
  <1>3. e \in Entry
    BY <1>2
  <1>4. /\ did \subseteq did' /\ applied \subseteq applied'
        /\ \A r \in Record \cup {Profile} : version[r] <= version'[r] /\ version'[r] \in Nat
    <2>1. ASSUME NEW c \in Device, NEW a \in Actions, TakeAction(c, a)
          PROVE  UNCHANGED <<did, applied, version>>
      BY <1>1, <2>1, Taking
    <2>2. ASSUME NEW f \in Slot, NEW c \in Device, BeginFlush(f, c)
          PROVE  UNCHANGED <<did, applied, version>>
      BY <1>1, <2>2, Beginning
    <2>3. ASSUME NEW f \in Slot, Respond(f) \/ Crash(f) \/ LoseResponse(f)
          PROVE  UNCHANGED <<did, applied, version>>
      BY <1>1, <2>3, Endings DEF Ending
    <2>4. CASE Aging
      BY <1>1, <2>4, Agings, <1>2
    <2>5. CASE UNCHANGED vars
      BY <2>5, <1>2 DEF vars, server
    <2>6. ASSUME NEW f \in Slot, Working(f)
          PROVE  did \subseteq did' /\ Writes(f)
      BY <2>6, WorkStep DEF GoesOn, IsOver
    <2> QED BY <2>1, <2>2, <2>3, <2>4, <2>5, <2>6, <1>2, NextParts DEF Writes
  <1>5. e.act \in Actions /\ e.expected \in Nat
    BY <1>3 DEF Entry
  <1>6. e.act.type \in Updates /\ e.act.of # Nothing =>
          e.act.of \in Record \cup {Profile} /\ e.expected <= version[e.act.of]
    BY <1>5, Names DEF Seen
  <1>7. e.act \in did \/ Hopeless(e)
    BY DEF Landed, Lands
  <1> SUFFICES e \in Landed'
    OBVIOUS
  <1> HIDE DEF e
  <1>8. CASE e.act \in did
    BY <1>3, <1>4, <1>8 DEF Landed, Lands
  <1>9. CASE \/ e.act.of = Nothing
             \/ e.act.of \in Gone /\ e.act.type \in Updates \cup {"SAVE_JOB", "SUBMIT_APPLICATION"}
             \/ e.act.type \in Updates /\ e.act.changes = "unfit"
    BY <1>3, <1>9 DEF Landed, Lands, Hopeless
  <1>10. CASE e.act.of \in applied /\ e.act.type = "SUBMIT_APPLICATION"
    BY <1>3, <1>4, <1>10 DEF Landed, Lands, Hopeless
  <1>11. CASE e.act.of # Nothing /\ e.act.type \in Updates /\ e.expected # version[e.act.of]
    <2>1. e.expected # version'[e.act.of]
      BY <1>2, <1>4, <1>5, <1>6, <1>11
    <2> QED BY <1>3, <1>11, <2>1 DEF Landed, Lands, Hopeless
  <1>12. CASE \E b \in did \ {e.act} : b.key = e.act.key
    BY <1>3, <1>4, <1>12 DEF Landed, Lands, Hopeless
  <1> QED BY <1>7, <1>8, <1>9, <1>10, <1>11, <1>12 DEF Hopeless

LEMMA LandStart == Init => LandInv
  <1> SUFFICES ASSUME Init PROVE QueueInv
    BY HonestStart DEF LandInv
  <1>1. /\ \A d \in Device : DOMAIN taken[d] = {} /\ settled[d] = {}
        /\ \A f \in Slot : DOMAIN flush[f].results = {}
    BY DEF Init, NoFlush
  <1> QED BY <1>1 DEF QueueInv, TakenOnce, Seen, ResultsLand, SettledTaken, SettledLanded

LEMMA LandStep == LandInv /\ [Next]_vars => LandInv'
  <1> SUFFICES ASSUME LandInv, [Next]_vars PROVE QueueInv'
    BY HonestStep DEF LandInv
  <1>1. /\ TypeOK /\ TypeInv /\ HonestInv /\ FlushOK
        /\ TakenOnce /\ Seen /\ ResultsLand /\ SettledTaken /\ SettledLanded
    BY DEF LandInv, QueueInv, HonestInv, TypeInv
  <1>2. \A d \in Device : \A i \in DOMAIN taken[d] : taken[d][i] \in Landed => taken[d][i] \in Landed'
    BY <1>1, LandsForGood
  <1>3. \A d \in Device : taken[d] \in Seq(Entry)
    BY <1>1 DEF TypeOK
  \* The queues as they were.
  <1>4. ASSUME taken' = taken, \A r \in Record \cup {Profile} : version[r] <= version'[r] /\ version'[r] \in Nat
        PROVE  TakenOnce' /\ Seen'
    <2>1. TakenOnce'
      BY <1>1, <1>4 DEF TakenOnce
    <2>2. ASSUME NEW d \in Device, NEW i \in DOMAIN taken[d], NEW r \in Record \cup {Profile}, taken[d][i].act.of = r
          PROVE  taken[d][i].expected <= version'[r]
      <3>1. taken[d][i] \in Entry /\ version[r] \in Nat
        BY <1>1, <1>3 DEF TypeOK
      <3> QED BY <1>1, <1>4, <2>2, <3>1 DEF Seen, Entry
    <2> QED BY <1>4, <2>1, <2>2 DEF Seen
  <1>5. ASSUME taken' = taken, settled' = settled PROVE SettledTaken' /\ SettledLanded'
    BY <1>1, <1>2, <1>5 DEF SettledTaken, SettledLanded, TakenBy
  <1>6. ASSUME taken' = taken, flush' = flush PROVE ResultsLand'
    <2> SUFFICES ASSUME NEW f \in Slot, NEW n \in DOMAIN flush[f].results
                 PROVE  \E i \in DOMAIN taken[flush[f].device] :
                          /\ taken[flush[f].device][i].act = flush[f].results[n].act
                          /\ flush[f].results[n].outcome # "FAILED" => taken[flush[f].device][i] \in Landed'
      BY <1>6 DEF ResultsLand
    <2>1. flush[f].device \in Device
      BY <1>1 DEF FlushOK, NoFlush
    <2> QED BY <1>1, <1>2, <2>1 DEF ResultsLand
  <1>7. ASSUME NEW d \in Device, NEW a \in Actions, TakeAction(d, a) PROVE QueueInv'
    <2>1. /\ taken' \in [Device -> Seq(Entry)]
          /\ \A e \in Device : \A i \in DOMAIN taken[e] : i \in DOMAIN taken'[e] /\ taken'[e][i] = taken[e][i]
          /\ \A e \in Device : \A i \in DOMAIN taken'[e] \ DOMAIN taken[e] :
               /\ e = d /\ i = Len(taken[d]) + 1 /\ taken'[e][i].act = a
               /\ \A r \in Record \cup {Profile} : a.of = r => taken'[e][i].expected = version[r]
          /\ \A e \in Device : a \notin TakenBy(e)
          /\ UNCHANGED <<settled, saved, applied, dismissed, version, did, receipts, flush, faults>>
      BY <1>1, <1>7, Taking
    <2>2. \A e \in Device : \A i \in DOMAIN taken[e] : taken[e][i].act # a
      BY <2>1 DEF TakenBy
    <2>3. TakenOnce'
      <3> SUFFICES ASSUME NEW c \in Device, NEW e \in Device, NEW i \in DOMAIN taken'[c], NEW j \in DOMAIN taken'[e],
                          taken'[c][i].act = taken'[e][j].act
                   PROVE  c = e /\ i = j
        BY DEF TakenOnce
      <3> QED BY <1>1, <2>1, <2>2 DEF TakenOnce
    <2>4. Seen'
      <3> SUFFICES ASSUME NEW e \in Device, NEW i \in DOMAIN taken'[e], NEW r \in Record \cup {Profile}, taken'[e][i].act.of = r
                   PROVE  taken'[e][i].expected <= version[r]
        BY <2>1 DEF Seen
      <3>1. version[r] \in Nat
        BY <1>1 DEF TypeOK
      <3>2. CASE i \in DOMAIN taken[e]
        BY <1>1, <2>1, <3>2 DEF Seen
      <3>3. CASE i \notin DOMAIN taken[e]
        <4>1. taken'[e][i].expected = version[r]
          BY <2>1, <3>3
        <4> QED BY <3>1, <4>1
      <3> QED BY <3>2, <3>3
    <2>5. ResultsLand'
      <3> SUFFICES ASSUME NEW f \in Slot, NEW n \in DOMAIN flush[f].results
                   PROVE  \E i \in DOMAIN taken'[flush[f].device] :
                            /\ taken'[flush[f].device][i].act = flush[f].results[n].act
                            /\ flush[f].results[n].outcome # "FAILED" => taken'[flush[f].device][i] \in Landed'
        BY <2>1 DEF ResultsLand
      <3>1. flush[f].device \in Device
        BY <1>1 DEF FlushOK, NoFlush
      <3>2. PICK i \in DOMAIN taken[flush[f].device] :
              /\ taken[flush[f].device][i].act = flush[f].results[n].act
              /\ flush[f].results[n].outcome # "FAILED" => taken[flush[f].device][i] \in Landed
        BY <1>1 DEF ResultsLand
      <3> QED BY <1>2, <2>1, <3>1, <3>2
    <2>6. SettledTaken'
      <3> SUFFICES ASSUME NEW e \in Device, NEW b \in settled[e] PROVE b \in TakenBy(e)'
        BY <2>1 DEF SettledTaken
      <3>1. PICK i \in DOMAIN taken[e] : b = taken[e][i].act
        BY <1>1 DEF SettledTaken, TakenBy
      <3> QED BY <2>1, <3>1 DEF TakenBy
    <2>7. SettledLanded'
      <3> SUFFICES ASSUME NEW e \in Device, NEW i \in DOMAIN taken'[e], taken'[e][i].act \in settled[e]
                   PROVE  taken'[e][i] \in Landed'
        BY <2>1 DEF SettledLanded
      <3>1. a \notin settled[e]
        BY <1>1, <2>1 DEF SettledTaken
      <3> QED BY <1>1, <1>2, <2>1, <3>1 DEF SettledLanded
    <2> QED BY <2>3, <2>4, <2>5, <2>6, <2>7 DEF QueueInv
  <1>8. ASSUME NEW f \in Slot, NEW d \in Device, BeginFlush(f, d) PROVE QueueInv'
    <2>1. /\ flush'[f].results = <<>> /\ \A g \in Slot \ {f} : flush'[g] = flush[g]
          /\ UNCHANGED <<taken, settled, version>>
      BY <1>1, <1>8, Beginning
    <2>2. TakenOnce' /\ Seen' /\ SettledTaken' /\ SettledLanded'
      BY <1>1, <1>4, <1>5, <2>1 DEF TypeOK
    <2>3. ResultsLand'
      <3> SUFFICES ASSUME NEW g \in Slot \ {f}, NEW n \in DOMAIN flush[g].results
                   PROVE  \E i \in DOMAIN taken[flush[g].device] :
                            /\ taken[flush[g].device][i].act = flush[g].results[n].act
                            /\ flush[g].results[n].outcome # "FAILED" => taken[flush[g].device][i] \in Landed'
        BY <2>1 DEF ResultsLand
      <3>1. flush[g].device \in Device
        BY <1>1 DEF FlushOK, NoFlush
      <3> QED BY <1>1, <1>2, <3>1 DEF ResultsLand
    <2> QED BY <2>2, <2>3 DEF QueueInv
  <1>9. ASSUME NEW f \in Slot, Respond(f) \/ Crash(f) \/ LoseResponse(f) PROVE QueueInv'
    <2>1. /\ flush'[f] = NoFlush /\ \A g \in Slot \ {f} : flush'[g] = flush[g]
          /\ UNCHANGED <<taken, version>>
      BY <1>1, <1>9, Endings DEF Ending
    <2>2. TakenOnce' /\ Seen'
      BY <1>1, <1>4, <2>1 DEF TypeOK
    <2>3. ResultsLand'
      <3> SUFFICES ASSUME NEW g \in Slot \ {f}, NEW n \in DOMAIN flush[g].results
                   PROVE  \E i \in DOMAIN taken[flush[g].device] :
                            /\ taken[flush[g].device][i].act = flush[g].results[n].act
                            /\ flush[g].results[n].outcome # "FAILED" => taken[flush[g].device][i] \in Landed'
        BY <2>1 DEF ResultsLand, NoFlush
      <3>1. flush[g].device \in Device
        BY <1>1 DEF FlushOK, NoFlush
      <3> QED BY <1>1, <1>2, <3>1 DEF ResultsLand
    <2>4. CASE settled' = settled
      BY <1>5, <2>1, <2>2, <2>3, <2>4 DEF QueueInv
    <2>5. CASE settled' # settled
      <3> DEFINE d == flush[f].device
                told == Settles(flush[f].results)
      <3>1. settled' = [settled EXCEPT ![d] = settled[d] \cup told] /\ settled \in [Device -> SUBSET Actions]
        BY <1>1, <1>9, <2>5 DEF Respond, Crash, LoseResponse, client, TypeOK
      <3>2. ASSUME NEW b \in told
            PROVE  d \in Device /\ \E i \in DOMAIN taken[d] : taken[d][i].act = b /\ taken[d][i] \in Landed
        <4>1. PICK n \in DOMAIN flush[f].results : flush[f].results[n].outcome # "FAILED" /\ b = flush[f].results[n].act
          BY DEF Settles
        <4>2. d \in Device
          BY <1>1, <4>1 DEF FlushOK, NoFlush
        <4> QED BY <1>1, <4>1, <4>2 DEF ResultsLand
      <3> HIDE DEF told, d
      <3>3. \A e \in Device : settled'[e] \subseteq settled[e] \cup IF e = d THEN told ELSE {}
        BY <3>1
      <3>4. SettledTaken'
        <4> SUFFICES ASSUME NEW e \in Device, NEW b \in settled'[e] PROVE b \in TakenBy(e)
          BY <2>1 DEF SettledTaken, TakenBy
        <4>1. CASE b \in settled[e]
          BY <1>1, <4>1 DEF SettledTaken
        <4>2. CASE e = d /\ b \in told
          BY <3>2, <4>2 DEF TakenBy
        <4> QED BY <3>3, <4>1, <4>2
      <3>5. SettledLanded'
        <4> SUFFICES ASSUME NEW e \in Device, NEW i \in DOMAIN taken[e], taken[e][i].act \in settled'[e]
                     PROVE  taken[e][i] \in Landed
          BY <1>2, <2>1 DEF SettledLanded
        <4>1. CASE taken[e][i].act \in settled[e]
          BY <1>1, <4>1 DEF SettledLanded
        <4>2. CASE e = d /\ taken[e][i].act \in told
          BY <1>1, <3>2, <4>2 DEF TakenOnce
        <4> QED BY <3>3, <4>1, <4>2
      <3> QED BY <2>2, <2>3, <3>4, <3>5 DEF QueueInv
    <2> QED BY <2>4, <2>5
  <1>10. CASE Aging
    <2>1. UNCHANGED <<taken, settled, version, flush>>
      BY <1>1, <1>10, Agings
    <2> QED BY <1>1, <1>4, <1>5, <1>6, <2>1 DEF TypeOK, QueueInv
  <1>11. CASE UNCHANGED vars
    <2>1. UNCHANGED <<taken, settled, version, flush>>
      BY <1>11 DEF vars, client, server
    <2> QED BY <1>1, <1>4, <1>5, <1>6, <2>1 DEF TypeOK, QueueInv
  <1>12. ASSUME NEW f \in Slot, Working(f) PROVE QueueInv'
    <2>1. /\ flush[f].todo # {}
          /\ taken' = taken /\ settled' = settled
          /\ \A g \in Slot \ {f} : flush'[g] = flush[g]
          /\ Writes(f)
          /\ GoesOn(f) \/ IsOver(f)
      BY <1>1, <1>12, WorkStep
    <2>2. TakenOnce' /\ Seen' /\ SettledTaken' /\ SettledLanded'
      BY <1>4, <1>5, <2>1 DEF Writes
    <2> DEFINE d == flush[f].device
              at == First(flush[f].todo)
    <2>3. d \in Device /\ at \in DOMAIN taken[d] /\ Current(f) = taken[d][at] /\ Current(f) \in Entry
      BY <1>1, <2>1, AtHand
    <2>4. ResultsLand'
      <3> SUFFICES ASSUME NEW g \in Slot, NEW n \in DOMAIN flush'[g].results
                   PROVE  \E i \in DOMAIN taken[flush'[g].device] :
                            /\ taken[flush'[g].device][i].act = flush'[g].results[n].act
                            /\ flush'[g].results[n].outcome # "FAILED" => taken[flush'[g].device][i] \in Landed'
        BY <2>1 DEF ResultsLand
      <3>1. CASE flush'[g].device = flush[g].device /\ n \in DOMAIN flush[g].results /\ flush'[g].results[n] = flush[g].results[n]
        <4>1. flush[g].device \in Device
          BY <1>1, <3>1 DEF FlushOK, NoFlush
        <4> QED BY <1>1, <1>2, <3>1, <4>1 DEF ResultsLand
      <3>2. CASE g = f /\ IsOver(f)
        <4>1. PICK o \in Outcome : Closed(f, o) /\ (o # "FAILED" => Lands(Current(f)))
          BY <3>2 DEF IsOver
        <4> DEFINE one == [act |-> Current(f).act, outcome |-> o]
        <4>2. flush'[f].results = Append(flush[f].results, one) /\ one.act = Current(f).act /\ one.outcome = o
              /\ flush'[f].device = d
          BY <4>1 DEF Closed
        <4> HIDE DEF one
        <4>3. flush[f].results \in Seq(Result)
          BY <1>1 DEF TypeOK, Flush
        <4>4. CASE n \in DOMAIN flush[f].results /\ flush'[f].results[n] = flush[f].results[n]
          BY <3>1, <3>2, <4>2, <4>4
        <4>5. CASE flush'[f].results[n] = one
          <5>1. o # "FAILED" => taken[d][at] \in Landed
            BY <2>3, <4>1 DEF Landed
          <5> HIDE DEF d, at
          <5> QED BY <1>2, <2>3, <3>2, <4>2, <4>5, <5>1
        <4> QED BY <3>2, <4>2, <4>3, <4>4, <4>5
      <3>3. CASE g = f /\ GoesOn(f)
        BY <3>1, <3>3 DEF GoesOn, Went
      <3>4. CASE g # f
        BY <2>1, <3>1, <3>4
      <3> QED BY <2>1, <3>2, <3>3, <3>4
    <2> QED BY <2>2, <2>4 DEF QueueInv
  <1> QED BY <1>7, <1>8, <1>9, <1>10, <1>11, <1>12, NextParts

\* A device stops sending an action only once it was applied or can never be, for any devices,
\* overlapping flushes and faults (SettledActionsLand).
THEOREM NoActionIsLost == Spec => []SettledActionsLand
  <1>1. LandInv => SettledActionsLand
    BY DEF LandInv, QueueInv, SettledLanded, SettledActionsLand, Landed, Lands
  <1> QED BY <1>1, LandStart, LandStep, PTL DEF Spec

-----------------------------------------------------------------------------
(* Edits, while a device waits for its own flush. *)

Versioned == Record \cup {Profile}
Edits(r) == {a \in did : a.type \in Updates /\ a.of = r}

\* A device has one flush in progress.
OneFlushEach ==
  \A f, g \in Slot :
    flush[f] # NoFlush /\ flush[g] # NoFlush /\ flush[f].device = flush[g].device => f = g

\* What was applied was taken, and an edit that was applied is against a version since passed.
DidTaken == \A a \in did : \E d \in Device : a \in TakenBy(d)
Overtaken ==
  \A d \in Device : \A i \in DOMAIN taken[d] : \A r \in Versioned :
    taken[d][i].act \in Edits(r) => taken[d][i].expected < version[r]

\* Between the check and the save, the edit has not been applied.
Unsaved ==
  \A f \in Slot : flush[f].todo # {} /\ flush[f].pc = "save" =>
    Current(f).act \notin did /\ Current(f).act.type \in Updates /\ Current(f).act.of \in Versioned

OnceParts == OneFlushEach /\ DidTaken /\ Overtaken /\ Unsaved /\ IsFiniteSet(did) /\ EachEditOnce
OnceInv == LandInv /\ OnceParts

\* Only a save the database takes stamps a version and applies an edit, and only CheckVersion leads to it.
Stamps(f) == SaveRecord(f) /\ Current(f).act.changes # "unstorable"
LEMMA OtherWork ==
  ASSUME HonestInv, NEW f \in Slot, Working(f), ~Stamps(f)
  PROVE  /\ version' = version
         /\ did' = did \/ (did' = did \cup {Current(f).act} /\ Current(f).act.type \notin Updates)
         /\ flush'[f].pc = "save" =>
              /\ Current(f).act.type \in Updates /\ Current(f).act.of # Nothing
              /\ Current(f).expected = version[Current(f).act.of]
              /\ did' = did /\ flush'[f].device = flush[f].device /\ flush'[f].todo = flush[f].todo
  <1> DEFINE e == Current(f)
            Goal == /\ version' = version
                    /\ did' = did \/ (did' = did \cup {e.act} /\ e.act.type \notin Updates)
                    /\ flush'[f].pc = "save" =>
                         /\ e.act.type \in Updates /\ e.act.of # Nothing /\ e.expected = version[e.act.of]
                         /\ did' = did /\ flush'[f].device = flush[f].device /\ flush'[f].todo = flush[f].todo
  <1>1. flush[f].todo # {}
    BY WorkStep
  <1>2. e.act \in Actions /\ TypeOK
    BY <1>1, AtHand DEF HonestInv, TypeInv
  <1>3. \A pc \in Pc : GoTo(f, pc) => Went(f, pc)
    BY <1>2, FlushSteps
  <1>4. \A o \in Outcome : Finish(f, o) => Closed(f, o)
    BY <1>2, FlushSteps
  <1>5. /\ "success" \in Outcome /\ "FAILED" \in Outcome /\ Refusal \subseteq Outcome
        /\ {"dispatch", "save", "finish", "store"} \subseteq Pc
    BY DEF Outcome, Pc
  <1>6. ASSUME NEW o \in Outcome, Finish(f, o), version' = version, did' = did PROVE Goal
    BY <1>4, <1>6 DEF Closed
  <1>7. ASSUME NEW pc \in Pc \ {"save"}, GoTo(f, pc), version' = version,
               did' = did \/ (did' = did \cup {e.act} /\ e.act.type \notin Updates)
        PROVE  Goal
    BY <1>3, <1>7 DEF Went
  <1> SUFFICES Goal
    OBVIOUS
  <1> HIDE DEF e, Goal
  <1>8. CASE LookUp(f)
    <2>1. /\ version' = version /\ did' = did
          /\ GoTo(f, "dispatch") \/ Finish(f, "success") \/ Finish(f, "IDEMPOTENCY_CONFLICT")
      BY <1>8 DEF LookUp, server
    <2> QED BY <1>5, <1>6, <1>7, <2>1 DEF Refusal
  <1>9. CASE RefusePayload(f)
    BY <1>5, <1>6, <1>9 DEF RefusePayload, server, Refusal
  <1>10. CASE SaveJob(f)
    <2>1. /\ version' = version
          /\ \/ did' = did /\ Finish(f, "INVALID_PAYLOAD")
             \/ did' = did \cup {e.act} /\ GoTo(f, "finish") /\ e.act.type = "SAVE_JOB"
      BY <1>10 DEF SaveJob, Dispatched, Write, server, e
    <2> QED BY <1>5, <1>6, <1>7, <2>1 DEF Refusal, Updates
  <1>11. CASE UnsaveJob(f) \/ DismissRecommendation(f)
    <2>1. /\ version' = version /\ did' = did \cup {e.act}
          /\ (GoTo(f, "finish") \/ GoTo(f, "store")) /\ e.act.type \in {"UNSAVE_JOB", "DISMISS_RECOMMENDATION"}
      BY <1>11 DEF UnsaveJob, DismissRecommendation, Dispatched, Write, e
    <2> QED BY <1>5, <1>7, <2>1 DEF Updates
  <1>12. CASE SubmitApplication(f)
    <2>1. /\ version' = version
          /\ \/ did' = did /\ (Finish(f, "NOT_FOUND") \/ Finish(f, "CONFLICT"))
             \/ did' = did \cup {e.act} /\ GoTo(f, "finish") /\ e.act.type = "SUBMIT_APPLICATION"
      BY <1>12 DEF SubmitApplication, AlreadyApplied, Dispatched, Write, e
    <2> QED BY <1>5, <1>6, <1>7, <2>1 DEF Refusal, Updates
  <1>13. CASE CheckVersion(f)
    <2>1. /\ version' = version /\ did' = did
          /\ e.act.type \in Updates /\ e.act.of # Nothing
          /\ \/ Finish(f, "NOT_FOUND") \/ Finish(f, "VERSION_CONFLICT")
             \/ Finish(f, "INVALID_PAYLOAD") \/ Finish(f, "FAILED")
             \/ GoTo(f, "save") /\ e.expected = version[e.act.of]
      BY <1>13 DEF CheckVersion, RefusedByEntity, Dispatched, server, e
    <2>2. CASE GoTo(f, "save") /\ e.expected = version[e.act.of]
      <3>1. Went(f, "save")
        BY <1>3, <1>5, <2>2
      <3> QED BY <2>1, <2>2, <3>1 DEF Went, Goal
    <2> QED BY <1>5, <1>6, <2>1, <2>2 DEF Refusal
  <1>14. CASE FinishHandler(f)
    BY <1>5, <1>7, <1>14 DEF FinishHandler, server
  <1>15. CASE StoreReceipt(f) \/ StatementFails(f) \/ ReceiptFails(f)
    <2>1. /\ version' = version /\ did' = did
          /\ Finish(f, "success") \/ Finish(f, "FAILED")
      BY <1>15 DEF StoreReceipt, StatementFails, ReceiptFails, ResultOfFailure, server
    <2> QED BY <1>5, <1>6, <2>1
  <1>16. CASE SaveRecord(f)
    <2>1. version' = version /\ did' = did /\ Finish(f, "FAILED")
      BY <1>16 DEF Stamps, SaveRecord
    <2> QED BY <1>5, <1>6, <2>1
  <1> QED BY <1>8, <1>9, <1>10, <1>11, <1>12, <1>13, <1>14, <1>15, <1>16 DEF Working

LEMMA OnceStart == Init => OnceInv
  <1> SUFFICES ASSUME Init PROVE OnceParts
    BY LandStart DEF OnceInv
  <1>1. /\ did = {} /\ \A f \in Slot : flush[f] = NoFlush
        /\ \A d \in Device : DOMAIN taken[d] = {}
        /\ \A r \in Versioned : version[r] = 0
        /\ DOMAIN version = Versioned
    BY DEF Init, Versioned
  <1>2. \A f \in Slot : flush[f].todo = {}
    BY <1>1 DEF NoFlush
  <1>3. IsFiniteSet(did) /\ Cardinality({}) = 0
    BY <1>1, FS_EmptySet
  <1>4. \A r \in Versioned : Edits(r) = {}
    BY <1>1 DEF Edits
  <1>5. EachEditOnce
    BY <1>1, <1>3, <1>4 DEF EachEditOnce, Edits
  <1>6. OneFlushEach /\ DidTaken /\ Unsaved /\ Overtaken
    BY <1>1, <1>2 DEF OneFlushEach, DidTaken, Unsaved, Overtaken
  <1> QED BY <1>3, <1>5, <1>6 DEF OnceParts

LEMMA OnceWork ==
  ASSUME OnceInv, NEW f \in Slot, Working(f)
  PROVE  OnceParts'
  <1>1. /\ TypeOK /\ TypeInv /\ HonestInv /\ TakenOnce /\ Seen
        /\ OneFlushEach /\ DidTaken /\ Overtaken /\ Unsaved /\ IsFiniteSet(did) /\ EachEditOnce
    BY DEF OnceInv, OnceParts, LandInv, QueueInv, HonestInv, TypeInv
  <1>2. /\ flush[f].todo # {}
        /\ taken' = taken /\ settled' = settled
        /\ flush' \in [Slot -> Flush] /\ \A g \in Slot \ {f} : flush'[g] = flush[g]
        /\ GoesOn(f) \/ IsOver(f)
    BY <1>1, WorkStep
  <1> DEFINE e == Current(f)
            d == flush[f].device
            at == First(flush[f].todo)
  <1>3. /\ flush[f] # NoFlush /\ d \in Device /\ at \in DOMAIN taken[d] /\ e = taken[d][at]
        /\ e \in Entry /\ e.act \in Actions
    BY <1>1, <1>2, AtHand
  <1>4. flush'[f].device = d /\ (did' = did \/ did' = did \cup {e.act})
    BY <1>2 DEF GoesOn, IsOver, Went, Closed
  <1>5. version \in [Versioned -> Nat] /\ DOMAIN version = Versioned
    BY <1>1 DEF TypeOK, Versioned
  <1>6. \A g \in Slot \ {f} : flush[g].todo # {} => Current(g).act # e.act /\ Current(g)' = Current(g)
    <2> SUFFICES ASSUME NEW g \in Slot \ {f}, flush[g].todo # {} PROVE Current(g).act # e.act /\ Current(g)' = Current(g)
      OBVIOUS
    <2>1. /\ flush[g] # NoFlush /\ flush[g].device \in Device /\ First(flush[g].todo) \in DOMAIN taken[flush[g].device]
          /\ Current(g) = taken[flush[g].device][First(flush[g].todo)]
      BY <1>1, AtHand
    <2>2. flush[g].device # d
      BY <1>1, <1>3, <2>1 DEF OneFlushEach
    <2>3. Current(g).act # e.act
      BY <1>1, <1>3, <2>1, <2>2 DEF TakenOnce
    <2> QED BY <1>2, <2>3 DEF Current
  <1> HIDE DEF e, d, at
  <1>7. OneFlushEach'
    BY <1>1, <1>2, <1>3, <1>4 DEF OneFlushEach, d
  <1>8. DidTaken'
    BY <1>1, <1>2, <1>3, <1>4 DEF DidTaken, TakenBy
  <1>9. IsFiniteSet(did')
    BY <1>1, <1>4, FS_AddElement
  <1>10. CASE Stamps(f)
    <2>1. At(f, "save") /\ version' = [version EXCEPT ![e.act.of] = @ + 1] /\ did' = did \cup {e.act} /\ GoTo(f, "store")
      BY <1>10 DEF Stamps, SaveRecord, Write, e
    <2>2. e.act \notin did /\ e.act.type \in Updates /\ e.act.of \in Versioned
      BY <1>1, <1>2, <2>1 DEF Unsaved, At, e
    <2>3. \A r \in Versioned : version[r] \in Nat /\ version'[r] = (IF r = e.act.of THEN version[r] + 1 ELSE version[r])
      BY <1>5, <2>1
    <2>4. DOMAIN version' = Versioned
      BY <1>5, <2>1
    <2>5. \A r \in Versioned : Edits(r)' = IF r = e.act.of THEN Edits(r) \cup {e.act} ELSE Edits(r)
      BY <2>1, <2>2 DEF Edits
    <2>6. \A r \in Versioned : IsFiniteSet(Edits(r)) /\ e.act \notin Edits(r)
      BY <1>1, <2>2, FS_Subset DEF Edits
    <2>7. \A r \in Versioned : version[r] = Cardinality(Edits(r))
      BY <1>1, <1>5 DEF EachEditOnce, Edits
    <2>8. EachEditOnce'
      <3>1. ASSUME NEW r \in Versioned PROVE version'[r] = Cardinality(Edits(r)')
        <4>1. CASE r = e.act.of
          <5>1. Cardinality(Edits(r) \cup {e.act}) = Cardinality(Edits(r)) + 1
            BY <2>6, FS_AddElement
          <5> QED BY <2>3, <2>5, <2>7, <4>1, <5>1
        <4>2. CASE r # e.act.of
          BY <2>3, <2>5, <2>7, <4>2
        <4> QED BY <4>1, <4>2
      <3> QED BY <2>4, <3>1 DEF EachEditOnce, Edits
    <2>9. Overtaken'
      <3> SUFFICES ASSUME NEW c \in Device, NEW i \in DOMAIN taken[c], NEW r \in Versioned, taken[c][i].act \in Edits(r)'
                   PROVE  taken[c][i].expected < version'[r]
        BY <1>2 DEF Overtaken
      <3>1. taken[c][i] \in Entry
        BY <1>1 DEF TypeOK
      <3>2. taken[c][i].expected \in Nat
        BY <3>1 DEF Entry
      <3>3. CASE taken[c][i].act \in Edits(r)
        BY <1>1, <2>3, <3>2, <3>3 DEF Overtaken
      <3>4. CASE r = e.act.of /\ taken[c][i].act = e.act
        <4>1. taken[c][i].expected <= version[r]
          BY <1>1, <3>4 DEF Seen, Versioned
        <4> QED BY <2>3, <3>2, <3>4, <4>1
      <3> QED BY <2>5, <3>3, <3>4
    <2>10. Unsaved'
      <3>1. flush'[f].pc = "store"
        BY <1>1, <2>1, FlushSteps DEF Pc, Went
      <3> SUFFICES ASSUME NEW g \in Slot \ {f}, flush[g].todo # {}, flush[g].pc = "save"
                   PROVE  Current(g).act \notin did' /\ Current(g).act.type \in Updates /\ Current(g).act.of \in Versioned
        BY <1>2, <1>6, <3>1 DEF Unsaved
      <3> QED BY <1>1, <1>6, <2>1 DEF Unsaved
    <2> QED BY <1>7, <1>8, <1>9, <2>8, <2>9, <2>10 DEF OnceParts
  <1>11. CASE ~Stamps(f)
    <2>1. /\ version' = version
          /\ did' = did \/ (did' = did \cup {e.act} /\ e.act.type \notin Updates)
          /\ flush'[f].pc = "save" =>
               /\ e.act.type \in Updates /\ e.act.of # Nothing /\ e.expected = version[e.act.of]
               /\ did' = did /\ flush'[f].device = flush[f].device /\ flush'[f].todo = flush[f].todo
      BY <1>1, <1>11, OtherWork DEF e
    <2>2. \A r \in Versioned : Edits(r)' = Edits(r)
      BY <2>1 DEF Edits
    <2>3. EachEditOnce'
      BY <1>1, <1>5, <2>1, <2>2 DEF EachEditOnce, Edits
    <2>4. Overtaken'
      BY <1>1, <1>2, <2>1, <2>2 DEF Overtaken
    <2>5. Unsaved'
      <3>1. ASSUME NEW g \in Slot \ {f}, flush[g].todo # {}, flush[g].pc = "save"
            PROVE  Current(g).act \notin did' /\ Current(g).act.type \in Updates /\ Current(g).act.of \in Versioned
        BY <1>1, <1>6, <2>1, <3>1 DEF Unsaved
      <3>2. ASSUME flush'[f].pc = "save"
            PROVE  Current(f)' = e /\ e.act \notin did' /\ e.act.type \in Updates /\ e.act.of \in Versioned
        <4>1. Current(f)' = e
          BY <1>2, <2>1, <3>2 DEF Current, e
        <4>2. e.act.of \in Versioned /\ version[e.act.of] \in Nat
          BY <1>3, <1>5, <2>1, <3>2, Names DEF Versioned
        <4>3. e.act \notin Edits(e.act.of)
          BY <1>1, <1>3, <2>1, <3>2, <4>2 DEF Overtaken
        <4> QED BY <2>1, <3>2, <4>1, <4>2, <4>3 DEF Edits
      <3> QED BY <1>2, <1>6, <3>1, <3>2 DEF Unsaved
    <2> QED BY <1>7, <1>8, <1>9, <2>3, <2>4, <2>5 DEF OnceParts
  <1> QED BY <1>10, <1>11

LEMMA OnceStep == ~Overlap /\ OnceInv /\ [Next]_vars => OnceInv'
  <1> SUFFICES ASSUME ~Overlap, OnceInv, [Next]_vars PROVE OnceParts'
    BY LandStep DEF OnceInv
  <1>1. /\ TypeOK /\ TypeInv /\ HonestInv /\ FlushOK
        /\ OneFlushEach /\ DidTaken /\ Overtaken /\ Unsaved /\ IsFiniteSet(did) /\ EachEditOnce
    BY DEF OnceInv, OnceParts, LandInv, HonestInv, TypeInv
  <1>2. version \in [Versioned -> Nat]
    BY <1>1 DEF TypeOK, Versioned
  \* Nothing is applied: what counts the edits is as it was.
  <1>3. ASSUME version' = version, did' = did PROVE EachEditOnce' /\ IsFiniteSet(did')
    BY <1>1, <1>3 DEF EachEditOnce
  <1>4. ASSUME version' = version, did' = did, taken' = taken PROVE Overtaken' /\ DidTaken'
    BY <1>1, <1>4 DEF Overtaken, DidTaken, TakenBy, Edits
  <1>5. ASSUME NEW d \in Device, NEW a \in Actions, TakeAction(d, a) PROVE OnceParts'
    <2>1. /\ \A e \in Device : \A i \in DOMAIN taken[e] : i \in DOMAIN taken'[e] /\ taken'[e][i] = taken[e][i]
          /\ \A e \in Device : \A i \in DOMAIN taken'[e] \ DOMAIN taken[e] : taken'[e][i].act = a
          /\ \A e \in Device : a \notin TakenBy(e)
          /\ UNCHANGED <<version, did, flush>>
      BY <1>1, <1>5, Taking
    <2>2. DidTaken'
      <3> SUFFICES ASSUME NEW b \in did PROVE \E e \in Device : b \in TakenBy(e)'
        BY <2>1 DEF DidTaken
      <3>1. PICK e \in Device : b \in TakenBy(e)
        BY <1>1 DEF DidTaken
      <3>2. b \in TakenBy(e)'
        BY <2>1, <3>1 DEF TakenBy
      <3> QED BY <3>2
    <2>3. a \notin did
      BY <1>1, <2>1 DEF DidTaken
    <2>4. Overtaken'
      <3> SUFFICES ASSUME NEW e \in Device, NEW i \in DOMAIN taken'[e], NEW r \in Versioned, taken'[e][i].act \in Edits(r)
                   PROVE  taken'[e][i].expected < version[r]
        BY <2>1 DEF Overtaken, Edits
      <3>1. i \in DOMAIN taken[e]
        BY <2>1, <2>3 DEF Edits
      <3> QED BY <1>1, <2>1, <3>1 DEF Overtaken
    <2>5. \A f \in Slot : flush[f].todo # {} => Current(f)' = Current(f)
      BY <1>1, <2>1, AtHand DEF Current
    <2>6. Unsaved' /\ OneFlushEach'
      BY <1>1, <2>1, <2>5 DEF Unsaved, OneFlushEach
    <2> QED BY <1>3, <2>1, <2>2, <2>4, <2>6 DEF OnceParts
  <1>6. ASSUME NEW f \in Slot, NEW d \in Device, BeginFlush(f, d) PROVE OnceParts'
    <2>1. /\ flush'[f].device = d /\ flush'[f].pc = "lookup"
          /\ \A g \in Slot \ {f} : flush'[g] = flush[g]
          /\ UNCHANGED <<taken, version, did>>
      BY <1>1, <1>6, Beginning
    <2>2. \A g \in Slot : flush[g].device # d
      BY <1>6 DEF BeginFlush
    <2>3. OneFlushEach'
      BY <1>1, <2>1, <2>2 DEF OneFlushEach
    <2>4. Unsaved'
      BY <1>1, <2>1 DEF Unsaved, Current
    <2> QED BY <1>3, <1>4, <2>1, <2>3, <2>4 DEF OnceParts
  <1>7. ASSUME NEW f \in Slot, Respond(f) \/ Crash(f) \/ LoseResponse(f) PROVE OnceParts'
    <2>1. /\ flush'[f] = NoFlush /\ \A g \in Slot \ {f} : flush'[g] = flush[g]
          /\ UNCHANGED <<taken, version, did>>
      BY <1>1, <1>7, Endings DEF Ending
    <2>2. OneFlushEach'
      BY <1>1, <2>1 DEF OneFlushEach
    <2>3. flush'[f].pc # "save"
      BY <2>1 DEF NoFlush
    <2>4. Unsaved'
      BY <1>1, <2>1, <2>3 DEF Unsaved, Current
    <2> QED BY <1>3, <1>4, <2>1, <2>2, <2>4 DEF OnceParts
  <1>8. CASE Aging \/ UNCHANGED vars
    <2>1. UNCHANGED <<taken, version, did, flush>>
      BY <1>1, <1>8, Agings DEF vars, client, server
    <2>2. OneFlushEach' /\ Unsaved'
      BY <1>1, <2>1 DEF OneFlushEach, Unsaved, Current
    <2> QED BY <1>3, <1>4, <2>1, <2>2 DEF OnceParts
  <1> QED BY <1>5, <1>6, <1>7, <1>8, OnceWork, NextParts

\* No edit of the profile or of an entry is applied twice while a device waits for its own flush,
\* for any devices, retries and faults (EachEditOnce).
THEOREM EditsAreAppliedOnce == ~Overlap => (Spec => []EachEditOnce)
  <1> SUFFICES ASSUME ~Overlap PROVE Spec => []EachEditOnce
    OBVIOUS
  <1>1. OnceInv /\ [Next]_vars => OnceInv'
    BY OnceStep
  <1>2. OnceInv => EachEditOnce
    BY DEF OnceInv, OnceParts
  <1> QED BY <1>1, <1>2, OnceStart, PTL DEF Spec

-----------------------------------------------------------------------------
(* The order of one device's actions. *)

\* One device that waits for its own flush and files every action under a key of its own;
\* processes may die and responses may get lost.
OneAtATime ==
  /\ \A d, e \in Device : d = e
  /\ ~Overlap
  /\ \A a, b \in Actions : a.key = b.key => a = b
  /\ Faults \subseteq {"crash", "lost"}

\* An action that moves a bookmark will not be done again once it has a receipt.
Bookmark(e) == e.act.type \in {"SAVE_JOB", "UNSAVE_JOB"} /\ e.act.of \in Job \ Gone
Receipted == {k \in Key : HasReceipt(k)}
DoneWith == {e \in Entry : Bookmark(e) => e.act.key \in Receipted}

NoneExpired == \A k \in Key : receipts[k].state # "expired"
SettledDone == \A d \in Device : \A i \in DOMAIN taken[d] : taken[d][i].act \in settled[d] => taken[d][i] \in DoneWith

\* What a flush has answered is done with, and what lies before the rest of it was answered.
Answered(f) == {flush[f].results[n].act : n \in DOMAIN flush[f].results}
AnsweredDone ==
  \A f \in Slot : flush[f] # NoFlush =>
    \A i \in DOMAIN taken[flush[f].device] :
      taken[flush[f].device][i].act \in Answered(f) => taken[flush[f].device][i] \in DoneWith
InOrder ==
  \A f \in Slot : flush[f] # NoFlush =>
    \A i \in DOMAIN taken[flush[f].device] :
      i \notin flush[f].todo /\ (\E t \in flush[f].todo : i < t) =>
        taken[flush[f].device][i].act \in settled[flush[f].device] \cup Answered(f)
Dispatching == \A f \in Slot : flush[f].todo # {} /\ flush[f].pc = "dispatch" => Current(f).act.key \notin Receipted

\* The device's first h actions were done, the last of them perhaps without its receipt.
Reach(d, h) ==
  /\ \A i \in DOMAIN taken[d] : i < h => taken[d][i] \in DoneWith
  /\ \A i \in DOMAIN taken[d] : i > h => taken[d][i].act \notin settled[d] /\ taken[d][i].act.key \notin Receipted
  /\ \A j \in Job \ Gone : j \in saved <=> Wish(d, h, j)
  /\ \A f \in Slot : flush[f].device = d =>
       /\ \A i \in DOMAIN taken[d] : taken[d][i].act \in Answered(f) => i <= h
       /\ flush[f].todo # {} /\ flush[f].pc \in {"finish", "store"} => First(flush[f].todo) <= h
Reached == \A d \in Device : \E h \in 0..Len(taken[d]) : Reach(d, h)

OrderParts == NoneExpired /\ SettledDone /\ AnsweredDone /\ InOrder /\ Dispatching /\ Reached
OrderInv == OnceInv /\ OrderParts

-----------------------------------------------------------------------------
LEMMA WishNext ==
  ASSUME NEW d \in Device, NEW n \in Nat, NEW j
  PROVE  Wish(d, n + 1, j) <=>
           LET a == taken[d][n + 1].act IN
           \/ a.type = "SAVE_JOB" /\ a.of = j
           \/ Wish(d, n, j) /\ ~(a.type = "UNSAVE_JOB" /\ a.of = j)
  <1> DEFINE Saves(i)   == taken[d][i].act.type = "SAVE_JOB" /\ taken[d][i].act.of = j
             Unsaves(i) == taken[d][i].act.type = "UNSAVE_JOB" /\ taken[d][i].act.of = j
  <1>1. \A m : Wish(d, m, j) <=> \E i \in 1..m : Saves(i) /\ \A k \in (i + 1)..m : ~Unsaves(k)
    BY DEF Wish
  <1>2. Saves(n + 1) => ~Unsaves(n + 1)
    OBVIOUS
  <1> HIDE DEF Saves, Unsaves
  <1>3. (\E i \in 1..(n + 1) : Saves(i) /\ \A k \in (i + 1)..(n + 1) : ~Unsaves(k)) <=>
          Saves(n + 1) \/ ((\E i \in 1..n : Saves(i) /\ \A k \in (i + 1)..n : ~Unsaves(k)) /\ ~Unsaves(n + 1))
    <2>1. ASSUME NEW i \in 1..(n + 1), Saves(i), \A k \in (i + 1)..(n + 1) : ~Unsaves(k), ~Saves(n + 1)
          PROVE  (\E l \in 1..n : Saves(l) /\ \A k \in (l + 1)..n : ~Unsaves(k)) /\ ~Unsaves(n + 1)
      <3>1. i \in 1..n /\ n + 1 \in (i + 1)..(n + 1) /\ \A k \in (i + 1)..n : k \in (i + 1)..(n + 1)
        BY <2>1
      <3> QED BY <2>1, <3>1
    <2>2. ASSUME Saves(n + 1) PROVE \E i \in 1..(n + 1) : Saves(i) /\ \A k \in (i + 1)..(n + 1) : ~Unsaves(k)
      <3>1. n + 1 \in 1..(n + 1) /\ ((n + 1) + 1)..(n + 1) = {}
        OBVIOUS
      <3> QED BY <2>2, <3>1
    <2>3. ASSUME NEW i \in 1..n, Saves(i), \A k \in (i + 1)..n : ~Unsaves(k), ~Unsaves(n + 1)
          PROVE  \E l \in 1..(n + 1) : Saves(l) /\ \A k \in (l + 1)..(n + 1) : ~Unsaves(k)
      <3>1. i \in 1..(n + 1) /\ \A k \in (i + 1)..(n + 1) : k \in (i + 1)..n \/ k = n + 1
        BY <2>3
      <3> QED BY <2>3, <3>1
    <2> QED BY <2>1, <2>2, <2>3
  <1>4. Wish(d, n + 1, j) <=> Saves(n + 1) \/ (Wish(d, n, j) /\ ~Unsaves(n + 1))
    BY <1>1, <1>3
  <1> QED BY <1>4 DEF Saves, Unsaves

LEMMA WishSame ==
  ASSUME NEW d \in Device, NEW n \in Nat, NEW j, \A i \in 1..n : taken'[d][i] = taken[d][i]
  PROVE  Wish(d, n, j)' <=> Wish(d, n, j)
  <1>1. \A i \in 1..n : \A k \in (i + 1)..n : k \in 1..n
    OBVIOUS
  <1> QED BY <1>1 DEF Wish

-----------------------------------------------------------------------------
(* What the server may do to the bookmarks and the receipts. *)

\* The bookmarks as they are after the action at hand.
Moved(f) ==
  \A j \in Job \ Gone :
    j \in saved' <=>
      \/ Current(f).act.type = "SAVE_JOB" /\ Current(f).act.of = j
      \/ j \in saved /\ ~(Current(f).act.type = "UNSAVE_JOB" /\ Current(f).act.of = j)

Waits(f) ==
  /\ UNCHANGED <<saved, receipts>>
  /\ \/ Went(f, "dispatch") /\ Current(f).act.key \notin Receipted
     \/ Went(f, "save")
     \/ Went(f, "store") /\ flush[f].pc = "finish"
WritesOnce(f) ==
  /\ Went(f, "finish") \/ Went(f, "store")
  /\ Moved(f) /\ receipts' = receipts
  /\ Bookmark(Current(f)) => flush[f].pc = "dispatch"
Refuses(f) ==
  /\ \E o \in Outcome : Closed(f, o)
  /\ Moved(f) /\ UNCHANGED <<saved, receipts>>
  /\ ~Bookmark(Current(f))
Acknowledges(f) ==
  /\ \E o \in Outcome : Closed(f, o)
  /\ saved' = saved
  /\ Current(f).act.key \in Receipted \/ flush[f].pc = "store"
  /\ NoneExpired' /\ Receipted' = Receipted \cup {Current(f).act.key}

LEMMA OrderSteps ==
  ASSUME HonestInv, Unsaved, NoneExpired, Faults \subseteq {"crash", "lost"}, NEW f \in Slot, Working(f)
  PROVE  Waits(f) \/ WritesOnce(f) \/ Refuses(f) \/ Acknowledges(f)
  <1> DEFINE e == Current(f)
             Goal == Waits(f) \/ WritesOnce(f) \/ Refuses(f) \/ Acknowledges(f)
  <1>1. flush[f].todo # {}
    BY WorkStep
  <1>2. e \in Entry /\ e.act \in Actions /\ e.act.key \in Key /\ TypeOK
    BY <1>1, AtHand DEF HonestInv, TypeInv
  <1>3. \A pc \in Pc : GoTo(f, pc) => Went(f, pc)
    BY <1>2, FlushSteps
  <1>4. \A o \in Outcome : Finish(f, o) => Closed(f, o)
    BY <1>2, FlushSteps
  <1>5. /\ "success" \in Outcome /\ "FAILED" \in Outcome /\ Refusal \subseteq Outcome
        /\ {"dispatch", "save", "finish", "store"} \subseteq Pc
    BY DEF Outcome, Pc
  <1>6. e.act.of = Nothing => ~Bookmark(e)
    BY ActionsAssumption DEF Bookmark, e
  <1>7. ASSUME ~Bookmark(e), saved' = saved PROVE Moved(f)
    BY <1>7 DEF Moved, Bookmark
  <1>8. ASSUME NEW o \in Outcome, Finish(f, o), saved' = saved, receipts' = receipts, ~Bookmark(e) PROVE Goal
    BY <1>4, <1>7, <1>8 DEF Refuses
  <1>9. ASSUME NEW o \in Outcome, Finish(f, o), saved' = saved, receipts' = receipts, e.act.key \in Receipted PROVE Goal
    <2>1. NoneExpired' /\ Receipted' = Receipted
      BY <1>9 DEF NoneExpired, Receipted, HasReceipt
    <2> QED BY <1>4, <1>9, <2>1 DEF Acknowledges
  <1>10. ASSUME NEW pc \in {"finish", "store"}, GoTo(f, pc), receipts' = receipts, saved' = saved, ~Bookmark(e) PROVE Goal
    BY <1>3, <1>5, <1>7, <1>10 DEF WritesOnce
  <1> SUFFICES Goal
    OBVIOUS
  <1> HIDE DEF e, Goal
  <1>11. CASE LookUp(f)
    <2>1. UNCHANGED <<saved, receipts>>
      BY <1>11 DEF LookUp, server
    <2>2. CASE e.act.key \in Receipted
      <3>1. HasReceipt(e.act.key)
        BY <2>2 DEF Receipted
      <3>2. Finish(f, "success") \/ Finish(f, "IDEMPOTENCY_CONFLICT")
        BY <1>11, <3>1 DEF LookUp, e
      <3> QED BY <1>5, <1>9, <2>1, <2>2, <3>2 DEF Refusal
    <2>3. CASE e.act.key \notin Receipted
      <3>1. ~HasReceipt(e.act.key)
        BY <1>2, <2>3 DEF Receipted
      <3>2. GoTo(f, "dispatch")
        BY <1>11, <3>1 DEF LookUp, e
      <3> QED BY <1>3, <1>5, <2>1, <2>3, <3>2 DEF Goal, Waits, e
    <2> QED BY <2>2, <2>3
  <1>12. CASE RefusePayload(f)
    <2>1. UNCHANGED <<saved, receipts>> /\ e.act.of = Nothing /\ Finish(f, "INVALID_PAYLOAD")
      BY <1>12 DEF RefusePayload, server, e
    <2> QED BY <1>5, <1>6, <1>8, <2>1 DEF Refusal
  <1>13. CASE SaveJob(f)
    <2>1. At(f, "dispatch") /\ e.act.type = "SAVE_JOB" /\ receipts' = receipts
      BY <1>13 DEF SaveJob, Dispatched, e
    <2>2. CASE e.act.of \in Gone
      <3>1. saved' = saved /\ Finish(f, "INVALID_PAYLOAD") /\ ~Bookmark(e)
        BY <1>13, <2>2 DEF SaveJob, server, Bookmark, e
      <3> QED BY <1>5, <1>8, <2>1, <3>1 DEF Refusal
    <2>3. CASE e.act.of \notin Gone
      <3>1. saved' = saved \cup {e.act.of} /\ GoTo(f, "finish")
        BY <1>13, <2>3 DEF SaveJob, Write, e
      <3>2. Moved(f)
        BY <2>1, <3>1 DEF Moved, e
      <3> QED BY <1>3, <1>5, <2>1, <3>1, <3>2 DEF Goal, WritesOnce, At
    <2> QED BY <2>2, <2>3
  <1>14. CASE UnsaveJob(f)
    <2>1. At(f, "dispatch") /\ e.act.type = "UNSAVE_JOB" /\ receipts' = receipts
          /\ saved' = saved \ {e.act.of} /\ GoTo(f, "finish")
      BY <1>14 DEF UnsaveJob, Dispatched, Write, e
    <2>2. Moved(f)
      BY <2>1 DEF Moved, e
    <2> QED BY <1>3, <1>5, <2>1, <2>2 DEF Goal, WritesOnce, At
  <1>15. CASE DismissRecommendation(f)
    <2>1. UNCHANGED <<saved, receipts>> /\ GoTo(f, "store") /\ e.act.type = "DISMISS_RECOMMENDATION"
      BY <1>15 DEF DismissRecommendation, Dispatched, Write, e
    <2> QED BY <1>10, <2>1 DEF Bookmark
  <1>16. CASE SubmitApplication(f)
    <2>1. /\ UNCHANGED <<saved, receipts>> /\ e.act.type = "SUBMIT_APPLICATION"
          /\ GoTo(f, "finish") \/ Finish(f, "NOT_FOUND") \/ Finish(f, "CONFLICT")
      BY <1>16 DEF SubmitApplication, Dispatched, Write, AlreadyApplied, e
    <2> QED BY <1>5, <1>8, <1>10, <2>1 DEF Refusal, Bookmark
  <1>17. CASE CheckVersion(f)
    <2>1. /\ UNCHANGED <<saved, receipts>> /\ e.act.type \in Updates
          /\ \/ GoTo(f, "save") \/ Finish(f, "NOT_FOUND") \/ Finish(f, "VERSION_CONFLICT")
             \/ Finish(f, "INVALID_PAYLOAD") \/ Finish(f, "FAILED")
      BY <1>17 DEF CheckVersion, RefusedByEntity, Dispatched, server, e
    <2>2. ~Bookmark(e)
      BY <2>1 DEF Bookmark, Updates
    <2>3. CASE GoTo(f, "save")
      BY <1>3, <1>5, <2>1, <2>3 DEF Goal, Waits
    <2> QED BY <1>5, <1>8, <2>1, <2>2, <2>3 DEF Refusal
  <1>18. CASE SaveRecord(f)
    <2>1. UNCHANGED <<saved, receipts>> /\ (GoTo(f, "store") \/ Finish(f, "FAILED")) /\ At(f, "save")
      BY <1>18 DEF SaveRecord, Write
    <2>2. ~Bookmark(e)
      BY <2>1 DEF Unsaved, At, Bookmark, Updates, e
    <2> QED BY <1>5, <1>8, <1>10, <2>1, <2>2
  <1>19. CASE FinishHandler(f)
    <2>1. UNCHANGED <<saved, receipts>> /\ GoTo(f, "store") /\ flush[f].pc = "finish"
      BY <1>19 DEF FinishHandler, At, server
    <2> QED BY <1>3, <1>5, <2>1 DEF Goal, Waits
  <1>20. CASE StoreReceipt(f)
    <2>1. /\ saved' = saved /\ Finish(f, "success") /\ flush[f].pc = "store"
          /\ receipts' = IF receipts[e.act.key] = NoReceipt
                         THEN [receipts EXCEPT ![e.act.key] = [state |-> "live", entry |-> e]]
                         ELSE receipts
      BY <1>20 DEF StoreReceipt, At, server, e
    <2>2. receipts \in [Key -> Receipt \cup {NoReceipt}]
      BY <1>2 DEF TypeOK
    <2>3. \A k \in Key : receipts[k].state = "live" \/ receipts[k] = NoReceipt
      BY <2>2 DEF NoneExpired, Receipt
    <2>4. \A k \in Key : receipts'[k].state = IF k = e.act.key THEN "live" ELSE receipts[k].state
      BY <1>2, <2>1, <2>2, <2>3 DEF NoReceipt
    <2>5. NoneExpired'
      BY <2>4 DEF NoneExpired
    <2>6. Receipted' = Receipted \cup {e.act.key}
      BY <1>2, <2>4 DEF Receipted, HasReceipt
    <2> QED BY <1>4, <1>5, <2>1, <2>5, <2>6 DEF Goal, Acknowledges, e
  <1>21. CASE StatementFails(f) \/ ReceiptFails(f)
    BY <1>21 DEF StatementFails, ReceiptFails, Fault
  <1> QED BY <1>11, <1>12, <1>13, <1>14, <1>15, <1>16, <1>17, <1>18, <1>19, <1>20, <1>21 DEF Working

-----------------------------------------------------------------------------
(* How far a device has got. *)

\* A flush is at most one action past what was done.
LEMMA NextPlace ==
  ASSUME TypeInv, InOrder, NEW f \in Slot, flush[f].todo # {},
         NEW h \in 0..Len(taken[flush[f].device]), Reach(flush[f].device, h)
  PROVE  First(flush[f].todo) <= h + 1
  <1> DEFINE d == flush[f].device
             p == First(flush[f].todo)
  <1>1. /\ flush[f] # NoFlush /\ d \in Device /\ p \in DOMAIN taken[d] /\ p \in flush[f].todo
        /\ \A t \in flush[f].todo : p <= t
    BY AtHand
  <1>2. taken[d] \in Seq(Entry)
    BY <1>1 DEF TypeInv, TypeOK
  <1>3. p \in 1..Len(taken[d]) /\ DOMAIN taken[d] = 1..Len(taken[d]) /\ Len(taken[d]) \in Nat
    BY <1>1, <1>2
  <1>4. ASSUME ~(p <= h + 1) PROVE FALSE
    <2>1. h + 1 \in DOMAIN taken[d] /\ h + 1 < p /\ h + 1 > h
      BY <1>3, <1>4
    <2>2. h + 1 \notin flush[f].todo
      BY <1>1, <1>3, <2>1
    <2>3. taken[d][h + 1].act \in settled[d] \cup Answered(f)
      BY <1>1, <2>1, <2>2 DEF InOrder
    <2>4. taken[d][h + 1].act \notin settled[d]
      BY <2>1 DEF Reach
    <2>5. taken[d][h + 1].act \notin Answered(f)
      BY <2>1 DEF Reach
    <2> QED BY <2>3, <2>4, <2>5
  <1> QED BY <1>4

LEMMA OrderStart == Init => OrderInv
  <1> SUFFICES ASSUME Init PROVE OrderParts
    BY OnceStart DEF OrderInv
  <1>1. /\ saved = {} /\ \A f \in Slot : flush[f] = NoFlush
        /\ \A d \in Device : taken[d] = <<>> /\ settled[d] = {}
        /\ \A k \in Key : receipts[k] = NoReceipt
    BY DEF Init
  <1>2. NoneExpired
    BY <1>1 DEF NoneExpired, NoReceipt
  <1>3. \A f \in Slot : flush[f].todo = {} /\ Answered(f) = {}
    BY <1>1 DEF Answered, NoFlush
  <1>4. SettledDone /\ AnsweredDone /\ InOrder /\ Dispatching
    BY <1>1, <1>3 DEF SettledDone, AnsweredDone, InOrder, Dispatching
  <1>5. ASSUME NEW d \in Device PROVE 0 \in 0..Len(taken[d]) /\ Reach(d, 0)
    <2>1. Len(taken[d]) = 0 /\ DOMAIN taken[d] = {}
      BY <1>1
    <2>2. \A j : ~Wish(d, 0, j)
      BY DEF Wish
    <2> QED BY <1>1, <1>3, <2>1, <2>2 DEF Reach
  <1>6. Reached
    BY <1>5 DEF Reached
  <1> QED BY <1>2, <1>4, <1>6 DEF OrderParts

LEMMA OrderWork ==
  ASSUME OneAtATime, OrderInv, NEW f \in Slot, Working(f)
  PROVE  OrderParts'
  <1>1. /\ TypeOK /\ TypeInv /\ HonestInv /\ TakenOnce /\ OneFlushEach /\ Unsaved
        /\ NoneExpired /\ SettledDone /\ AnsweredDone /\ InOrder /\ Dispatching /\ Reached
    BY DEF OrderInv, OrderParts, OnceInv, OnceParts, LandInv, QueueInv, HonestInv, TypeInv
  <1>2. /\ flush[f].todo # {}
        /\ taken' = taken /\ settled' = settled
        /\ flush' \in [Slot -> Flush] /\ \A g \in Slot \ {f} : flush'[g] = flush[g]
        /\ GoesOn(f) \/ IsOver(f)
    BY <1>1, WorkStep
  <1> DEFINE e == Current(f)
             p == First(flush[f].todo)
  <1>3. PICK d \in Device :
        /\ d = flush[f].device /\ flush[f] # NoFlush /\ p \in DOMAIN taken[d] /\ p \in flush[f].todo
        /\ e = taken[d][p] /\ e \in Entry /\ e.act \in Actions /\ e.act.key \in Key
        /\ \A t \in flush[f].todo : p <= t
    BY <1>1, <1>2, AtHand
  <1>4. Waits(f) \/ WritesOnce(f) \/ Refuses(f) \/ Acknowledges(f)
    BY <1>1, OrderSteps DEF OneAtATime
  \* No other flush is in progress.
  <1>5. \A c \in Device : c = d
    BY <1>3 DEF OneAtATime
  <1>6. ASSUME NEW g \in Slot \ {f} PROVE flush[g] = NoFlush /\ flush'[g] = NoFlush
    <2>1. flush[g] # NoFlush => flush[g].device \in Device
      BY <1>1 DEF TypeInv, FlushOK
    <2> QED BY <1>1, <1>2, <1>3, <1>5, <2>1 DEF OneFlushEach
  <1>7. \A g \in Slot \ {f} : flush'[g].todo = {} /\ Answered(g)' = {}
    BY <1>6 DEF Answered, NoFlush
  <1>8. taken[d] \in Seq(Entry) /\ DOMAIN taken[d] = 1..Len(taken[d]) /\ Len(taken[d]) \in Nat
    BY <1>1, <1>3 DEF TypeOK
  <1>9. flush'[f].device = d
    BY <1>3, <1>4 DEF Waits, WritesOnce, Refuses, Acknowledges, Went, Closed
  <1>10. \/ /\ flush'[f].todo = flush[f].todo /\ Answered(f)' = Answered(f)
            /\ Waits(f) \/ WritesOnce(f)
         \/ /\ flush'[f].todo = flush[f].todo \ {p} /\ Answered(f)' = Answered(f) \cup {e.act} /\ flush'[f].pc = "lookup"
            /\ Refuses(f) \/ Acknowledges(f)
    <2>1. CASE Waits(f) \/ WritesOnce(f)
      <3>1. flush'[f].todo = flush[f].todo /\ flush'[f].results = flush[f].results
        BY <2>1 DEF Waits, WritesOnce, Went
      <3> QED BY <2>1, <3>1 DEF Answered
    <2>2. CASE Refuses(f) \/ Acknowledges(f)
      <3>1. PICK o \in Outcome : Closed(f, o)
        BY <2>2 DEF Refuses, Acknowledges
      <3> DEFINE one == [act |-> e.act, outcome |-> o]
                 old == flush[f].results
      <3>2. flush'[f].results = Append(old, one) /\ one.act = e.act
            /\ flush'[f].todo = flush[f].todo \ {p} /\ flush'[f].pc = "lookup"
        BY <3>1 DEF Closed
      <3>3. old \in Seq(Result)
        BY <1>1 DEF TypeOK, Flush
      <3> HIDE DEF one, old, e
      <3>4. /\ DOMAIN Append(old, one) = DOMAIN old \cup {Len(old) + 1}
            /\ Append(old, one)[Len(old) + 1] = one
            /\ \A n \in DOMAIN old : Append(old, one)[n] = old[n]
        BY <3>3
      <3>5. Answered(f)' = {Append(old, one)[n].act : n \in DOMAIN old \cup {Len(old) + 1}}
        BY <3>2, <3>4 DEF Answered
      <3>6. Answered(f) = {old[n].act : n \in DOMAIN old}
        BY DEF Answered, old
      <3>7. Answered(f)' = Answered(f) \cup {e.act}
        BY <3>2, <3>4, <3>5, <3>6
      <3> QED BY <2>2, <3>2, <3>7
    <2> QED BY <1>4, <2>1, <2>2
  <1>11. NoneExpired' /\ Receipted \subseteq Receipted' /\ Receipted' \subseteq Receipted \cup {e.act.key}
    <2>1. CASE receipts' = receipts
      BY <1>1, <2>1 DEF NoneExpired, Receipted, HasReceipt
    <2>2. CASE Acknowledges(f)
      BY <2>2 DEF Acknowledges
    <2> QED BY <1>4, <2>1, <2>2 DEF Waits, WritesOnce, Refuses
  <1>12. DoneWith \subseteq DoneWith'
    BY <1>11 DEF DoneWith
  \* An action that is answered is done with.
  <1>13. ASSUME Refuses(f) \/ Acknowledges(f) PROVE e \in DoneWith'
    BY <1>3, <1>13 DEF Refuses, Acknowledges, DoneWith
  \* An action, and its key, has one place in the queue.
  <1>14. ASSUME NEW i \in DOMAIN taken[d], taken[d][i].act = e.act \/ taken[d][i].act.key = e.act.key PROVE i = p
    <2>1. taken[d][i] \in Entry
      BY <1>8
    <2>2. taken[d][i].act = e.act
      BY <1>3, <1>14, <2>1 DEF OneAtATime, Entry
    <2> QED BY <1>1, <1>3, <2>2 DEF TakenOnce
  <1> HIDE DEF e, p
  <1>15. SettledDone'
    BY <1>1, <1>2, <1>12 DEF SettledDone
  <1>16. AnsweredDone'
    <2> SUFFICES ASSUME NEW i \in DOMAIN taken[d], taken[d][i].act \in Answered(f)' PROVE taken[d][i] \in DoneWith'
      BY <1>2, <1>6, <1>9 DEF AnsweredDone
    <2>1. CASE taken[d][i].act \in Answered(f)
      BY <1>1, <1>3, <1>12, <2>1 DEF AnsweredDone
    <2>2. CASE taken[d][i].act \notin Answered(f)
      <3>1. taken[d][i].act = e.act /\ (Refuses(f) \/ Acknowledges(f))
        BY <1>10, <2>2
      <3> QED BY <1>3, <1>13, <1>14, <3>1
    <2> QED BY <2>1, <2>2
  <1>17. InOrder'
    <2> SUFFICES ASSUME NEW i \in DOMAIN taken[d], i \notin flush'[f].todo, NEW t \in flush'[f].todo, i < t
                 PROVE  taken[d][i].act \in settled[d] \cup Answered(f)'
      BY <1>2, <1>6, <1>9 DEF InOrder
    <2>1. CASE i \in flush[f].todo
      BY <1>3, <1>10, <2>1
    <2>2. CASE i \notin flush[f].todo
      <3>1. t \in flush[f].todo
        BY <1>10
      <3>2. taken[d][i].act \in settled[d] \cup Answered(f)
        BY <1>1, <1>3, <2>2, <3>1 DEF InOrder
      <3> QED BY <1>10, <3>2
    <2> QED BY <2>1, <2>2
  <1>18. Dispatching'
    <2> SUFFICES ASSUME flush'[f].todo # {}, flush'[f].pc = "dispatch" PROVE Current(f)'.act.key \notin Receipted'
      BY <1>7 DEF Dispatching
    <2>1. Waits(f) /\ Went(f, "dispatch") /\ e.act.key \notin Receipted
      BY <1>10 DEF Waits, WritesOnce, Went, e
    <2>2. Current(f)' = e /\ Receipted' = Receipted
      BY <1>2, <2>1 DEF Current, Went, Waits, Receipted, HasReceipt, e
    <2> QED BY <2>1, <2>2
  <1>19. PICK h \in 0..Len(taken[d]) : Reach(d, h)
    BY <1>1, <1>3 DEF Reached
  <1>20. h \in Nat /\ p \in Nat /\ p \in 1..Len(taken[d]) /\ p <= h + 1
    <2>1. h \in 0..Len(taken[flush[f].device]) /\ Reach(flush[f].device, h)
      BY <1>3, <1>19
    <2>2. p <= h + 1
      BY <1>1, <1>2, <2>1, NextPlace DEF p
    <2> QED BY <1>3, <1>8, <1>19, <2>2
  <1>21. /\ \A i \in DOMAIN taken[d] : i < h => taken[d][i] \in DoneWith
         /\ \A i \in DOMAIN taken[d] : i > h => taken[d][i].act \notin settled[d] /\ taken[d][i].act.key \notin Receipted
         /\ \A j \in Job \ Gone : j \in saved <=> Wish(d, h, j)
         /\ \A i \in DOMAIN taken[d] : taken[d][i].act \in Answered(f) => i <= h
         /\ flush[f].pc \in {"finish", "store"} => p <= h
    BY <1>2, <1>3, <1>19 DEF Reach, p
  <1>22. ASSUME NEW n \in Nat, NEW j PROVE Wish(d, n, j)' <=> Wish(d, n, j)
    BY <1>2, <1>3, WishSame
  \* A device has reached m when the rows say so, and what was answered is behind it.
  <1>23. ASSUME NEW m \in 0..Len(taken[d]),
                \A i \in DOMAIN taken[d] : i < m => taken[d][i] \in DoneWith',
                \A i \in DOMAIN taken[d] : i > m => taken[d][i].act \notin settled[d] /\ taken[d][i].act.key \notin Receipted',
                \A j \in Job \ Gone : j \in saved' <=> Wish(d, m, j),
                \A i \in DOMAIN taken[d] : taken[d][i].act \in Answered(f)' => i <= m,
                flush'[f].todo # {} /\ flush'[f].pc \in {"finish", "store"} => First(flush'[f].todo) <= m
         PROVE  Reached'
    <2>1. m \in Nat
      BY <1>8
    <2>2. ASSUME NEW c \in Device PROVE Reach(c, m)'
      <3>1. c = d
        BY <1>5
      <3>2. \A j \in Job \ Gone : j \in saved' <=> Wish(d, m, j)'
        BY <1>22, <1>23, <2>1
      <3>3. ASSUME NEW g \in Slot
            PROVE  /\ \A i \in DOMAIN taken[d] : taken[d][i].act \in Answered(g)' => i <= m
                   /\ flush'[g].todo # {} /\ flush'[g].pc \in {"finish", "store"} => First(flush'[g].todo) <= m
        BY <1>7, <1>23
      <3>4. Reach(d, m)'
        BY <1>2, <1>23, <3>2, <3>3 DEF Reach
      <3> QED BY <3>1, <3>4
    <2>3. \A c \in Device : m \in 0..Len(taken'[c]) /\ Reach(c, m)'
      BY <1>2, <1>5, <2>2
    <2> QED BY <2>3 DEF Reached
  <1>24. ASSUME Waits(f) PROVE Reached'
    <2>1. saved' = saved /\ Receipted' = Receipted
      BY <1>24 DEF Waits, Receipted, HasReceipt
    <2>2. flush'[f].todo = flush[f].todo /\ Answered(f)' = Answered(f)
      BY <1>24 DEF Waits, Went, Answered
    <2>3. flush'[f].pc \in {"finish", "store"} => p <= h
      BY <1>21, <1>24 DEF Waits, Went
    <2> QED BY <1>12, <1>19, <1>21, <1>23, <2>1, <2>2, <2>3 DEF p
  <1>25. ASSUME Acknowledges(f) PROVE Reached'
    <2>1. saved' = saved /\ Receipted' = Receipted \cup {e.act.key} /\ (e.act.key \in Receipted \/ flush[f].pc = "store")
      BY <1>25 DEF Acknowledges, e
    <2>2. p <= h
      BY <1>3, <1>20, <1>21, <2>1
    <2>3. \A i \in DOMAIN taken[d] : i > h => i # p
      BY <1>8, <1>20, <2>2
    <2>4. Answered(f)' \subseteq Answered(f) \cup {e.act} /\ flush'[f].pc = "lookup"
      <3>1. flush'[f].pc = "lookup"
        BY <1>25 DEF Acknowledges, Closed
      <3> QED BY <1>10, <3>1
    <2>5. \A i \in DOMAIN taken[d] : taken[d][i].act \in Answered(f)' => i <= h
      BY <1>14, <1>20, <1>21, <2>2, <2>4
    <2>6. \A i \in DOMAIN taken[d] : i > h => taken[d][i].act.key \notin Receipted'
      BY <1>14, <1>21, <2>1, <2>3
    <2> QED BY <1>12, <1>19, <1>21, <1>23, <2>1, <2>4, <2>5, <2>6
  <1>26. ASSUME WritesOnce(f) \/ Refuses(f) PROVE Reached'
    <2> DEFINE m == IF p <= h THEN h ELSE p
    <2>1. m \in 0..Len(taken[d]) /\ p <= m /\ h <= m
      BY <1>8, <1>19, <1>20
    <2>2. Receipted' = Receipted /\ Moved(f) /\ (Bookmark(e) => flush[f].pc = "dispatch")
      BY <1>26 DEF WritesOnce, Refuses, Receipted, HasReceipt, e
    <2>3. Bookmark(e) => e.act.key \notin Receipted
      BY <1>1, <1>2, <2>2 DEF Dispatching, e
    <2>4. Bookmark(e) => ~(p < h)
      BY <1>3, <1>21, <2>3 DEF DoneWith
    <2>5. ASSUME NEW i \in DOMAIN taken[d], i < m PROVE taken[d][i] \in DoneWith'
      <3>1. CASE i < h
        BY <1>12, <1>21, <3>1
      <3>2. CASE ~(i < h)
        <4>1. i < p
          BY <1>8, <1>20, <2>5, <3>2
        <4>2. i \notin flush[f].todo
          BY <1>3, <1>8, <1>20, <4>1
        <4>3. taken[d][i].act \in settled[d] \cup Answered(f)
          BY <1>1, <1>3, <4>1, <4>2 DEF InOrder
        <4>4. taken[d][i] \in DoneWith
          BY <1>1, <1>3, <4>3 DEF SettledDone, AnsweredDone
        <4> QED BY <1>12, <4>4
      <3> QED BY <3>1, <3>2
    <2>6. \A i \in DOMAIN taken[d] : i > m => taken[d][i].act \notin settled[d] /\ taken[d][i].act.key \notin Receipted'
      BY <1>8, <1>20, <1>21, <2>1, <2>2
    <2>7. ASSUME NEW j \in Job \ Gone PROVE j \in saved' <=> Wish(d, m, j)
      <3> DEFINE Saves   == e.act.type = "SAVE_JOB" /\ e.act.of = j
                 Unsaves == e.act.type = "UNSAVE_JOB" /\ e.act.of = j
      <3>1. j \in saved' <=> Saves \/ (Wish(d, h, j) /\ ~Unsaves)
        BY <1>21, <2>2 DEF Moved, e
      <3>2. Saves \/ Unsaves => Bookmark(e)
        BY DEF Bookmark
      <3>3. ~(Saves /\ Unsaves)
        OBVIOUS
      <3>4. \A n \in Nat : n + 1 = p => (Wish(d, p, j) <=> Saves \/ (Wish(d, n, j) /\ ~Unsaves))
        <4> SUFFICES ASSUME NEW n \in Nat, n + 1 = p PROVE Wish(d, p, j) <=> Saves \/ (Wish(d, n, j) /\ ~Unsaves)
          OBVIOUS
        <4>1. taken[d][n + 1].act = e.act
          BY <1>3
        <4>2. Wish(d, n + 1, j) <=> Saves \/ (Wish(d, n, j) /\ ~Unsaves)
          BY <1>3, <4>1, WishNext
        <4> QED BY <4>2
      <3> HIDE DEF Saves, Unsaves
      <3>5. CASE p = h + 1
        BY <1>20, <3>1, <3>4, <3>5
      <3>6. CASE p = h
        <4>1. h - 1 \in Nat /\ (h - 1) + 1 = p /\ m = h
          BY <1>20, <3>6
        <4>2. Wish(d, h, j) <=> Saves \/ (Wish(d, h - 1, j) /\ ~Unsaves)
          BY <3>4, <3>6, <4>1
        <4> QED BY <3>1, <3>3, <4>1, <4>2
      <3>7. CASE p < h
        <4>1. m = h /\ ~Saves /\ ~Unsaves
          BY <1>20, <2>4, <3>2, <3>7
        <4> QED BY <3>1, <4>1
      <3> QED BY <1>20, <3>5, <3>6, <3>7
    <2>8. \A i \in DOMAIN taken[d] : taken[d][i].act \in Answered(f)' => i <= m
      <3>1. Answered(f)' \subseteq Answered(f) \cup {e.act}
        BY <1>10
      <3>2. ASSUME NEW i \in DOMAIN taken[d], taken[d][i].act \in Answered(f) PROVE i <= m
        BY <1>8, <1>20, <1>21, <2>1, <3>2
      <3> QED BY <1>14, <2>1, <3>1, <3>2
    <2>9. flush'[f].todo # {} /\ flush'[f].pc \in {"finish", "store"} => First(flush'[f].todo) <= m
      BY <1>10, <2>1 DEF p
    <2> HIDE DEF m
    <2> QED BY <1>23, <2>1, <2>5, <2>6, <2>7, <2>8, <2>9
  <1>27. Reached'
    BY <1>4, <1>24, <1>25, <1>26
  <1> QED BY <1>11, <1>15, <1>16, <1>17, <1>18, <1>27 DEF OrderParts

LEMMA OrderStep == OneAtATime /\ OrderInv /\ [Next]_vars => OrderInv'
  <1> SUFFICES ASSUME OneAtATime, OrderInv, [Next]_vars PROVE OrderParts'
    BY OnceStep DEF OrderInv, OneAtATime
  <1>1. /\ TypeOK /\ TypeInv /\ HonestInv /\ FlushOK /\ Keyed /\ SuccessIsTrue /\ DidTaken /\ ResultsLand /\ SettledTaken
        /\ NoneExpired /\ SettledDone /\ AnsweredDone /\ InOrder /\ Dispatching /\ Reached
    BY DEF OrderInv, OrderParts, OnceInv, OnceParts, LandInv, QueueInv, HonestInv, TypeInv
  <1>2. \A d \in Device : taken[d] \in Seq(Entry) /\ DOMAIN taken[d] = 1..Len(taken[d]) /\ Len(taken[d]) \in Nat
    BY <1>1 DEF TypeOK
  <1>3. ASSUME receipts' = receipts PROVE NoneExpired' /\ Receipted' = Receipted /\ DoneWith' = DoneWith
    BY <1>1, <1>3 DEF NoneExpired, Receipted, HasReceipt, DoneWith
  <1>4. ASSUME NEW d \in Device, NEW a \in Actions, TakeAction(d, a) PROVE OrderParts'
    <2>1. /\ taken' \in [Device -> Seq(Entry)]
          /\ \A e \in Device : \A i \in DOMAIN taken[e] : i \in DOMAIN taken'[e] /\ taken'[e][i] = taken[e][i]
          /\ \A e \in Device : \A i \in DOMAIN taken'[e] \ DOMAIN taken[e] : taken'[e][i].act = a
          /\ \A e \in Device : a \notin TakenBy(e)
          /\ UNCHANGED <<settled, saved, did, receipts, flush>>
      BY <1>1, <1>4, Taking
    <2>2. NoneExpired' /\ Receipted' = Receipted /\ DoneWith' = DoneWith
      BY <1>3, <2>1
    <2>3. \A f \in Slot : Answered(f)' = Answered(f)
      BY <2>1 DEF Answered
    \* Nothing is known of the new action.
    <2>4. \A e \in Device : a \notin settled[e]
      BY <1>1, <2>1 DEF SettledTaken
    <2>5. ASSUME NEW f \in Slot, flush[f] # NoFlush PROVE a \notin Answered(f)
      <3>1. flush[f].device \in Device
        BY <1>1, <2>5 DEF FlushOK
      <3>2. ASSUME NEW n \in DOMAIN flush[f].results PROVE flush[f].results[n].act \in TakenBy(flush[f].device)
        BY <1>1 DEF ResultsLand, TakenBy
      <3> QED BY <2>1, <3>1, <3>2 DEF Answered
    <2>6. a.key \notin Receipted
      <3> SUFFICES ASSUME a.key \in Receipted PROVE FALSE
        OBVIOUS
      <3>1. a.key \in Key /\ receipts[a.key] # NoReceipt
        BY DEF Receipted, HasReceipt, NoReceipt
      <3>2. receipts[a.key].entry.act \in did /\ receipts[a.key].entry.act.key = a.key
        BY <1>1, <3>1 DEF SuccessIsTrue, Keyed
      <3>3. receipts[a.key].entry.act = a
        BY <1>1, <3>2 DEF OneAtATime, TypeOK
      <3> QED BY <1>1, <2>1, <3>2, <3>3 DEF DidTaken
    <2>7. SettledDone'
      BY <1>1, <2>1, <2>2, <2>4 DEF SettledDone
    <2>8. AnsweredDone'
      <3> SUFFICES ASSUME NEW f \in Slot, flush[f] # NoFlush,
                          NEW i \in DOMAIN taken'[flush[f].device], taken'[flush[f].device][i].act \in Answered(f)
                   PROVE  taken'[flush[f].device][i] \in DoneWith
        BY <2>1, <2>2, <2>3 DEF AnsweredDone
      <3>1. flush[f].device \in Device
        BY <1>1 DEF FlushOK
      <3>2. i \in DOMAIN taken[flush[f].device]
        BY <2>1, <2>5, <3>1
      <3> QED BY <1>1, <2>1, <3>1, <3>2 DEF AnsweredDone
    <2>9. InOrder'
      <3> SUFFICES ASSUME NEW f \in Slot, flush[f] # NoFlush, NEW i \in DOMAIN taken'[flush[f].device],
                          i \notin flush[f].todo, NEW t \in flush[f].todo, i < t
                   PROVE  taken'[flush[f].device][i].act \in settled[flush[f].device] \cup Answered(f)
        BY <2>1, <2>3 DEF InOrder
      <3> DEFINE c == flush[f].device
      <3>1. c \in Device /\ t \in DOMAIN taken[c]
        BY <1>1 DEF FlushOK
      <3>2. taken'[c] \in Seq(Entry)
        BY <2>1, <3>1
      <3>3. i \in Nat /\ 1 <= i /\ t \in 1..Len(taken[c])
        BY <1>2, <3>1, <3>2
      <3>4. i \in DOMAIN taken[c]
        BY <1>2, <3>1, <3>3
      <3> QED BY <1>1, <2>1, <3>1, <3>4 DEF InOrder
    <2>10. Dispatching'
      <3>1. \A f \in Slot : flush[f].todo # {} => Current(f)' = Current(f)
        BY <1>1, <2>1, AtHand DEF Current
      <3> QED BY <1>1, <2>1, <2>2, <3>1 DEF Dispatching
    <2>11. ASSUME NEW e \in Device PROVE \E h \in 0..Len(taken'[e]) : Reach(e, h)'
      <3>1. PICK h \in 0..Len(taken[e]) : Reach(e, h)
        BY <1>1 DEF Reached
      <3>2. /\ taken'[e] \in Seq(Entry) /\ h \in Nat /\ h <= Len(taken[e])
        BY <1>2, <2>1, <3>1
      <3>3. h \in 0..Len(taken'[e]) /\ \A i \in DOMAIN taken'[e] \ DOMAIN taken[e] : i > h
        <4>1. DOMAIN taken'[e] = 1..Len(taken'[e]) /\ Len(taken'[e]) \in Nat
          BY <3>2
        <4>2. Len(taken[e]) <= Len(taken'[e])
          <5>1. CASE Len(taken[e]) = 0
            BY <4>1, <5>1
          <5>2. CASE Len(taken[e]) # 0
            <6>1. Len(taken[e]) \in DOMAIN taken[e]
              BY <1>2, <5>2
            <6>2. Len(taken[e]) \in DOMAIN taken'[e]
              BY <2>1, <6>1
            <6> QED BY <1>2, <4>1, <6>2
          <5> QED BY <5>1, <5>2
        <4> QED BY <1>2, <3>2, <4>1, <4>2
      <3>4. \A i \in 1..h : taken'[e][i] = taken[e][i]
        BY <1>2, <2>1, <3>2
      <3>5. \A j : Wish(e, h, j)' <=> Wish(e, h, j)
        BY <3>2, <3>4, WishSame
      <3>6. /\ \A i \in DOMAIN taken'[e] : i < h => taken'[e][i] \in DoneWith'
            /\ \A i \in DOMAIN taken'[e] : i > h => taken'[e][i].act \notin settled'[e] /\ taken'[e][i].act.key \notin Receipted'
        <4>1. ASSUME NEW i \in DOMAIN taken'[e], i < h PROVE i \in DOMAIN taken[e]
          BY <1>2, <3>2, <3>3, <4>1
        <4> QED BY <2>1, <2>2, <2>4, <2>6, <3>1, <4>1 DEF Reach
      <3>7. ASSUME NEW f \in Slot, flush'[f].device = e
            PROVE  /\ \A i \in DOMAIN taken'[e] : taken'[e][i].act \in Answered(f)' => i <= h
                   /\ flush'[f].todo # {} /\ flush'[f].pc \in {"finish", "store"} => First(flush'[f].todo) <= h
        <4>1. CASE flush[f] = NoFlush
          BY <2>1, <2>3, <4>1 DEF NoFlush, Answered
        <4>2. CASE flush[f] # NoFlush
          BY <2>1, <2>3, <2>5, <3>1, <3>7, <4>2 DEF Reach
        <4> QED BY <4>1, <4>2
      <3>8. \A j \in Job \ Gone : j \in saved' <=> Wish(e, h, j)'
        BY <2>1, <3>1, <3>5 DEF Reach
      <3>9. Reach(e, h)'
        BY <3>6, <3>7, <3>8 DEF Reach
      <3> QED BY <3>3, <3>9
    <2>12. Reached'
      BY <2>11 DEF Reached
    <2> QED BY <2>2, <2>7, <2>8, <2>9, <2>10, <2>12 DEF OrderParts
  <1>5. ASSUME NEW f \in Slot, NEW d \in Device, BeginFlush(f, d) PROVE OrderParts'
    <2>1. /\ flush[f] = NoFlush /\ flush'[f].device = d /\ flush'[f].pc = "lookup" /\ flush'[f].results = <<>>
          /\ \A g \in Slot \ {f} : flush'[g] = flush[g]
          /\ UNCHANGED <<taken, settled, saved, receipts>>
      BY <1>1, <1>5, Beginning
    <2>2. flush'[f].todo = Batch(d)
      BY <1>1, <1>5 DEF BeginFlush, TypeOK
    <2>3. NoneExpired' /\ Receipted' = Receipted /\ DoneWith' = DoneWith
      BY <1>3, <2>1
    <2>4. Answered(f)' = {} /\ \A g \in Slot \ {f} : Answered(g)' = Answered(g)
      BY <2>1 DEF Answered
    <2>5. SettledDone' /\ AnsweredDone'
      BY <1>1, <2>1, <2>3, <2>4 DEF SettledDone, AnsweredDone
    \* A batch leaves out no pending action before its last.
    <2>6. ASSUME NEW i \in DOMAIN taken[d], i \notin Batch(d), NEW t \in Batch(d), i < t
          PROVE  taken[d][i].act \in settled[d]
      <3> SUFFICES ASSUME i \in Pending(d) PROVE FALSE
        BY DEF Pending
      <3> DEFINE Before(k) == {j \in Pending(d) : j < k}
      <3>1. t \in Pending(d) /\ Cardinality(Before(t)) < MaxBatch
        BY DEF Batch
      <3>2. Pending(d) \subseteq 1..Len(taken[d]) /\ Len(taken[d]) \in Nat
        BY <1>2 DEF Pending
      <3>3. IsFiniteSet(Pending(d))
        <4>1. IsFiniteSet(1..Len(taken[d]))
          BY <3>2, FS_Interval
        <4> QED BY <3>2, <4>1, FS_Subset
      <3>4. Before(i) \subseteq Before(t)
        BY <2>6, <3>1, <3>2
      <3>5. Before(t) \subseteq Pending(d)
        OBVIOUS
      <3> HIDE DEF Before
      <3>6. IsFiniteSet(Before(t)) /\ IsFiniteSet(Before(i)) /\ Cardinality(Before(i)) <= Cardinality(Before(t))
        BY <3>3, <3>4, <3>5, FS_Subset
      <3>7. Cardinality(Before(i)) \in Nat /\ Cardinality(Before(t)) \in Nat
        BY <3>6, FS_CardinalityType
      <3>8. Cardinality(Before(i)) < MaxBatch
        BY <3>1, <3>6, <3>7, BoundsAssumption
      <3> QED BY <2>6, <3>8 DEF Batch, Before
    <2>7. InOrder'
      <3> SUFFICES ASSUME NEW g \in Slot, flush'[g] # NoFlush, NEW i \in DOMAIN taken[flush'[g].device],
                          i \notin flush'[g].todo, NEW t \in flush'[g].todo, i < t
                   PROVE  taken[flush'[g].device][i].act \in settled[flush'[g].device] \cup Answered(g)'
        BY <2>1 DEF InOrder
      <3>1. CASE g = f
        BY <2>1, <2>2, <2>6, <3>1
      <3>2. CASE g # f
        BY <1>1, <2>1, <2>4, <3>2 DEF InOrder
      <3> QED BY <3>1, <3>2
    <2>8. Dispatching'
      BY <1>1, <2>1, <2>3 DEF Dispatching, Current
    <2>9. ASSUME NEW e \in Device, NEW h \in 0..Len(taken[e]), Reach(e, h) PROVE Reach(e, h)'
      <3>1. \A j : Wish(e, h, j)' <=> Wish(e, h, j)
        BY <2>1 DEF Wish
      <3>2. /\ \A i \in DOMAIN taken'[e] : i < h => taken'[e][i] \in DoneWith'
            /\ \A i \in DOMAIN taken'[e] : i > h => taken'[e][i].act \notin settled'[e] /\ taken'[e][i].act.key \notin Receipted'
            /\ \A j \in Job \ Gone : j \in saved' <=> Wish(e, h, j)'
        BY <2>1, <2>3, <2>9, <3>1 DEF Reach
      <3>3. ASSUME NEW g \in Slot, flush'[g].device = e
            PROVE  /\ \A i \in DOMAIN taken'[e] : taken'[e][i].act \in Answered(g)' => i <= h
                   /\ flush'[g].todo # {} /\ flush'[g].pc \in {"finish", "store"} => First(flush'[g].todo) <= h
        <4>1. CASE g = f
          BY <2>1, <2>4, <4>1
        <4>2. CASE g # f
          BY <2>1, <2>4, <2>9, <3>3, <4>2 DEF Reach
        <4> QED BY <4>1, <4>2
      <3> QED BY <3>2, <3>3 DEF Reach
    <2>10. Reached'
      BY <1>1, <2>1, <2>9 DEF Reached
    <2> QED BY <2>3, <2>5, <2>7, <2>8, <2>10 DEF OrderParts
  <1>6. ASSUME NEW f \in Slot, Respond(f) \/ Crash(f) \/ LoseResponse(f) PROVE OrderParts'
    <2>1. /\ flush'[f] = NoFlush /\ \A g \in Slot \ {f} : flush'[g] = flush[g]
          /\ UNCHANGED <<taken, saved, receipts>>
      BY <1>1, <1>6, Endings DEF Ending
    <2>2. NoneExpired' /\ Receipted' = Receipted /\ DoneWith' = DoneWith
      BY <1>3, <2>1
    <2>3. flush'[f].todo = {} /\ Answered(f)' = {} /\ \A g \in Slot \ {f} : Answered(g)' = Answered(g)
      BY <2>1 DEF Answered, NoFlush
    \* A device settles what was answered.
    <2>4. \A e \in Device : settled[e] \subseteq settled'[e] /\
            settled'[e] \subseteq settled[e] \cup IF flush[f] # NoFlush /\ flush[f].device = e THEN Answered(f) ELSE {}
      <3>1. settled \in [Device -> SUBSET Actions]
        BY <1>1 DEF TypeOK
      <3>2. CASE settled' = settled
        BY <3>2
      <3>3. CASE Respond(f)
        <4>1. settled' = [settled EXCEPT ![flush[f].device] = settled[flush[f].device] \cup Settles(flush[f].results)]
              /\ flush[f].pc = "lookup"
          BY <3>3 DEF Respond
        <4>2. Settles(flush[f].results) \subseteq Answered(f) /\ flush[f] # NoFlush
          BY <4>1 DEF Settles, Answered, NoFlush
        <4> QED BY <3>1, <4>1, <4>2
      <3> QED BY <1>6, <3>2, <3>3 DEF Crash, LoseResponse, client
    <2>5. SettledDone'
      <3> SUFFICES ASSUME NEW e \in Device, NEW i \in DOMAIN taken[e], taken[e][i].act \in settled'[e] PROVE taken[e][i] \in DoneWith
        BY <2>1, <2>2 DEF SettledDone
      <3>1. taken[e][i].act \in settled[e] \/ (flush[f] # NoFlush /\ flush[f].device = e /\ taken[e][i].act \in Answered(f))
        BY <2>4
      <3> QED BY <1>1, <3>1 DEF SettledDone, AnsweredDone
    <2>6. AnsweredDone'
      BY <1>1, <2>1, <2>2, <2>3 DEF AnsweredDone
    <2>7. InOrder'
      <3> SUFFICES ASSUME NEW g \in Slot \ {f}, flush[g] # NoFlush, NEW i \in DOMAIN taken[flush[g].device],
                          i \notin flush[g].todo, NEW t \in flush[g].todo, i < t
                   PROVE  taken[flush[g].device][i].act \in settled'[flush[g].device] \cup Answered(g)
        BY <2>1, <2>3 DEF InOrder
      <3>1. flush[g].device \in Device
        BY <1>1 DEF FlushOK
      <3> QED BY <1>1, <2>4, <3>1 DEF InOrder
    <2>8. Dispatching'
      BY <1>1, <2>1, <2>2, <2>3 DEF Dispatching, Current
    <2>9. ASSUME NEW e \in Device, NEW h \in 0..Len(taken[e]), Reach(e, h) PROVE Reach(e, h)'
      <3>1. \A j : Wish(e, h, j)' <=> Wish(e, h, j)
        BY <2>1 DEF Wish
      <3>2. ASSUME NEW i \in DOMAIN taken[e], i > h PROVE taken[e][i].act \notin settled'[e]
        <4>1. taken[e][i].act \notin settled[e]
          BY <2>9, <3>2 DEF Reach
        <4>2. flush[f].device = e => taken[e][i].act \notin Answered(f)
          <5>1. ~(i <= h)
            BY <1>2, <3>2
          <5> QED BY <2>9, <5>1 DEF Reach
        <4> QED BY <2>4, <4>1, <4>2
      <3>3. /\ \A i \in DOMAIN taken'[e] : i < h => taken'[e][i] \in DoneWith'
            /\ \A i \in DOMAIN taken'[e] : i > h => taken'[e][i].act \notin settled'[e] /\ taken'[e][i].act.key \notin Receipted'
            /\ \A j \in Job \ Gone : j \in saved' <=> Wish(e, h, j)'
        BY <2>1, <2>2, <2>9, <3>1, <3>2 DEF Reach
      <3>4. ASSUME NEW g \in Slot, flush'[g].device = e
            PROVE  /\ \A i \in DOMAIN taken'[e] : taken'[e][i].act \in Answered(g)' => i <= h
                   /\ flush'[g].todo # {} /\ flush'[g].pc \in {"finish", "store"} => First(flush'[g].todo) <= h
        <4>1. CASE g = f
          BY <2>3, <4>1
        <4>2. CASE g # f
          BY <2>1, <2>3, <2>9, <3>4, <4>2 DEF Reach
        <4> QED BY <4>1, <4>2
      <3> QED BY <3>3, <3>4 DEF Reach
    <2>10. Reached'
      BY <1>1, <2>1, <2>9 DEF Reached
    <2> QED BY <2>2, <2>5, <2>6, <2>7, <2>8, <2>10 DEF OrderParts
  \* No receipt ages.
  <1>7. ~Aging
    <2>1. \A k \in Key : ~Expire(k)
      BY DEF OneAtATime, Expire, Fault
    <2>2. ~DeleteExpired
      BY <1>1 DEF NoneExpired, DeleteExpired
    <2> QED BY <2>1, <2>2 DEF Aging
  <1>8. CASE UNCHANGED vars
    <2>1. UNCHANGED <<taken, settled, saved, receipts, flush>>
      BY <1>8 DEF vars, client, server
    <2>2. NoneExpired' /\ Receipted' = Receipted /\ DoneWith' = DoneWith
      BY <1>3, <2>1
    <2>3. SettledDone' /\ AnsweredDone' /\ InOrder' /\ Dispatching'
      BY <1>1, <2>1, <2>2 DEF SettledDone, AnsweredDone, InOrder, Dispatching, Current, Answered
    <2>4. Reached'
      BY <1>1, <2>1, <2>2 DEF Reached, Reach, Wish, Answered
    <2> QED BY <2>2, <2>3, <2>4 DEF OrderParts
  <1> QED BY <1>4, <1>5, <1>6, <1>7, <1>8, OrderWork, NextParts

\* The bookmarks are at all times what one device's actions up to some point produce, a point past
\* everything it has settled, for any actions, however often the server dies and responses are lost
\* (SavedFollowsTheQueue).
THEOREM BookmarksKeepOrder == OneAtATime => (Spec => []SavedFollowsTheQueue)
  <1> SUFFICES ASSUME OneAtATime PROVE Spec => []SavedFollowsTheQueue
    OBVIOUS
  <1>1. OrderInv /\ [Next]_vars => OrderInv'
    BY OrderStep
  <1>2. ASSUME OrderInv PROVE SavedFollowsTheQueue
    <2>1. TypeOK /\ Reached
      BY <1>2 DEF OrderInv, OrderParts, OnceInv, LandInv, HonestInv, TypeInv
    <2>2. ASSUME NEW d \in Device
          PROVE  \E n \in 0..Len(taken[d]) :
                   /\ \A i \in (n + 1)..Len(taken[d]) : taken[d][i].act \notin settled[d]
                   /\ \A j \in Job \ Gone : j \in saved <=> Wish(d, n, j)
      <3>1. PICK n \in 0..Len(taken[d]) : Reach(d, n)
        BY <2>1 DEF Reached
      <3>2. taken[d] \in Seq(Entry)
        BY <2>1 DEF TypeOK
      <3>3. \A i \in (n + 1)..Len(taken[d]) : i \in DOMAIN taken[d] /\ i > n
        BY <3>1, <3>2
      <3> QED BY <3>1, <3>3 DEF Reach
    <2> QED BY <2>2 DEF SavedFollowsTheQueue
  <1> QED BY <1>1, <1>2, OrderStart, PTL DEF Spec
=============================================================================
