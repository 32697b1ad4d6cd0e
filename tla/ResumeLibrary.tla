----------------------------- MODULE ResumeLibrary -----------------------------
(***************************************************************************)
(* One candidate's resumes: uploads, the flag of the default, scoring,     *)
(* deletion and the builder's exports, each a request that awaits between  *)
(* its statements, and the BullMQ worker that parses what was uploaded.    *)
(* Users share no row, so one user's library is all of it.                 *)
(*                                                                         *)
(* ResumeRepository.save writes the whole row from an entity loaded some   *)
(* awaits before, except deletedAt: that is where the requests meet.       *)
(*                                                                         *)
(* An operator named after another with a suffix, as Save_Undeletes, is a  *)
(* mutated form of it that no action uses.                                 *)
(***************************************************************************)
EXTENDS Naturals, FiniteSets

CONSTANTS
  Resume,      \* ids an upload or an export mints
  NoResume,    \* a document that was never exported
  Request,     \* HTTP requests in progress at a time
  Worker,      \* jobs being processed at a time
  MaxAttempts, \* tries of a job (3 in the code)
  MaxCalls,    \* bound on the requests that arrive
  MaxFaults    \* bound on timeouts, deaths and failures

ASSUME LibraryAssumption ==
  MaxAttempts \in Nat \ {0} /\ {MaxCalls, MaxFaults} \subseteq Nat /\ NoResume \notin Resume

VARIABLES
  row,      \* rows of Resume
  parsed,   \* resumes with a row of ParsedResumeData
  file,     \* resumes whose file is in storage
  exported, \* the resume the user's builder document points at
  queue,    \* tries left of the job waiting for a resume; 0 without one
  late,     \* jobs whose add timed out and is still buffered in the client
  worker,   \* jobs being processed
  req,      \* requests in progress
  calls,    \* requests that arrived so far
  faults,   \* timeouts, deaths and failures so far
  stranded, \* history: resumes whose job was never added or was given up
  reverted, \* history: resumes a save gave another parsing status than it found
  overlapped \* history: two requests were in progress at the same time

tables  == <<row, parsed, file, exported>>
jobs    == <<queue, late, worker>>
bounds  == <<calls, faults>>
history == <<stranded, reverted, overlapped>>
books   == <<bounds, history>>
vars    == <<tables, jobs, req, books>>

Status == {"PENDING", "PROCESSING", "SUCCESS", "FAILED"}
Entity == [default : BOOLEAN, status : Status]
NoRow   == [state |-> "none"]
Deleted == [state |-> "deleted"]  \* its other columns are read by nothing
LiveRows == [state : {"live"}, default : BOOLEAN, status : Status]
Written(e) == [state |-> "live", default |-> e.default, status |-> e.status]

\* The entity a request has loaded or built, and the other row it is to write.
Busy == [pc : {"findDefault", "insert", "enqueue", "giveUp", "findCurrent", "unset", "set",
               "deleteFile", "deleteRow", "score", "commit"},
         resume : Resume, entity : Entity, current : Resume \cup {NoResume}, was : Entity]
Idle == [pc |-> "idle"]

Job == [pc : {"processing", "download", "parse", "succeed", "publish", "fail"},
        resume : Resume, left : 0..MaxAttempts]
Rest == [pc |-> "rest"]

LiveRow(x)  == row[x].state = "live"
Default(x)  == LiveRow(x) /\ row[x].default
Loaded(x)   == [default |-> row[x].default, status |-> row[x].status]
Uploaded(d) == [default |-> d, status |-> "PENDING"]

At(r, pc)   == req[r].pc = pc
GoTo(r, pc) == req' = [req EXCEPT ![r].pc = pc]
Answered(r) == req' = [req EXCEPT ![r] = Idle]

Fault == faults < MaxFaults /\ faults' = faults + 1 /\ UNCHANGED calls

\* A request arrives; the others wait at one of their awaits.
Begin(r, pc, x, e, y) ==
  /\ At(r, "idle") /\ calls < MaxCalls
  /\ calls' = calls + 1
  /\ req' = [req EXCEPT ![r] =
               [pc |-> pc, resume |-> x, entity |-> e, current |-> y, was |-> Uploaded(FALSE)]]
  /\ overlapped' = (overlapped \/ \E q \in Request : ~At(q, "idle"))
  /\ UNCHANGED <<faults, stranded, reverted>>

Minted(x) ==
  /\ row[x].state = "none" /\ x \notin file
  /\ \A q \in Request : ~At(q, "idle") => req[q].resume # x

Init ==
  /\ row = [x \in Resume |-> NoRow]
  /\ parsed = {} /\ file = {} /\ exported = NoResume
  /\ queue = [x \in Resume |-> 0] /\ late = {}
  /\ worker = [w \in Worker |-> Rest]
  /\ req = [r \in Request |-> Idle]
  /\ calls = 0 /\ faults = 0 /\ stranded = {} /\ reverted = {} /\ overlapped = FALSE

\* ResumeRepository.save
Reverts(x, e) == LiveRow(x) /\ row[x].status # e.status
Save_Undeletes(x, e) ==
  /\ row' = [row EXCEPT ![x] = Written(e)]
  /\ reverted' = IF Reverts(x, e) THEN reverted \cup {x} ELSE reverted
  /\ UNCHANGED <<bounds, stranded, overlapped>>
Save(x, e) ==
  /\ row' = IF LiveRow(x) THEN [row EXCEPT ![x] = Written(e)] ELSE row
  /\ reverted' = IF Reverts(x, e) THEN reverted \cup {x} ELSE reverted
  /\ UNCHANGED <<bounds, stranded, overlapped>>

\* A row that is marked deleted takes its history with it.
Forget(x) ==
  /\ stranded' = stranded \ {x} /\ reverted' = reverted \ {x}
  /\ UNCHANGED <<bounds, overlapped>>

-----------------------------------------------------------------------------
(* Upload *)

Upload(r, x) ==
  /\ Minted(x)
  /\ file' = file \cup {x}
  /\ Begin(r, "findDefault", x, Uploaded(FALSE), NoResume)
  /\ UNCHANGED <<row, parsed, exported, jobs>>

\* Only the first upload claims the flag.
FindDefault_Always(r) ==
  /\ At(r, "findDefault")
  /\ req' = [req EXCEPT ![r].pc = "insert", ![r].entity = Uploaded(TRUE)]
  /\ UNCHANGED <<tables, jobs, books>>
FindDefault(r) ==
  /\ At(r, "findDefault")
  /\ req' = [req EXCEPT ![r].pc = "insert",
                        ![r].entity = Uploaded(~\E y \in Resume : Default(y))]
  /\ UNCHANGED <<tables, jobs, books>>

Insert(r) ==
  /\ At(r, "insert")
  /\ row' = [row EXCEPT ![req[r].resume] = Written(req[r].entity)]
  /\ GoTo(r, "enqueue")
  /\ UNCHANGED <<parsed, file, exported, jobs, books>>

Enqueue(r) ==
  /\ At(r, "enqueue")
  /\ queue' = [queue EXCEPT ![req[r].resume] = MaxAttempts]
  /\ Answered(r)
  /\ UNCHANGED <<tables, late, worker, books>>

\* The add is not cancelled: it stays buffered.
EnqueueTimesOut_Silently(r) ==
  /\ Fault /\ At(r, "enqueue")
  /\ late' = late \cup {req[r].resume}
  /\ Answered(r)
  /\ UNCHANGED <<tables, queue, worker, history>>
EnqueueTimesOut(r) ==
  /\ Fault /\ At(r, "enqueue")
  /\ late' = late \cup {req[r].resume}
  /\ GoTo(r, "giveUp")
  /\ UNCHANGED <<tables, queue, worker, history>>

GiveUp(r) ==
  /\ At(r, "giveUp")
  /\ Save(req[r].resume, [req[r].entity EXCEPT !.status = "FAILED"])
  /\ Answered(r)
  /\ UNCHANGED <<parsed, file, exported, jobs>>

\* Redis is back and the buffered add lands; that it never does is one of the behaviours.
LateAdd(x) ==
  /\ x \in late
  /\ late' = late \ {x}
  /\ queue' = [queue EXCEPT ![x] = MaxAttempts]
  /\ UNCHANGED <<tables, worker, req, books>>

-----------------------------------------------------------------------------
(* PATCH /resumes/:id/set-default *)

SetDefault(r, x) ==
  /\ LiveRow(x)
  /\ Begin(r, "findCurrent", x, Loaded(x), NoResume)
  /\ UNCHANGED <<tables, jobs>>

FindCurrent(r) ==
  /\ At(r, "findCurrent")
  /\ \/ /\ \A y \in Resume : ~Default(y)
        /\ GoTo(r, "set")
     \/ /\ Default(req[r].resume)
        /\ Answered(r)
     \/ \E y \in Resume \ {req[r].resume} :
          /\ Default(y)
          /\ req' = [req EXCEPT ![r].pc = "unset", ![r].current = y, ![r].was = Loaded(y)]
  /\ UNCHANGED <<tables, jobs, books>>

Unset(r) ==
  /\ At(r, "unset")
  /\ Save(req[r].current, [req[r].was EXCEPT !.default = FALSE])
  /\ req' = [req EXCEPT ![r].pc = "set", ![r].current = NoResume, ![r].was = Uploaded(FALSE)]
  /\ UNCHANGED <<parsed, file, exported, jobs>>

Set(r) ==
  /\ At(r, "set")
  /\ Save(req[r].resume, [req[r].entity EXCEPT !.default = TRUE])
  /\ Answered(r)
  /\ UNCHANGED <<parsed, file, exported, jobs>>

-----------------------------------------------------------------------------
(* Deletion: the file goes first, the row is only marked. *)

Delete(r, x) ==
  /\ LiveRow(x)
  /\ Begin(r, "deleteFile", x, Uploaded(FALSE), NoResume)
  /\ UNCHANGED <<tables, jobs>>

DeleteFile(r) ==
  /\ At(r, "deleteFile")
  /\ file' = file \ {req[r].resume}
  /\ GoTo(r, "deleteRow")
  /\ UNCHANGED <<row, parsed, exported, jobs, books>>

DeleteRow(r) ==
  /\ At(r, "deleteRow")
  /\ row' = [row EXCEPT ![req[r].resume] = Deleted]
  /\ Answered(r)
  /\ Forget(req[r].resume)
  /\ UNCHANGED <<parsed, file, exported, jobs>>

-----------------------------------------------------------------------------
(* Scoring waits for the AI service, or falls back to the heuristic, with the *)
(* entity it loaded in hand.                                                  *)

Score(r, x) ==
  /\ LiveRow(x) /\ x \in parsed
  /\ Begin(r, "score", x, Loaded(x), NoResume)
  /\ UNCHANGED <<tables, jobs>>

SaveScores(r) ==
  /\ At(r, "score")
  /\ Save(req[r].resume, req[r].entity)
  /\ Answered(r)
  /\ UNCHANGED <<parsed, file, exported, jobs>>

-----------------------------------------------------------------------------
(* The builder's export supersedes the one before it, in one transaction. *)

Export(r, x) ==
  /\ Minted(x)
  /\ file' = file \cup {x}
  /\ Begin(r, "commit", x, Uploaded(FALSE), exported)
  /\ UNCHANGED <<row, parsed, exported, jobs>>

CommitExport(r) ==
  LET x == req[r].resume IN
  /\ At(r, "commit")
  /\ row' = [y \in Resume |->
               CASE y = x -> Written([default |-> FALSE, status |-> "SUCCESS"])
                 [] y = req[r].current -> Deleted
                 [] OTHER -> row[y]]
  /\ parsed' = parsed \cup {x}
  /\ exported' = x
  /\ Answered(r)
  /\ Forget(req[r].current)
  /\ UNCHANGED <<file, jobs>>

\* The process dies or a statement throws: what was committed stays.
Die(r) ==
  /\ Fault /\ ~At(r, "idle")
  /\ Answered(r)
  /\ stranded' = IF req[r].pc \in {"enqueue", "giveUp", "deleteRow"}
                   THEN stranded \cup {req[r].resume} ELSE stranded
  /\ UNCHANGED <<tables, jobs, reverted, overlapped>>

-----------------------------------------------------------------------------
(* The worker *)

Doing(w, pc) == worker[w].pc = pc
Proceed(w, pc) == worker' = [worker EXCEPT ![w].pc = pc]
Done(w)      == worker' = [worker EXCEPT ![w] = Rest]

SetStatus(w, status) ==
  LET x == worker[w].resume IN
  row' = IF LiveRow(x) THEN [row EXCEPT ![x].status = status] ELSE row

\* A resume deleted meanwhile is skipped, and is looked at here only.
Take(w) ==
  /\ Doing(w, "rest")
  /\ \E x \in Resume :
       /\ queue[x] > 0
       /\ queue' = [queue EXCEPT ![x] = 0]
       /\ worker' = IF ~LiveRow(x) THEN worker
                    ELSE [worker EXCEPT ![w] =
                            [pc |-> "processing", resume |-> x, left |-> queue[x] - 1]]
  /\ UNCHANGED <<tables, late, req, books>>

Processing(w) ==
  /\ Doing(w, "processing")
  /\ SetStatus(w, "PROCESSING")
  /\ Proceed(w, "download")
  /\ UNCHANGED <<parsed, file, exported, queue, late, req, books>>

Download(w) ==
  /\ Doing(w, "download")
  /\ Proceed(w, IF worker[w].resume \in file THEN "parse" ELSE "fail")
  /\ UNCHANGED <<tables, queue, late, req, books>>

\* The text is extracted, the AI service parses it, and its answer is stored.
Parse_Unsaved(w) ==
  /\ Doing(w, "parse")
  /\ Proceed(w, "succeed")
  /\ UNCHANGED <<tables, queue, late, req, books>>
Parse(w) ==
  /\ Doing(w, "parse")
  /\ parsed' = parsed \cup {worker[w].resume}
  /\ Proceed(w, "succeed")
  /\ UNCHANGED <<row, file, exported, queue, late, req, books>>

Succeed(w) ==
  /\ Doing(w, "succeed")
  /\ SetStatus(w, "SUCCESS")
  /\ Proceed(w, "publish")
  /\ UNCHANGED <<parsed, file, exported, queue, late, req, books>>

Publish(w) ==
  /\ Doing(w, "publish")
  /\ Done(w)
  /\ UNCHANGED <<tables, queue, late, req, books>>

\* Whatever throws inside parseResume; the event's listener catches its own failures.
ParseFails(w) ==
  /\ Fault /\ worker[w].pc \in {"processing", "download", "parse", "succeed"}
  /\ Proceed(w, "fail")
  /\ UNCHANGED <<tables, queue, late, req, history>>

Fail(w) ==
  /\ Doing(w, "fail")
  /\ SetStatus(w, "FAILED")
  /\ Done(w)
  /\ UNCHANGED <<parsed, file, exported, queue, late, req, books>>

\* The worker dies, or the update to FAILED throws: BullMQ tries again while it may, a job
\* that had saved its SUCCESS included.
Stall(w) ==
  LET j == worker[w] IN
  /\ Fault /\ ~Doing(w, "rest")
  /\ Done(w)
  /\ queue' = [queue EXCEPT ![j.resume] = j.left]
  /\ stranded' = IF j.left = 0 THEN stranded \cup {j.resume} ELSE stranded
  /\ UNCHANGED <<tables, late, req, reverted, overlapped>>

-----------------------------------------------------------------------------
Handle(r) ==
  \/ \E x \in Resume :
       Upload(r, x) \/ SetDefault(r, x) \/ Delete(r, x) \/ Score(r, x) \/ Export(r, x)
  \/ FindDefault(r) \/ Insert(r) \/ Enqueue(r) \/ EnqueueTimesOut(r) \/ GiveUp(r)
  \/ FindCurrent(r) \/ Unset(r) \/ Set(r)
  \/ DeleteFile(r) \/ DeleteRow(r) \/ SaveScores(r) \/ CommitExport(r) \/ Die(r)

Process(w) ==
  \/ Take(w) \/ Processing(w) \/ Download(w) \/ Parse(w) \/ Succeed(w)
  \/ Publish(w) \/ ParseFails(w) \/ Fail(w) \/ Stall(w)

Next ==
  \/ \E r \in Request : Handle(r)
  \/ \E w \in Worker : Process(w)
  \/ \E x \in Resume : LateAdd(x)

Spec == Init /\ [][Next]_vars

-----------------------------------------------------------------------------
(* Properties. *)

\* A resume that reads SUCCESS, which is what ActiveResumeService looks for, has its
\* parsed data, whatever retries, stale saves and deletions it has been through.
SuccessIsReadable ==
  \A x \in Resume : LiveRow(x) /\ row[x].status = "SUCCESS" => x \in parsed

\* "PENDING means a worker will pick this up": a live resume that waits for its
\* parse has a job, or an upload that will add one or say it could not, unless a death
\* or the last try took the job, or a save put an older status back.
PendingMeansScheduled ==
  \A x \in Resume :
    /\ LiveRow(x) /\ row[x].status \in {"PENDING", "PROCESSING"}
    /\ x \notin stranded \cup reverted
    => \/ queue[x] > 0
       \/ \E w \in Worker : ~Doing(w, "rest") /\ worker[w].resume = x
       \/ \E r \in Request : req[r].pc \in {"enqueue", "giveUp"} /\ req[r].resume = x

\* A listed resume can be downloaded: its file is in storage until a deletion has taken
\* it and is about to mark the row, or died in between.
ListedResumesHaveFiles ==
  \A x \in Resume :
    LiveRow(x) => \/ x \in file \cup stranded
                  \/ \E r \in Request : At(r, "deleteRow") /\ req[r].resume = x

\* Two defaults take two requests at a time: uploads, switches, exports and scorings
\* that follow each other, crashes and parses among them, never leave a second one.
SecondDefaultTakesAnOverlap ==
  overlapped \/ Cardinality({x \in Resume : Default(x)}) <= 1
=============================================================================
