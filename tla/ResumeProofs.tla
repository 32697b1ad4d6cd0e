------------------------------ MODULE ResumeProofs ------------------------------
(***************************************************************************)
(* What a resume library promises, for any resumes, requests and workers,  *)
(* number of tries, and any number of calls, timeouts and deaths: what     *)
(* reads as parsed was parsed, what waits has a job, what is listed has    *)
(* its file, and a second default takes two requests at a time.            *)
(***************************************************************************)
EXTENDS ResumeLibrary, FiniteSetTheorems, TLAPS

TypeOK ==
  /\ row \in [Resume -> {NoRow, Deleted} \cup LiveRows]
  /\ parsed \subseteq Resume /\ file \subseteq Resume
  /\ exported \in Resume \cup {NoResume}
  /\ queue \in [Resume -> 0..MaxAttempts] /\ late \subseteq Resume
  /\ worker \in [Worker -> Job \cup {Rest}]
  /\ req \in [Request -> Busy \cup {Idle}]
  /\ calls \in Nat /\ faults \in Nat
  /\ stranded \subseteq Resume /\ reverted \subseteq Resume
  /\ overlapped \in BOOLEAN

-----------------------------------------------------------------------------
(* What is parsed: an entity that reads SUCCESS was loaded from a row that did. *)

EntityRead(r) ==
  ~At(r, "idle") =>
    /\ req[r].entity.status = "SUCCESS" => req[r].resume \in parsed
    /\ At(r, "unset") => req[r].current \in Resume /\ (req[r].was.status = "SUCCESS" => req[r].current \in parsed)
EntitiesRead == \A r \in Request : EntityRead(r)
WorkersParsed == \A w \in Worker : worker[w].pc \in {"succeed", "publish"} => worker[w].resume \in parsed
ParsedInv == SuccessIsReadable /\ EntitiesRead /\ WorkersParsed

(* What waits: the last step of a job, which only publishes, is not counted on. *)

Working(w) == worker[w].pc \notin {"rest", "publish"}
Scheduled(x) ==
  \/ queue[x] > 0
  \/ \E w \in Worker : Working(w) /\ worker[w].resume = x
  \/ \E r \in Request : req[r].pc \in {"enqueue", "giveUp"} /\ req[r].resume = x
Waiting(x) == LiveRow(x) /\ row[x].status \in {"PENDING", "PROCESSING"} /\ x \notin stranded \cup reverted
WaitingInv == \A x \in Resume : Waiting(x) => Scheduled(x)

(* What is listed: an id is minted once, and its file is there until its row is. *)

Fresh(r) == req[r].pc \in {"findDefault", "insert", "commit"}
FileKept(r) ==
  /\ Fresh(r) => req[r].resume \in file /\ row[req[r].resume].state = "none"
  /\ ~At(r, "idle") /\ ~Fresh(r) => row[req[r].resume].state # "none"
  /\ At(r, "commit") /\ req[r].current # NoResume => row[req[r].current].state # "none"
FreshRows ==
  /\ \A r \in Request : FileKept(r)
  /\ \A r, q \in Request : Fresh(r) /\ Fresh(q) /\ req[r].resume = req[q].resume => r = q
  /\ exported # NoResume => row[exported].state # "none"
FilesInv == FreshRows /\ ListedResumesHaveFiles

(* The default, while requests follow each other. *)

OneDefault == \A x, y \in Resume : Default(x) /\ Default(y) => x = y
NoDefault == \A x \in Resume : ~Default(x)
DefaultRead(r) ==
  /\ At(r, "insert") /\ req[r].entity.default => NoDefault
  /\ req[r].pc \in {"enqueue", "giveUp", "score"} /\ LiveRow(req[r].resume) =>
       row[req[r].resume].default = req[r].entity.default
  /\ At(r, "unset") => Default(req[r].current)
  /\ At(r, "set") => NoDefault
DefaultsInv ==
  overlapped \/
    /\ \A r, q \in Request : ~At(r, "idle") /\ ~At(q, "idle") => r = q
    /\ OneDefault
    /\ \A r \in Request : DefaultRead(r)

LibraryInv == TypeOK /\ ParsedInv /\ WaitingInv /\ FilesInv /\ DefaultsInv

-----------------------------------------------------------------------------
(* Types. *)

LEMMA Sorts ==
  /\ NoRow.state = "none" /\ Deleted.state = "deleted" /\ Idle.pc = "idle" /\ Rest.pc = "rest"
  /\ \A e \in Entity : Written(e) \in LiveRows /\ Written(e).default = e.default /\ Written(e).status = e.status
  /\ \A d \in BOOLEAN : Uploaded(d) \in Entity
  /\ \A e \in Entity, s \in Status : [e EXCEPT !.status = s] \in Entity
  /\ \A e \in Entity, d \in BOOLEAN : [e EXCEPT !.default = d] \in Entity
  BY DEF NoRow, Deleted, Idle, Rest, Entity, Status, LiveRows, Written, Uploaded

LEMMA RowSorts ==
  ASSUME TypeOK, NEW x \in Resume
  PROVE  /\ LiveRow(x) <=> row[x] \in LiveRows
         /\ LiveRow(x) => Loaded(x) \in Entity
  BY DEF TypeOK, LiveRow, Loaded, LiveRows, NoRow, Deleted, Entity

LEMMA RequestSorts ==
  ASSUME TypeOK, NEW r \in Request
  PROVE  /\ ~At(r, "idle") <=> req[r] \in Busy
         /\ ~At(r, "idle") => req[r].resume \in Resume /\ req[r].entity \in Entity /\ req[r].was \in Entity
                              /\ req[r].current \in Resume \cup {NoResume}
  BY DEF TypeOK, At, Busy, Idle

LEMMA WorkerSorts ==
  ASSUME TypeOK, NEW w \in Worker
  PROVE  /\ worker[w].pc # "rest" <=> worker[w] \in Job
         /\ worker[w].pc # "rest" => worker[w].resume \in Resume /\ worker[w].left \in 0..MaxAttempts
  BY DEF TypeOK, Job, Rest

LEMMA BeginTypes ==
  ASSUME TypeOK, NEW r \in Request, NEW pc, NEW x \in Resume, NEW e \in Entity,
         NEW y \in Resume \cup {NoResume}, Begin(r, pc, x, e, y),
         pc \in {"findDefault", "findCurrent", "deleteFile", "score", "commit"}
  PROVE  /\ req' \in [Request -> Busy \cup {Idle}]
         /\ calls' \in Nat /\ faults' \in Nat /\ overlapped' \in BOOLEAN
         /\ stranded' = stranded /\ reverted' = reverted
         /\ req'[r].pc = pc /\ req'[r].resume = x /\ req'[r].entity = e /\ req'[r].current = y
         /\ \A q \in Request : q # r => req'[q] = req[q]
         /\ At(r, "idle")
  <1> DEFINE b == [pc |-> pc, resume |-> x, entity |-> e, current |-> y, was |-> Uploaded(FALSE)]
  <1>1. b \in Busy
    BY Sorts DEF Busy
  <1>2. req' = [req EXCEPT ![r] = b]
    BY DEF Begin
  <1>3. b.pc = pc /\ b.resume = x /\ b.entity = e /\ b.current = y
    OBVIOUS
  <1> HIDE DEF b
  <1>4. overlapped' \in BOOLEAN
    BY DEF Begin, TypeOK
  <1>5. calls' = calls + 1 /\ faults' = faults /\ stranded' = stranded /\ reverted' = reverted /\ At(r, "idle")
    BY DEF Begin
  <1>6. req' \in [Request -> Busy \cup {Idle}] /\ req'[r] = b /\ \A q \in Request : q # r => req'[q] = req[q]
    BY <1>1, <1>2 DEF TypeOK
  <1>7. calls' \in Nat /\ faults' \in Nat
    BY <1>5 DEF TypeOK
  <1> QED BY <1>3, <1>4, <1>5, <1>6, <1>7

LEMMA SaveTypes ==
  ASSUME TypeOK, NEW x \in Resume, NEW e \in Entity, Save(x, e)
  PROVE  /\ row' \in [Resume -> {NoRow, Deleted} \cup LiveRows]
         /\ reverted' \subseteq Resume
         /\ UNCHANGED <<calls, faults, stranded, overlapped>>
         /\ \A y \in Resume : row'[y] = IF y = x /\ LiveRow(x) THEN Written(e) ELSE row[y]
  BY Sorts DEF TypeOK, Save, bounds, Reverts

LEMMA StatusTypes ==
  ASSUME TypeOK, NEW w \in Worker, NEW s \in Status, SetStatus(w, s), worker[w].pc # "rest"
  PROVE  /\ row' \in [Resume -> {NoRow, Deleted} \cup LiveRows]
         /\ \A y \in Resume : /\ row'[y].state = row[y].state
                              /\ LiveRow(y) => row'[y].default = row[y].default
                              /\ LiveRow(y) => row'[y].status = IF y = worker[w].resume THEN s ELSE row[y].status
  <1> DEFINE x == worker[w].resume
  <1>1. x \in Resume
    BY WorkerSorts
  <1>2. CASE ~LiveRow(x)
    <2>1. row' = row
      BY <1>2 DEF SetStatus
    <2> QED BY <1>2, <2>1 DEF TypeOK
  <1>3. CASE LiveRow(x)
    <2>1. PICK old \in LiveRows : old = row[x]
      BY <1>1, <1>3, RowSorts
    <2>2. [old EXCEPT !.status = s] \in LiveRows
      BY DEF LiveRows
    <2>3. row' = [row EXCEPT ![x] = [old EXCEPT !.status = s]]
      BY <1>3, <2>1 DEF SetStatus
    <2> QED BY <1>1, <2>1, <2>2, <2>3 DEF TypeOK, LiveRows
  <1> QED BY <1>2, <1>3

\* The request moves on, or is answered, and the others stay where they are.
LEMMA MovesOn ==
  ASSUME TypeOK, NEW r \in Request, ~At(r, "idle"), NEW pc,
         pc \in {"findDefault", "insert", "enqueue", "giveUp", "findCurrent", "unset", "set",
                 "deleteFile", "deleteRow", "score", "commit"},
         NEW e \in Entity, NEW y \in Resume \cup {NoResume}, NEW z \in Entity,
         req' = [req EXCEPT ![r] = [@ EXCEPT !.pc = pc, !.entity = e, !.current = y, !.was = z]]
  PROVE  /\ req' \in [Request -> Busy \cup {Idle}]
         /\ req'[r].pc = pc /\ req'[r].resume = req[r].resume /\ req'[r].entity = e
         /\ req'[r].current = y /\ req'[r].was = z
         /\ \A q \in Request : q # r => req'[q] = req[q]
  <1> PICK b \in Busy : b = req[r]
    BY RequestSorts
  <1> DEFINE m == [b EXCEPT !.pc = pc, !.entity = e, !.current = y, !.was = z]
  <1>1. m \in Busy /\ m.pc = pc /\ m.resume = b.resume /\ m.entity = e /\ m.current = y /\ m.was = z
    BY DEF Busy
  <1>2. req' = [req EXCEPT ![r] = m]
    OBVIOUS
  <1> HIDE DEF m
  <1> QED BY <1>1, <1>2 DEF TypeOK

LEMMA GoesTo ==
  ASSUME TypeOK, NEW r \in Request, ~At(r, "idle"), NEW pc,
         pc \in {"findDefault", "insert", "enqueue", "giveUp", "findCurrent", "unset", "set",
                 "deleteFile", "deleteRow", "score", "commit"},
         GoTo(r, pc)
  PROVE  /\ req' \in [Request -> Busy \cup {Idle}]
         /\ req'[r].pc = pc /\ req'[r].resume = req[r].resume /\ req'[r].entity = req[r].entity
         /\ req'[r].current = req[r].current /\ req'[r].was = req[r].was
         /\ \A q \in Request : q # r => req'[q] = req[q]
  <1> PICK b \in Busy : b = req[r]
    BY RequestSorts
  <1> DEFINE m == [b EXCEPT !.pc = pc]
  <1>1. m \in Busy /\ m.pc = pc /\ m.resume = b.resume /\ m.entity = b.entity /\ m.current = b.current /\ m.was = b.was
    BY DEF Busy
  <1>2. req' = [req EXCEPT ![r] = m]
    BY DEF GoTo
  <1> HIDE DEF m
  <1> QED BY <1>1, <1>2 DEF TypeOK

LEMMA IsAnswered ==
  ASSUME TypeOK, NEW r \in Request, Answered(r)
  PROVE  /\ req' \in [Request -> Busy \cup {Idle}]
         /\ req'[r].pc = "idle"
         /\ \A q \in Request : q # r => req'[q] = req[q]
  BY Sorts DEF TypeOK, Answered

LEMMA WorkerGoes ==
  ASSUME TypeOK, NEW w \in Worker, worker[w].pc # "rest", NEW pc,
         pc \in {"processing", "download", "parse", "succeed", "publish", "fail"}, Proceed(w, pc)
  PROVE  /\ worker' \in [Worker -> Job \cup {Rest}]
         /\ worker'[w].pc = pc /\ worker'[w].resume = worker[w].resume
         /\ \A v \in Worker : v # w => worker'[v] = worker[v]
  <1> PICK j \in Job : j = worker[w]
    BY WorkerSorts
  <1>1. [j EXCEPT !.pc = pc] \in Job /\ [j EXCEPT !.pc = pc].pc = pc /\ [j EXCEPT !.pc = pc].resume = j.resume
    BY DEF Job
  <1> QED BY <1>1 DEF Proceed, TypeOK

LEMMA WorkerRests ==
  ASSUME TypeOK, NEW w \in Worker, Done(w)
  PROVE  /\ worker' \in [Worker -> Job \cup {Rest}]
         /\ worker'[w].pc = "rest"
         /\ \A v \in Worker : v # w => worker'[v] = worker[v]
  BY Sorts DEF TypeOK, Done

LEMMA WorkerTakes ==
  ASSUME TypeOK, NEW w \in Worker, Take(w)
  PROVE  /\ UNCHANGED <<tables, late, req, books>> /\ Doing(w, "rest")
         /\ queue' \in [Resume -> 0..MaxAttempts] /\ worker' \in [Worker -> Job \cup {Rest}]
         /\ \A v \in Worker : v # w => worker'[v] = worker[v]
         /\ \E x \in Resume :
              /\ queue'[x] = 0 /\ \A y \in Resume : y # x => queue'[y] = queue[y]
              /\ IF ~LiveRow(x) THEN worker' = worker
                 ELSE worker'[w].pc = "processing" /\ worker'[w].resume = x
  <1> PICK x \in Resume :
        /\ queue[x] > 0
        /\ queue' = [queue EXCEPT ![x] = 0]
        /\ worker' = IF ~LiveRow(x) THEN worker
                     ELSE [worker EXCEPT ![w] = [pc |-> "processing", resume |-> x, left |-> queue[x] - 1]]
    BY DEF Take
  <1> DEFINE j == [pc |-> "processing", resume |-> x, left |-> queue[x] - 1]
  <1>1. queue[x] - 1 \in 0..MaxAttempts /\ 0 \in 0..MaxAttempts
    BY LibraryAssumption DEF TypeOK
  <1>2. j \in Job /\ j.pc = "processing" /\ j.resume = x
    BY <1>1 DEF Job
  <1>3. worker' = IF ~LiveRow(x) THEN worker ELSE [worker EXCEPT ![w] = j]
    OBVIOUS
  <1> HIDE DEF j
  <1>4. queue' \in [Resume -> 0..MaxAttempts] /\ queue'[x] = 0 /\ \A y \in Resume : y # x => queue'[y] = queue[y]
    BY <1>1 DEF TypeOK
  <1>5. CASE LiveRow(x)
    BY <1>2, <1>3, <1>4, <1>5 DEF Take, TypeOK
  <1>6. CASE ~LiveRow(x)
    BY <1>3, <1>4, <1>6 DEF Take, TypeOK
  <1> QED BY <1>5, <1>6

-----------------------------------------------------------------------------
(* What the step of one request has to do for each part of the invariant. *)

OthersWait(r) == \A q \in Request : q # r => req'[q] = req[q]

LEMMA ParsedStep ==
  ASSUME ParsedInv, NEW r \in Request, OthersWait(r), parsed \subseteq parsed', UNCHANGED worker,
         EntityRead(r)', SuccessIsReadable'
  PROVE  ParsedInv'
  BY DEF ParsedInv, OthersWait, EntitiesRead, EntityRead, WorkersParsed, At

LEMMA WaitingStep ==
  ASSUME WaitingInv, NEW r \in Request, OthersWait(r), UNCHANGED worker,
         \A x \in Resume : queue[x] > 0 => queue'[x] > 0,
         \A x \in Resume : Waiting(x)' /\ ~Scheduled(x)' => Waiting(x),
         req[r].pc \in {"enqueue", "giveUp"} =>
           \A x \in Resume : x = req[r].resume /\ Waiting(x)' => Scheduled(x)'
  PROVE  WaitingInv'
  <1> SUFFICES ASSUME NEW x \in Resume, Waiting(x)', ~Scheduled(x)' PROVE FALSE
    BY DEF WaitingInv
  <1>1. Scheduled(x)
    BY DEF WaitingInv
  <1>2. ~(queue[x] > 0) /\ ~\E w \in Worker : Working(w) /\ worker[w].resume = x
    BY DEF Scheduled, Working
  <1>3. PICK q \in Request : req[q].pc \in {"enqueue", "giveUp"} /\ req[q].resume = x
    BY <1>1, <1>2 DEF Scheduled
  <1>4. CASE q = r
    BY <1>3, <1>4
  <1>5. CASE q # r
    BY <1>3, <1>5 DEF Scheduled, OthersWait
  <1> QED BY <1>4, <1>5

LEMMA FilesStep ==
  ASSUME TypeOK, TypeOK', FilesInv, NEW r \in Request, OthersWait(r), ~At(r, "idle"),
         \A x \in Resume : row[x].state # "none" => row'[x].state # "none",
         \A x \in Resume : row[x].state = "none" /\ row'[x].state # "none" =>
           x = req[r].resume /\ Fresh(r) /\ ~Fresh(r)',
         \A x \in file : x \in file' \/ row[x].state # "none",
         ~At(r, "idle")' => req'[r].resume = req[r].resume,
         Fresh(r)' => Fresh(r), ~At(r, "commit")',
         ~At(r, "idle")' /\ ~Fresh(r)' => row'[req[r].resume].state # "none",
         exported' # exported => row'[exported'].state # "none"
  PROVE  FreshRows'
  <1>1. \A q \in Request : ~At(q, "idle") => req[q].resume \in Resume /\ req[q].current \in Resume \cup {NoResume}
    BY RequestSorts
  <1>2. ASSUME NEW q \in Request PROVE FileKept(q)'
    <2>1. CASE q = r
      BY <1>1, <2>1 DEF FilesInv, FreshRows, FileKept, Fresh, At
    <2>2. CASE q # r
      <3>1. req'[q] = req[q]
        BY <2>2 DEF OthersWait
      <3>2. Fresh(q) => ~At(q, "idle") /\ ~(Fresh(r) /\ req[r].resume = req[q].resume)
        BY <2>2 DEF FilesInv, FreshRows, Fresh, At
      <3>3. Fresh(q) => req[q].resume \in file' /\ row'[req[q].resume].state = "none"
        BY <1>1, <3>2 DEF FilesInv, FreshRows, FileKept
      <3> QED BY <1>1, <3>1, <3>2, <3>3 DEF FilesInv, FreshRows, FileKept, Fresh, At
    <2> QED BY <2>1, <2>2
  <1>3. \A p, q \in Request : Fresh(p)' /\ Fresh(q)' /\ req'[p].resume = req'[q].resume => p = q
    BY DEF FilesInv, FreshRows, Fresh, OthersWait, At
  <1>4. exported' # NoResume => row'[exported'].state # "none"
    BY DEF FilesInv, FreshRows, TypeOK
  <1> QED BY <1>2, <1>3, <1>4 DEF FreshRows

LEMMA DefaultsStep ==
  ASSUME DefaultsInv, NEW r \in Request, OthersWait(r), ~At(r, "idle"), UNCHANGED overlapped,
         ~overlapped => OneDefault' /\ DefaultRead(r)'
  PROVE  DefaultsInv'
  <1> SUFFICES ASSUME ~overlapped PROVE DefaultsInv'
    BY DEF DefaultsInv
  <1>1. \A q \in Request : q # r => At(q, "idle") /\ At(q, "idle")'
    BY DEF DefaultsInv, OthersWait, At
  <1>2. \A q \in Request : DefaultRead(q)'
    BY <1>1 DEF DefaultRead, At
  <1> QED BY <1>1, <1>2 DEF DefaultsInv, At

\* Nobody is served: a request alone changes none of the rows.
LEMMA DefaultsAlone ==
  ASSUME DefaultsInv, NEW r \in Request, ~At(r, "idle"), ~overlapped
  PROVE  OneDefault /\ DefaultRead(r)
  BY DEF DefaultsInv

-----------------------------------------------------------------------------
(* Requests arrive. *)

Arrival(r, x) == Upload(r, x) \/ SetDefault(r, x) \/ Delete(r, x) \/ Score(r, x) \/ Export(r, x)

LEMMA ArrivalEffect ==
  ASSUME TypeOK, NEW r \in Request, NEW x \in Resume, Arrival(r, x)
  PROVE  /\ UNCHANGED <<row, parsed, exported, queue, late, worker, stranded, reverted>>
         /\ file \subseteq file' /\ file' \subseteq Resume
         /\ req' \in [Request -> Busy \cup {Idle}] /\ calls' \in Nat /\ faults' \in Nat /\ overlapped' \in BOOLEAN
         /\ OthersWait(r) /\ At(r, "idle") /\ req'[r].resume = x
         /\ \/ /\ req'[r].pc \in {"findDefault", "commit"} /\ Minted(x) /\ x \in file'
               /\ req'[r].entity = Uploaded(FALSE) /\ (req'[r].pc = "commit" => req'[r].current = exported)
            \/ /\ req'[r].pc \in {"findCurrent", "score"} /\ LiveRow(x) /\ req'[r].entity = Loaded(x)
            \/ /\ req'[r].pc = "deleteFile" /\ LiveRow(x) /\ req'[r].entity = Uploaded(FALSE)
  <1> USE DEF OthersWait
  <1>0. Uploaded(FALSE) \in Entity /\ exported \in Resume \cup {NoResume} /\ NoResume \in Resume \cup {NoResume}
    BY Sorts DEF TypeOK
  <1>1. CASE Upload(r, x)
    <2>1. Begin(r, "findDefault", x, Uploaded(FALSE), NoResume) /\ Minted(x) /\ file' = file \cup {x}
          /\ UNCHANGED <<row, parsed, exported, queue, late, worker>>
      BY <1>1 DEF Upload, jobs
    <2> QED BY <1>0, <2>1, BeginTypes DEF TypeOK
  <1>2. CASE SetDefault(r, x)
    <2>1. Begin(r, "findCurrent", x, Loaded(x), NoResume) /\ LiveRow(x)
          /\ UNCHANGED <<row, parsed, file, exported, queue, late, worker>>
      BY <1>2 DEF SetDefault, tables, jobs
    <2>2. Loaded(x) \in Entity
      BY <2>1, RowSorts
    <2> QED BY <1>0, <2>1, <2>2, BeginTypes DEF TypeOK
  <1>3. CASE Delete(r, x)
    <2>1. Begin(r, "deleteFile", x, Uploaded(FALSE), NoResume) /\ LiveRow(x)
          /\ UNCHANGED <<row, parsed, file, exported, queue, late, worker>>
      BY <1>3 DEF Delete, tables, jobs
    <2> QED BY <1>0, <2>1, BeginTypes DEF TypeOK
  <1>4. CASE Score(r, x)
    <2>1. Begin(r, "score", x, Loaded(x), NoResume) /\ LiveRow(x)
          /\ UNCHANGED <<row, parsed, file, exported, queue, late, worker>>
      BY <1>4 DEF Score, tables, jobs
    <2>2. Loaded(x) \in Entity
      BY <2>1, RowSorts
    <2> QED BY <1>0, <2>1, <2>2, BeginTypes DEF TypeOK
  <1>5. CASE Export(r, x)
    <2>1. Begin(r, "commit", x, Uploaded(FALSE), exported) /\ Minted(x) /\ file' = file \cup {x}
          /\ UNCHANGED <<row, parsed, exported, queue, late, worker>>
      BY <1>5 DEF Export, jobs
    <2>2. PICK y \in Resume \cup {NoResume} : y = exported
      BY <1>0
    <2>3. Begin(r, "commit", x, Uploaded(FALSE), y)
      BY <2>1, <2>2
    <2>4. /\ req' \in [Request -> Busy \cup {Idle}]
          /\ calls' \in Nat /\ faults' \in Nat /\ overlapped' \in BOOLEAN
          /\ stranded' = stranded /\ reverted' = reverted
          /\ req'[r].pc = "commit" /\ req'[r].resume = x /\ req'[r].entity = Uploaded(FALSE) /\ req'[r].current = y
          /\ \A q \in Request : q # r => req'[q] = req[q]
          /\ At(r, "idle")
      BY <1>0, <2>3, BeginTypes
    <2> QED BY <2>1, <2>2, <2>4 DEF TypeOK
  <1> QED BY <1>1, <1>2, <1>3, <1>4, <1>5 DEF Arrival

LEMMA ArrivalKeeps ==
  ASSUME LibraryInv, NEW r \in Request, NEW x \in Resume, Arrival(r, x)
  PROVE  LibraryInv'
  <1> USE DEF LibraryInv
  <1>0. /\ At(r, "idle") /\ OthersWait(r) /\ UNCHANGED <<row, parsed, exported, queue, worker, stranded, reverted>>
        /\ file \subseteq file' /\ req'[r].resume = x
    BY ArrivalEffect
  <1>a. \/ /\ req'[r].pc \in {"findDefault", "commit"} /\ Minted(x) /\ x \in file'
           /\ req'[r].entity = Uploaded(FALSE) /\ (req'[r].pc = "commit" => req'[r].current = exported)
        \/ /\ req'[r].pc \in {"findCurrent", "score"} /\ LiveRow(x) /\ req'[r].entity = Loaded(x)
        \/ /\ req'[r].pc = "deleteFile" /\ LiveRow(x) /\ req'[r].entity = Uploaded(FALSE)
    BY ArrivalEffect
  <1>1. TypeOK'
    BY ArrivalEffect DEF TypeOK
  <1>2. ParsedInv'
    <2>1. req'[r].resume = x /\ (req'[r].entity = Uploaded(FALSE) \/ (LiveRow(x) /\ req'[r].entity = Loaded(x)))
      BY ArrivalEffect
    <2>2. EntityRead(r)'
      BY <1>0, <1>a, <2>1 DEF EntityRead, At, Uploaded, Loaded, ParsedInv, SuccessIsReadable
    <2> QED BY <1>0, <2>2, ParsedStep DEF ParsedInv, SuccessIsReadable, LiveRow
  <1>3. WaitingInv'
    BY <1>0, WaitingStep DEF Waiting, LiveRow, At
  <1>4. FilesInv'
    <2>1. \A q \in Request : ~At(q, "idle") => req[q].resume \in Resume /\ req[q].current \in Resume \cup {NoResume}
      BY RequestSorts
    <2>2. ASSUME NEW q \in Request PROVE FileKept(q)'
      <3>1. CASE q = r
        BY <1>0, <1>a, <3>1 DEF FileKept, Fresh, At, Minted, LiveRow, FilesInv, FreshRows
      <3>2. CASE q # r
        BY <1>0, <3>2, <2>1 DEF FileKept, Fresh, At, OthersWait, FilesInv, FreshRows
      <3> QED BY <3>1, <3>2
    <2>3. ASSUME NEW p \in Request, NEW q \in Request, Fresh(p)', Fresh(q)', req'[p].resume = req'[q].resume
          PROVE  p = q
      <3>1. Fresh(r)' => \A o \in Request : ~At(o, "idle") => req[o].resume # x
        BY <1>a DEF Fresh, Minted, At
      <3> QED BY <1>0, <2>3, <3>1 DEF FilesInv, FreshRows, Fresh, OthersWait, At
    <2>4. ListedResumesHaveFiles'
      BY <1>0 DEF FilesInv, ListedResumesHaveFiles, LiveRow, At, OthersWait
    <2> QED BY <1>0, <2>2, <2>3, <2>4 DEF FilesInv, FreshRows
  <1>5. DefaultsInv'
    <2> SUFFICES ASSUME ~overlapped' PROVE DefaultsInv'
      BY DEF DefaultsInv
    <2>1. ~overlapped /\ \A q \in Request : At(q, "idle")
      BY DEF Arrival, Upload, SetDefault, Delete, Score, Export, Begin
    <2>2. OneDefault'
      BY <1>0, <2>1 DEF DefaultsInv, OneDefault, Default, LiveRow
    <2>3. \A q \in Request : q # r => req'[q].pc = "idle"
      BY <1>0, <2>1 DEF OthersWait, At
    <2>4. DefaultRead(r)'
      <3>1. req'[r].pc \in {"findDefault", "commit", "findCurrent", "score", "deleteFile"}
        BY <1>a
      <3>2. req'[r].pc = "score" => req'[r].entity = Loaded(x)
        BY <1>a
      <3>3. Loaded(x).default = row[x].default
        BY DEF Loaded
      <3> QED BY <1>0, <3>1, <3>2, <3>3 DEF DefaultRead, At
    <2> QED BY <2>2, <2>3, <2>4 DEF DefaultsInv, DefaultRead, At
  <1> QED BY <1>1, <1>2, <1>3, <1>4, <1>5

-----------------------------------------------------------------------------
(* A request saves an entity it has loaded. *)

\* What a save leaves alone, and what becomes of the row.
LEMMA SaveEffect ==
  ASSUME TypeOK, NEW x \in Resume, NEW e \in Entity, Save(x, e)
  PROVE  /\ row' \in [Resume -> {NoRow, Deleted} \cup LiveRows]
         /\ reverted \subseteq reverted' /\ reverted' \subseteq Resume
         /\ UNCHANGED <<calls, faults, stranded, overlapped>>
         /\ \A y \in Resume : row'[y].state = row[y].state
         /\ \A y \in Resume : y # x => row'[y] = row[y]
         /\ LiveRow(x) => row'[x].default = e.default /\ row'[x].status = e.status
         /\ ~LiveRow(x) => row'[x] = row[x]
         /\ LiveRow(x) /\ row[x].status # e.status => x \in reverted'
  <1>1. \A y \in Resume : row'[y] = IF y = x /\ LiveRow(x) THEN Written(e) ELSE row[y]
    BY SaveTypes
  <1>2. Written(e).state = "live" /\ Written(e).default = e.default /\ Written(e).status = e.status
    BY DEF Written
  <1>3. reverted' = IF Reverts(x, e) THEN reverted \cup {x} ELSE reverted
    BY DEF Save
  <1> HIDE DEF Written
  <1> QED BY <1>1, <1>2, <1>3, SaveTypes DEF LiveRow, Reverts

\* A save by request r, whatever it does next: GiveUp, Unset, Set and SaveScores.
LEMMA SaveKeeps ==
  ASSUME LibraryInv, NEW r \in Request, NEW x \in Resume, NEW e \in Entity, Save(x, e),
         ~At(r, "idle"), ~Fresh(r), ~At(r, "enqueue"), At(r, "giveUp") => x = req[r].resume /\ e.status = "FAILED",
         UNCHANGED <<parsed, file, exported, queue, late, worker>>,
         OthersWait(r), req' \in [Request -> Busy \cup {Idle}],
         e.status = "SUCCESS" => x \in parsed,
         \/ At(r, "idle")'
         \/ At(r, "set")' /\ req'[r].resume = req[r].resume /\ req'[r].entity = req[r].entity,
         At(r, "deleteRow") => FALSE,
         ~overlapped => OneDefault' /\ DefaultRead(r)'
  PROVE  LibraryInv'
  <1> USE DEF LibraryInv
  <1>0. /\ row' \in [Resume -> {NoRow, Deleted} \cup LiveRows]
        /\ reverted \subseteq reverted' /\ reverted' \subseteq Resume
        /\ UNCHANGED <<calls, faults, stranded, overlapped>>
        /\ \A y \in Resume : row'[y].state = row[y].state
        /\ \A y \in Resume : y # x => row'[y] = row[y]
        /\ LiveRow(x) => row'[x].default = e.default /\ row'[x].status = e.status
        /\ ~LiveRow(x) => row'[x] = row[x]
        /\ LiveRow(x) /\ row[x].status # e.status => x \in reverted'
    BY SaveEffect
  <1>1. TypeOK'
    BY <1>0 DEF TypeOK
  <1>2. ParsedInv'
    <2>1. SuccessIsReadable'
      BY <1>0 DEF ParsedInv, SuccessIsReadable, LiveRow
    <2>2. EntityRead(r)'
      BY DEF ParsedInv, EntitiesRead, EntityRead, At
    <2> QED BY <2>1, <2>2, ParsedStep
  <1>3. WaitingInv'
    <2>1. \A y \in Resume : Waiting(y)' => Waiting(y)
      BY <1>0 DEF Waiting, LiveRow
    <2>2. At(r, "giveUp") => \A y \in Resume : y = req[r].resume => ~Waiting(y)'
      BY <1>0 DEF Waiting, LiveRow
    <2> QED BY <2>1, <2>2, WaitingStep DEF At
  <1>4. FilesInv'
    <2>1. FreshRows'
      <3>1. req[r].resume \in Resume
        BY RequestSorts
      <3>2. row[req[r].resume].state # "none"
        BY DEF FilesInv, FreshRows, FileKept
      <3>3. ~Fresh(r)' /\ ~At(r, "commit")' /\ (~At(r, "idle")' => req'[r].resume = req[r].resume)
        BY DEF Fresh, At
      <3> QED BY <1>0, <1>1, <3>1, <3>2, <3>3, FilesStep
    <2>2. ListedResumesHaveFiles'
      BY <1>0 DEF FilesInv, ListedResumesHaveFiles, LiveRow, OthersWait, At
    <2> QED BY <2>1, <2>2 DEF FilesInv
  <1>5. DefaultsInv'
    BY <1>0, DefaultsStep
  <1> QED BY <1>1, <1>2, <1>3, <1>4, <1>5

LEMMA EntitySaves ==
  ASSUME LibraryInv, NEW r \in Request, GiveUp(r) \/ Unset(r) \/ Set(r) \/ SaveScores(r)
  PROVE  LibraryInv'
  <1> USE DEF LibraryInv
  <1> PICK x, e, z : x = req[r].resume /\ e = req[r].entity /\ z = req[r].was
    OBVIOUS
  <1>0. ~At(r, "idle") /\ x \in Resume /\ e \in Entity /\ z \in Entity
    BY RequestSorts DEF GiveUp, Unset, Set, SaveScores, At
  <1>1. e.status = "SUCCESS" => x \in parsed
    BY <1>0 DEF ParsedInv, EntitiesRead, EntityRead
  <1>2. ~overlapped => OneDefault /\ DefaultRead(r)
    BY <1>0, DefaultsAlone
  <1>3. CASE GiveUp(r)
    <2> PICK f : f = [e EXCEPT !.status = "FAILED"]
      OBVIOUS
    <2>1. f \in Entity /\ f.status = "FAILED" /\ f.default = e.default
      BY <1>0 DEF Entity, Status
    <2>2. Save(x, f) /\ Answered(r) /\ UNCHANGED <<parsed, file, exported, queue, late, worker>> /\ At(r, "giveUp")
      BY <1>3 DEF GiveUp, jobs
    <2>3. ~overlapped => OneDefault' /\ DefaultRead(r)'
      <3> SUFFICES ASSUME ~overlapped PROVE OneDefault' /\ DefaultRead(r)'
        OBVIOUS
      <3>1. LiveRow(x) => row[x].default = e.default
        BY <1>2, <2>2 DEF DefaultRead, At
      <3>2. \A y \in Resume : Default(y)' => Default(y)
        BY <1>0, <2>1, <2>2, <3>1, SaveEffect DEF Default, LiveRow
      <3> QED BY <1>2, <2>2, <3>2, IsAnswered DEF OneDefault, DefaultRead, At
    <2> QED BY <1>0, <2>1, <2>2, <2>3, IsAnswered, SaveKeeps DEF At, Fresh, OthersWait
  <1>4. CASE SaveScores(r)
    <2>2. Save(x, e) /\ Answered(r) /\ UNCHANGED <<parsed, file, exported, queue, late, worker>> /\ At(r, "score")
      BY <1>4 DEF SaveScores, jobs
    <2>3. ~overlapped => OneDefault' /\ DefaultRead(r)'
      <3> SUFFICES ASSUME ~overlapped PROVE OneDefault' /\ DefaultRead(r)'
        OBVIOUS
      <3>1. LiveRow(x) => row[x].default = e.default
        BY <1>2, <2>2 DEF DefaultRead, At
      <3>2. \A y \in Resume : Default(y)' => Default(y)
        BY <1>0, <2>2, <3>1, SaveEffect DEF Default, LiveRow
      <3> QED BY <1>2, <2>2, <3>2, IsAnswered DEF OneDefault, DefaultRead, At
    <2> QED BY <1>0, <1>1, <2>2, <2>3, IsAnswered, SaveKeeps DEF At, Fresh, OthersWait
  <1>5. CASE Set(r)
    <2> PICK f : f = [e EXCEPT !.default = TRUE]
      OBVIOUS
    <2>1. f \in Entity /\ f.status = e.status /\ f.default = TRUE
      BY <1>0 DEF Entity, Status
    <2>2. Save(x, f) /\ Answered(r) /\ UNCHANGED <<parsed, file, exported, queue, late, worker>> /\ At(r, "set")
      BY <1>5 DEF Set, jobs
    <2>3. ~overlapped => OneDefault' /\ DefaultRead(r)'
      <3> SUFFICES ASSUME ~overlapped PROVE OneDefault' /\ DefaultRead(r)'
        OBVIOUS
      <3>1. NoDefault
        BY <1>2, <2>2 DEF DefaultRead
      <3>2. \A y \in Resume : Default(y)' => y = x
        BY <1>0, <2>1, <2>2, <3>1, SaveEffect DEF NoDefault, Default, LiveRow
      <3> QED BY <2>2, <3>2, IsAnswered DEF OneDefault, DefaultRead, At
    <2> QED BY <1>0, <1>1, <2>1, <2>2, <2>3, IsAnswered, SaveKeeps DEF At, Fresh, OthersWait
  <1>6. CASE Unset(r)
    <2> PICK y, f, u : y = req[r].current /\ f = [z EXCEPT !.default = FALSE] /\ u = Uploaded(FALSE)
      OBVIOUS
    <2>1. f \in Entity /\ f.status = z.status /\ f.default = FALSE /\ u \in Entity
      BY <1>0, Sorts DEF Entity, Status
    <2>2. /\ Save(y, f) /\ UNCHANGED <<parsed, file, exported, queue, late, worker>> /\ At(r, "unset")
          /\ req' = [req EXCEPT ![r].pc = "set", ![r].current = NoResume, ![r].was = u]
      BY <1>6 DEF Unset, jobs
    <2>3. y \in Resume /\ (f.status = "SUCCESS" => y \in parsed)
      BY <1>0, <2>1, <2>2 DEF ParsedInv, EntitiesRead, EntityRead
    <2>4. /\ req' \in [Request -> Busy \cup {Idle}] /\ OthersWait(r)
          /\ req'[r].pc = "set" /\ req'[r].resume = req[r].resume /\ req'[r].entity = req[r].entity
      <3> PICK b \in Busy : b = req[r]
        BY <1>0, RequestSorts
      <3> DEFINE m == [b EXCEPT !.pc = "set", !.current = NoResume, !.was = u]
      <3>1. m \in Busy /\ m.pc = "set" /\ m.resume = b.resume /\ m.entity = b.entity
        BY <2>1 DEF Busy
      <3>2. req' = [req EXCEPT ![r] = m]
        BY <2>2
      <3> HIDE DEF m
      <3> QED BY <3>1, <3>2 DEF TypeOK, OthersWait
    <2>5. ~overlapped => OneDefault' /\ DefaultRead(r)'
      <3> SUFFICES ASSUME ~overlapped PROVE OneDefault' /\ DefaultRead(r)'
        OBVIOUS
      <3>1. Default(y) /\ OneDefault
        BY <1>2, <2>2 DEF DefaultRead
      <3>2. \A o \in Resume : ~Default(o)'
        <4>1. LiveRow(y) => row'[y].default = FALSE
          BY <2>1, <2>2, <2>3, SaveEffect
        <4>2. \A o \in Resume : o # y => row'[o] = row[o]
          BY <2>1, <2>2, <2>3, SaveEffect
        <4>3. ~Default(y)'
          BY <3>1, <4>1 DEF Default
        <4>4. \A o \in Resume : o # y => ~Default(o)
          BY <2>3, <3>1 DEF OneDefault
        <4>5. \A o \in Resume : o # y => ~Default(o)'
          BY <4>2, <4>4 DEF Default, LiveRow
        <4> QED BY <4>3, <4>5
      <3> QED BY <2>4, <3>2 DEF OneDefault, NoDefault, DefaultRead, At
    <2> QED BY <1>0, <2>1, <2>2, <2>3, <2>4, <2>5, SaveKeeps DEF At, Fresh
  <1> QED BY <1>3, <1>4, <1>5, <1>6

-----------------------------------------------------------------------------
(* The other steps of a request. *)

\* Steps that touch no row and no job: the request reads and moves on.
LEMMA ReadingKeeps ==
  ASSUME LibraryInv, NEW r \in Request, ~At(r, "idle"), OthersWait(r),
         UNCHANGED <<row, parsed, exported, file, queue, worker, reverted, overlapped>>,
         TypeOK', stranded \subseteq stranded',
         Fresh(r)' => Fresh(r), ~At(r, "commit")', ~At(r, "idle")' => req'[r].resume = req[r].resume,
         ~At(r, "idle")' /\ ~Fresh(r)' => ~Fresh(r),
         EntityRead(r)', ~overlapped => DefaultRead(r)',
         At(r, "enqueue") => At(r, "giveUp")' \/ req[r].resume \in stranded',
         At(r, "giveUp") \/ At(r, "deleteRow") => req[r].resume \in stranded'
  PROVE  LibraryInv'
  <1> USE DEF LibraryInv
  <1>1. ParsedInv'
    BY ParsedStep DEF ParsedInv, SuccessIsReadable, LiveRow
  <1>2. WaitingInv'
    <2>1. \A x \in Resume : Waiting(x)' => Waiting(x)
      BY DEF Waiting, LiveRow
    <2>2. req[r].pc \in {"enqueue", "giveUp"} =>
            \A x \in Resume : x = req[r].resume /\ Waiting(x)' => Scheduled(x)'
      BY DEF Waiting, Scheduled, At
    <2> QED BY <2>1, <2>2, WaitingStep
  <1>3. FilesInv'
    <2>1. req[r].resume \in Resume /\ (~Fresh(r) => row[req[r].resume].state # "none")
      BY RequestSorts DEF FilesInv, FreshRows, FileKept
    <2>2. FreshRows'
      BY <2>1, FilesStep
    <2>3. ListedResumesHaveFiles'
      BY DEF FilesInv, ListedResumesHaveFiles, LiveRow, OthersWait, At
    <2> QED BY <2>2, <2>3 DEF FilesInv
  <1>4. DefaultsInv'
    BY DefaultsAlone, DefaultsStep DEF OneDefault, Default, LiveRow
  <1> QED BY <1>1, <1>2, <1>3, <1>4

LEMMA ReadsKeep ==
  ASSUME LibraryInv, NEW r \in Request, FindDefault(r) \/ EnqueueTimesOut(r) \/ FindCurrent(r) \/ Die(r)
  PROVE  LibraryInv'
  <1> USE DEF LibraryInv
  <1>0. /\ ~At(r, "idle") /\ UNCHANGED <<row, parsed, exported, file, queue, worker, reverted, overlapped>>
        /\ calls' \in Nat /\ faults' \in Nat
    <2>1. faults + 1 \in Nat /\ calls \in Nat /\ faults \in Nat
      BY DEF TypeOK
    <2>2. CASE FindDefault(r) \/ FindCurrent(r)
      BY <2>1, <2>2 DEF FindDefault, FindCurrent, tables, jobs, books, bounds, history, At
    <2>3. CASE EnqueueTimesOut(r) \/ Die(r)
      BY <2>1, <2>3 DEF EnqueueTimesOut, Die, Fault, tables, jobs, history, At
    <2> QED BY <2>2, <2>3
  <1>1. EntityRead(r) /\ FileKept(r) /\ (~overlapped => DefaultRead(r))
    BY <1>0, DefaultsAlone DEF ParsedInv, EntitiesRead, FilesInv, FreshRows
  <1>2. CASE FindDefault(r)
    <2> PICK u, d : d = (~\E y \in Resume : Default(y)) /\ u = Uploaded(d)
      OBVIOUS
    <2>1. u \in Entity /\ u.status = "PENDING" /\ u.default = d
      BY Sorts DEF Uploaded
    <2>2. /\ UNCHANGED <<late, stranded>> /\ At(r, "findDefault")
          /\ req' = [req EXCEPT ![r].pc = "insert", ![r].entity = u]
      BY <1>2 DEF FindDefault, jobs, books, history
    <2>3. /\ req' \in [Request -> Busy \cup {Idle}] /\ OthersWait(r)
          /\ req'[r].pc = "insert" /\ req'[r].resume = req[r].resume /\ req'[r].entity = u
      <3> PICK b \in Busy : b = req[r]
        BY <1>0, RequestSorts
      <3> DEFINE m == [b EXCEPT !.pc = "insert", !.entity = u]
      <3>1. m \in Busy /\ m.pc = "insert" /\ m.resume = b.resume /\ m.entity = u
        BY <2>1 DEF Busy
      <3>2. req' = [req EXCEPT ![r] = m]
        BY <2>2
      <3> HIDE DEF m
      <3> QED BY <3>1, <3>2 DEF TypeOK, OthersWait
    <2>4. TypeOK'
      BY <1>0, <2>2, <2>3 DEF TypeOK
    <2>5. EntityRead(r)'
      BY <2>1, <2>3 DEF EntityRead, At
    <2>6. DefaultRead(r)'
      <3>1. d => NoDefault'
        BY <1>0 DEF NoDefault, Default, LiveRow
      <3> QED BY <2>1, <2>3, <3>1 DEF DefaultRead, At
    <2> QED BY <1>0, <2>2, <2>3, <2>4, <2>5, <2>6, ReadingKeeps DEF Fresh, At
  <1>3. CASE EnqueueTimesOut(r)
    <2>1. At(r, "enqueue") /\ late' = late \cup {req[r].resume} /\ GoTo(r, "giveUp") /\ UNCHANGED stranded
      BY <1>3 DEF EnqueueTimesOut, history
    <2>2. /\ req' \in [Request -> Busy \cup {Idle}] /\ OthersWait(r)
          /\ req'[r].pc = "giveUp" /\ req'[r].resume = req[r].resume /\ req'[r].entity = req[r].entity
      BY <1>0, <2>1, GoesTo DEF OthersWait
    <2>3. TypeOK'
      BY <1>0, <2>1, <2>2, RequestSorts DEF TypeOK
    <2>4. EntityRead(r)'
      BY <1>0, <1>1, <2>2 DEF EntityRead, At
    <2>5. ~overlapped => DefaultRead(r)'
      BY <1>0, <1>1, <2>1, <2>2 DEF DefaultRead, At, LiveRow
    <2> QED BY <1>0, <2>1, <2>2, <2>3, <2>4, <2>5, ReadingKeeps DEF Fresh, At
  <1>4. CASE FindCurrent(r)
    <2>0. At(r, "findCurrent") /\ UNCHANGED <<late, stranded>>
      BY <1>4 DEF FindCurrent, jobs, books, history
    <2>1. CASE Answered(r)
      BY <1>0, <2>0, <2>1, IsAnswered, ReadingKeeps DEF Fresh, At, OthersWait, TypeOK, EntityRead, DefaultRead
    <2>2. CASE (\A y \in Resume : ~Default(y)) /\ GoTo(r, "set")
      <3>1. /\ req' \in [Request -> Busy \cup {Idle}] /\ OthersWait(r)
            /\ req'[r].pc = "set" /\ req'[r].resume = req[r].resume /\ req'[r].entity = req[r].entity
        BY <1>0, <2>2, GoesTo DEF OthersWait
      <3>2. TypeOK'
        BY <1>0, <2>0, <3>1 DEF TypeOK
      <3>3. EntityRead(r)'
        BY <1>0, <1>1, <3>1 DEF EntityRead, At
      <3>4. DefaultRead(r)'
        BY <1>0, <2>2, <3>1 DEF DefaultRead, At, NoDefault, Default, LiveRow
      <3> QED BY <1>0, <2>0, <3>1, <3>2, <3>3, <3>4, ReadingKeeps DEF Fresh, At
    <2>3. CASE \E y \in Resume \ {req[r].resume} :
                 /\ Default(y)
                 /\ req' = [req EXCEPT ![r].pc = "unset", ![r].current = y, ![r].was = Loaded(y)]
      <3> PICK y \in Resume : /\ Default(y)
                              /\ req' = [req EXCEPT ![r].pc = "unset", ![r].current = y, ![r].was = Loaded(y)]
        BY <2>3
      <3> PICK z : z = Loaded(y)
        OBVIOUS
      <3>0. z \in Entity /\ z.status = row[y].status /\ LiveRow(y)
        BY RowSorts DEF Default, Loaded
      <3>1. /\ req' \in [Request -> Busy \cup {Idle}] /\ OthersWait(r)
            /\ req'[r].pc = "unset" /\ req'[r].resume = req[r].resume /\ req'[r].entity = req[r].entity
            /\ req'[r].current = y /\ req'[r].was = z
        <4> PICK b \in Busy : b = req[r]
          BY <1>0, RequestSorts
        <4> DEFINE m == [b EXCEPT !.pc = "unset", !.current = y, !.was = z]
        <4>1. m \in Busy /\ m.pc = "unset" /\ m.resume = b.resume /\ m.entity = b.entity /\ m.current = y /\ m.was = z
          BY <3>0 DEF Busy
        <4>2. req' = [req EXCEPT ![r] = m]
          OBVIOUS
        <4> HIDE DEF m
        <4> QED BY <4>1, <4>2 DEF TypeOK, OthersWait
      <3>2. TypeOK'
        BY <1>0, <2>0, <3>1 DEF TypeOK
      <3>3. EntityRead(r)'
        BY <1>0, <1>1, <3>0, <3>1 DEF EntityRead, At, ParsedInv, SuccessIsReadable
      <3>4. DefaultRead(r)'
        BY <1>0, <3>1 DEF DefaultRead, At, Default, LiveRow
      <3> QED BY <1>0, <2>0, <3>1, <3>2, <3>3, <3>4, ReadingKeeps DEF Fresh, At
    <2> QED BY <1>4, <2>1, <2>2, <2>3 DEF FindCurrent
  <1>5. CASE Die(r)
    <2>1. Answered(r) /\ UNCHANGED late
      BY <1>5 DEF Die, jobs
    <2>2. stranded' = IF req[r].pc \in {"enqueue", "giveUp", "deleteRow"}
                        THEN stranded \cup {req[r].resume} ELSE stranded
      BY <1>5 DEF Die
    <2>3. req[r].resume \in Resume
      BY <1>0, RequestSorts
    <2>4. TypeOK'
      BY <1>0, <2>1, <2>2, <2>3, IsAnswered DEF TypeOK
    <2>5. EntityRead(r)' /\ DefaultRead(r)'
      BY <2>1, IsAnswered DEF EntityRead, DefaultRead, At
    <2> QED BY <1>0, <2>1, <2>2, <2>4, <2>5, IsAnswered, ReadingKeeps DEF Fresh, At, OthersWait
  <1> QED BY <1>2, <1>3, <1>4, <1>5

LEMMA InsertKeeps ==
  ASSUME LibraryInv, NEW r \in Request, Insert(r)
  PROVE  LibraryInv'
  <1> USE DEF LibraryInv
  <1> PICK x, e : x = req[r].resume /\ e = req[r].entity
    OBVIOUS
  <1>0. /\ At(r, "insert") /\ row' = [row EXCEPT ![x] = Written(e)] /\ GoTo(r, "enqueue")
        /\ UNCHANGED <<parsed, file, exported, queue, late, worker, calls, faults, stranded, reverted, overlapped>>
    BY DEF Insert, jobs, books, bounds, history
  <1>1. ~At(r, "idle") /\ x \in Resume /\ e \in Entity
    BY <1>0, RequestSorts DEF At
  <1>2. /\ req' \in [Request -> Busy \cup {Idle}] /\ OthersWait(r)
        /\ req'[r].pc = "enqueue" /\ req'[r].resume = x /\ req'[r].entity = e
    BY <1>0, <1>1, GoesTo DEF OthersWait
  <1>3. /\ row' \in [Resume -> {NoRow, Deleted} \cup LiveRows]
        /\ row'[x].state = "live" /\ row'[x].status = e.status /\ row'[x].default = e.default
        /\ \A y \in Resume : y # x => row'[y] = row[y]
    <2>1. Written(e) \in LiveRows /\ Written(e).state = "live" /\ Written(e).status = e.status /\ Written(e).default = e.default
      BY <1>1, Sorts DEF Written
    <2> HIDE DEF Written
    <2> QED BY <1>0, <1>1, <2>1 DEF TypeOK
  <1>4. x \in file /\ row[x].state = "none" /\ EntityRead(r)
    BY <1>0 DEF FilesInv, FreshRows, FileKept, Fresh, At, ParsedInv, EntitiesRead
  <1>5. TypeOK'
    BY <1>0, <1>2, <1>3 DEF TypeOK
  <1>6. ParsedInv'
    <2>1. SuccessIsReadable'
      BY <1>0, <1>1, <1>3, <1>4 DEF ParsedInv, SuccessIsReadable, LiveRow, EntityRead
    <2>2. EntityRead(r)'
      BY <1>0, <1>1, <1>2, <1>4 DEF EntityRead, At
    <2> QED BY <1>0, <1>2, <2>1, <2>2, ParsedStep
  <1>7. WaitingInv'
    <2>1. \A y \in Resume : Waiting(y)' /\ ~Scheduled(y)' => Waiting(y)
      BY <1>0, <1>2, <1>3 DEF Waiting, LiveRow, Scheduled
    <2> QED BY <1>0, <1>2, <2>1, WaitingStep DEF At
  <1>8. FilesInv'
    <2>0. Fresh(r) /\ ~Fresh(r)' /\ ~At(r, "commit")'
      BY <1>0, <1>2 DEF Fresh, At
    <2>1. FreshRows'
      BY <1>0, <1>1, <1>2, <1>3, <1>4, <1>5, <2>0, FilesStep
    <2>2. ListedResumesHaveFiles'
      BY <1>0, <1>2, <1>3, <1>4 DEF FilesInv, ListedResumesHaveFiles, LiveRow, OthersWait, At
    <2> QED BY <2>1, <2>2 DEF FilesInv
  <1>9. DefaultsInv'
    <2> SUFFICES ASSUME ~overlapped PROVE OneDefault' /\ DefaultRead(r)'
      BY <1>0, <1>1, <1>2, DefaultsStep
    <2>1. OneDefault /\ (e.default => NoDefault)
      BY <1>0, <1>1, DefaultsAlone DEF DefaultRead
    <2>2. \A y \in Resume : y # x => (Default(y)' <=> Default(y))
      BY <1>3 DEF Default, LiveRow
    <2>3. Default(x)' => e.default
      BY <1>3 DEF Default
    <2>4. OneDefault'
      BY <2>1, <2>2, <2>3 DEF OneDefault, NoDefault
    <2>5. DefaultRead(r)'
      BY <1>2, <1>3 DEF DefaultRead, At
    <2> QED BY <2>4, <2>5
  <1> QED BY <1>5, <1>6, <1>7, <1>8, <1>9

LEMMA EnqueueKeeps ==
  ASSUME LibraryInv, NEW r \in Request, Enqueue(r)
  PROVE  LibraryInv'
  <1> USE DEF LibraryInv
  <1> PICK x : x = req[r].resume
    OBVIOUS
  <1>0. /\ At(r, "enqueue") /\ queue' = [queue EXCEPT ![x] = MaxAttempts] /\ Answered(r)
        /\ UNCHANGED <<row, parsed, file, exported, late, worker, calls, faults, stranded, reverted, overlapped>>
    BY DEF Enqueue, tables, books, bounds, history
  <1>1. ~At(r, "idle") /\ x \in Resume
    BY <1>0, RequestSorts DEF At
  <1>2. req' \in [Request -> Busy \cup {Idle}] /\ OthersWait(r) /\ req'[r].pc = "idle"
    BY <1>0, IsAnswered DEF OthersWait
  <1>3. /\ queue' \in [Resume -> 0..MaxAttempts] /\ queue'[x] > 0
        /\ \A y \in Resume : y # x => queue'[y] = queue[y]
    BY <1>0, <1>1, LibraryAssumption DEF TypeOK
  <1>5. TypeOK'
    BY <1>0, <1>2, <1>3 DEF TypeOK
  <1>6. ParsedInv'
    BY <1>0, <1>2, ParsedStep DEF ParsedInv, SuccessIsReadable, LiveRow, EntityRead, At
  <1>7. WaitingInv'
    <2>1. \A y \in Resume : Waiting(y)' => Waiting(y)
      BY <1>0 DEF Waiting, LiveRow
    <2>2. \A y \in Resume : queue[y] > 0 => queue'[y] > 0
      BY <1>3
    <2>3. Scheduled(x)'
      BY <1>3 DEF Scheduled
    <2> QED BY <1>0, <1>2, <2>1, <2>2, <2>3, WaitingStep
  <1>8. FilesInv'
    <2>1. row[x].state # "none" /\ ~Fresh(r)' /\ ~At(r, "commit")' /\ At(r, "idle")'
      BY <1>0, <1>2 DEF FilesInv, FreshRows, FileKept, Fresh, At
    <2>2. FreshRows'
      BY <1>0, <1>1, <1>2, <1>5, <2>1, FilesStep
    <2>3. ListedResumesHaveFiles'
      BY <1>0, <1>2 DEF FilesInv, ListedResumesHaveFiles, LiveRow, OthersWait, At
    <2> QED BY <2>2, <2>3 DEF FilesInv
  <1>9. DefaultsInv'
    BY <1>0, <1>1, <1>2, DefaultsAlone, DefaultsStep DEF OneDefault, Default, LiveRow, DefaultRead, At
  <1> QED BY <1>5, <1>6, <1>7, <1>8, <1>9

LEMMA DeleteFileKeeps ==
  ASSUME LibraryInv, NEW r \in Request, DeleteFile(r)
  PROVE  LibraryInv'
  <1> USE DEF LibraryInv
  <1> PICK x : x = req[r].resume
    OBVIOUS
  <1>0. /\ At(r, "deleteFile") /\ file' = file \ {x} /\ GoTo(r, "deleteRow")
        /\ UNCHANGED <<row, parsed, exported, queue, late, worker, calls, faults, stranded, reverted, overlapped>>
    BY DEF DeleteFile, jobs, books, bounds, history
  <1>1. ~At(r, "idle") /\ x \in Resume
    BY <1>0, RequestSorts DEF At
  <1>2. /\ req' \in [Request -> Busy \cup {Idle}] /\ OthersWait(r)
        /\ req'[r].pc = "deleteRow" /\ req'[r].resume = x /\ req'[r].entity = req[r].entity
    BY <1>0, <1>1, GoesTo DEF OthersWait
  <1>3. row[x].state # "none" /\ EntityRead(r)
    BY <1>0 DEF FilesInv, FreshRows, FileKept, Fresh, At, ParsedInv, EntitiesRead
  <1>5. TypeOK'
    BY <1>0, <1>2 DEF TypeOK
  <1>6. ParsedInv'
    BY <1>0, <1>1, <1>2, <1>3, ParsedStep DEF ParsedInv, SuccessIsReadable, LiveRow, EntityRead, At
  <1>7. WaitingInv'
    BY <1>0, <1>2, WaitingStep DEF Waiting, LiveRow, At
  <1>8. FilesInv'
    <2>1. ~Fresh(r)' /\ ~At(r, "commit")'
      BY <1>2 DEF Fresh, At
    <2>2. FreshRows'
      BY <1>0, <1>1, <1>2, <1>3, <1>5, <2>1, FilesStep
    <2>3. ListedResumesHaveFiles'
      BY <1>0, <1>2 DEF FilesInv, ListedResumesHaveFiles, LiveRow, OthersWait, At
    <2> QED BY <2>2, <2>3 DEF FilesInv
  <1>9. DefaultsInv'
    BY <1>0, <1>1, <1>2, DefaultsAlone, DefaultsStep DEF OneDefault, Default, LiveRow, DefaultRead, At
  <1> QED BY <1>5, <1>6, <1>7, <1>8, <1>9

\* A row is marked as deleted, and forgotten: by a deletion, or by an export for the one before it.
LEMMA DeleteRowKeeps ==
  ASSUME LibraryInv, NEW r \in Request, DeleteRow(r)
  PROVE  LibraryInv'
  <1> USE DEF LibraryInv
  <1> PICK x : x = req[r].resume
    OBVIOUS
  <1>0. /\ At(r, "deleteRow") /\ row' = [row EXCEPT ![x] = Deleted] /\ Answered(r)
        /\ stranded' = stranded \ {x} /\ reverted' = reverted \ {x}
        /\ UNCHANGED <<parsed, file, exported, queue, late, worker, calls, faults, overlapped>>
    BY DEF DeleteRow, Forget, jobs, bounds
  <1>1. ~At(r, "idle") /\ x \in Resume
    BY <1>0, RequestSorts DEF At
  <1>2. req' \in [Request -> Busy \cup {Idle}] /\ OthersWait(r) /\ req'[r].pc = "idle"
    BY <1>0, IsAnswered DEF OthersWait
  <1>3. /\ row' \in [Resume -> {NoRow, Deleted} \cup LiveRows] /\ row'[x].state = "deleted"
        /\ \A y \in Resume : y # x => row'[y] = row[y]
    BY <1>0, <1>1, Sorts DEF TypeOK
  <1>5. TypeOK'
    BY <1>0, <1>2, <1>3 DEF TypeOK
  <1>6. ParsedInv'
    BY <1>0, <1>2, <1>3, ParsedStep DEF ParsedInv, SuccessIsReadable, LiveRow, EntityRead, At
  <1>7. WaitingInv'
    <2>1. \A y \in Resume : Waiting(y)' => Waiting(y)
      BY <1>0, <1>3 DEF Waiting, LiveRow
    <2> QED BY <1>0, <1>2, <2>1, WaitingStep DEF At
  <1>8. FilesInv'
    <2>1. ~Fresh(r)' /\ ~At(r, "commit")' /\ At(r, "idle")' /\ row[x].state # "none"
      BY <1>0, <1>2 DEF Fresh, At, FilesInv, FreshRows, FileKept
    <2>2. FreshRows'
      BY <1>0, <1>1, <1>2, <1>3, <1>5, <2>1, FilesStep
    <2>3. ListedResumesHaveFiles'
      BY <1>0, <1>2, <1>3 DEF FilesInv, ListedResumesHaveFiles, LiveRow, OthersWait, At
    <2> QED BY <2>2, <2>3 DEF FilesInv
  <1>9. DefaultsInv'
    <2> SUFFICES ASSUME ~overlapped PROVE OneDefault' /\ DefaultRead(r)'
      BY <1>0, <1>1, <1>2, DefaultsStep
    <2>1. \A y \in Resume : Default(y)' => Default(y)
      BY <1>3 DEF Default, LiveRow
    <2> QED BY <1>1, <1>2, <2>1, DefaultsAlone DEF OneDefault, DefaultRead, At
  <1> QED BY <1>5, <1>6, <1>7, <1>8, <1>9

LEMMA CommitExportKeeps ==
  ASSUME LibraryInv, NEW r \in Request, CommitExport(r)
  PROVE  LibraryInv'
  <1> USE DEF LibraryInv
  <1> PICK x, z, e : x = req[r].resume /\ z = req[r].current /\ e = [default |-> FALSE, status |-> "SUCCESS"]
    OBVIOUS
  <1>0. /\ At(r, "commit") /\ Answered(r) /\ parsed' = parsed \cup {x} /\ exported' = x
        /\ row' = [y \in Resume |-> CASE y = x -> Written(e) [] y = z -> Deleted [] OTHER -> row[y]]
        /\ stranded' = stranded \ {z} /\ reverted' = reverted \ {z}
        /\ UNCHANGED <<file, queue, late, worker, calls, faults, overlapped>>
    BY DEF CommitExport, Forget, jobs, bounds
  <1>1. ~At(r, "idle") /\ x \in Resume /\ z \in Resume \cup {NoResume}
    BY <1>0, RequestSorts DEF At
  <1>2. req' \in [Request -> Busy \cup {Idle}] /\ OthersWait(r) /\ req'[r].pc = "idle"
    BY <1>0, IsAnswered DEF OthersWait
  <1>4. x \in file /\ row[x].state = "none" /\ (z # NoResume => row[z].state # "none")
    BY <1>0 DEF FilesInv, FreshRows, FileKept, Fresh, At
  <1>x. x # z
    BY <1>1, <1>4, LibraryAssumption
  <1>3. /\ row' \in [Resume -> {NoRow, Deleted} \cup LiveRows]
        /\ row'[x].state = "live" /\ row'[x].status = "SUCCESS" /\ row'[x].default = FALSE
        /\ z \in Resume /\ z # x => row'[z].state = "deleted"
        /\ \A y \in Resume : y # x /\ y # z => row'[y] = row[y]
    <2>1. /\ Written(e) \in LiveRows /\ Written(e).state = "live" /\ Written(e).status = "SUCCESS"
          /\ Written(e).default = FALSE
      BY DEF Written, LiveRows, Status
    <2>2. row'[x] = Written(e)
      BY <1>0, <1>1, <1>x
    <2>3. z \in Resume /\ z # x => row'[z] = Deleted
      BY <1>0, <1>x
    <2>4. \A y \in Resume : y # x /\ y # z => row'[y] = row[y]
      BY <1>0
    <2>5. row' \in [Resume -> {NoRow, Deleted} \cup LiveRows]
      <3>1. \A y \in Resume : row'[y] \in {NoRow, Deleted} \cup LiveRows
        BY <2>1, <2>2, <2>3, <2>4 DEF TypeOK
      <3> QED BY <1>0, <3>1
    <2> HIDE DEF Written
    <2> QED BY <2>1, <2>2, <2>3, <2>4, <2>5, Sorts
  <1>5. TypeOK'
    BY <1>0, <1>1, <1>2, <1>3 DEF TypeOK
  <1>6. ParsedInv'
    <2>1. SuccessIsReadable'
      BY <1>0, <1>3 DEF ParsedInv, SuccessIsReadable, LiveRow
    <2>2. EntityRead(r)'
      BY <1>2 DEF EntityRead, At
    <2> QED BY <1>0, <1>2, <2>1, <2>2, ParsedStep
  <1>7. WaitingInv'
    <2>1. \A y \in Resume : Waiting(y)' => Waiting(y)
      BY <1>0, <1>3 DEF Waiting, LiveRow
    <2> QED BY <1>0, <1>2, <2>1, WaitingStep DEF At
  <1>8. FilesInv'
    <2>0. Fresh(r) /\ ~Fresh(r)' /\ ~At(r, "commit")' /\ At(r, "idle")'
      BY <1>0, <1>2 DEF Fresh, At
    <2>a. \A y \in Resume : row[y].state # "none" => row'[y].state # "none"
      BY <1>3
    <2>b. \A y \in Resume : row[y].state = "none" /\ row'[y].state # "none" => y = x
      BY <1>3, <1>4, LibraryAssumption
    <2>c. row'[exported'].state # "none"
      BY <1>0, <1>3
    <2>1. FreshRows'
      BY <1>0, <1>1, <1>2, <1>5, <2>0, <2>a, <2>b, <2>c, FilesStep
    <2>2. ListedResumesHaveFiles'
      BY <1>0, <1>2, <1>3, <1>4 DEF FilesInv, ListedResumesHaveFiles, LiveRow, OthersWait, At
    <2> QED BY <2>1, <2>2 DEF FilesInv
  <1>9. DefaultsInv'
    <2> SUFFICES ASSUME ~overlapped PROVE OneDefault' /\ DefaultRead(r)'
      BY <1>0, <1>1, <1>2, DefaultsStep
    <2>1. ~Default(x)'
      BY <1>3 DEF Default
    <2>2. \A y \in Resume : y # x => (Default(y)' => Default(y))
      BY <1>3 DEF Default, LiveRow
    <2> QED BY <1>1, <1>2, <2>1, <2>2, DefaultsAlone DEF OneDefault, DefaultRead, At
  <1> QED BY <1>5, <1>6, <1>7, <1>8, <1>9

-----------------------------------------------------------------------------
(* The steps of a worker, and of a late add. *)

\* What a worker's step has to do: it marks rows and files nothing, and no job it drops is missed.
LEMMA WorkerStep ==
  ASSUME LibraryInv, TypeOK', UNCHANGED <<file, exported, req, reverted, overlapped>>,
         parsed \subseteq parsed', stranded \subseteq stranded',
         \A x \in Resume : row'[x].state = row[x].state /\ (LiveRow(x) => row'[x].default = row[x].default),
         SuccessIsReadable', WorkersParsed',
         \A x \in Resume : Waiting(x)' /\ ~Scheduled(x)' => Waiting(x) /\ ~Scheduled(x)
  PROVE  LibraryInv'
  <1> USE DEF LibraryInv
  <1>0. \A r \in Request : ~At(r, "idle") => req[r].resume \in Resume
    BY RequestSorts
  <1>1. ParsedInv'
    BY DEF ParsedInv, EntitiesRead, EntityRead, At
  <1>2. WaitingInv'
    BY DEF WaitingInv
  <1>3. FilesInv'
    <2>1. FreshRows'
      <3>1. \A r \in Request : ~At(r, "idle") => req[r].current \in Resume \cup {NoResume}
        BY RequestSorts
      <3>2. ASSUME NEW r \in Request PROVE FileKept(r)'
        BY <1>0, <3>1 DEF FilesInv, FreshRows, FileKept, Fresh, At
      <3>3. exported' # NoResume => row'[exported'].state # "none"
        BY DEF FilesInv, FreshRows, TypeOK
      <3>4. \A r, q \in Request : Fresh(r)' /\ Fresh(q)' /\ req'[r].resume = req'[q].resume => r = q
        BY DEF FilesInv, FreshRows, Fresh
      <3> QED BY <3>2, <3>3, <3>4 DEF FreshRows
    <2>2. ListedResumesHaveFiles'
      BY DEF FilesInv, ListedResumesHaveFiles, LiveRow, At
    <2> QED BY <2>1, <2>2 DEF FilesInv
  <1>4. DefaultsInv'
    <2> SUFFICES ASSUME ~overlapped PROVE DefaultsInv'
      BY DEF DefaultsInv
    <2>1. \A x \in Resume : (LiveRow(x)' <=> LiveRow(x)) /\ (Default(x)' <=> Default(x))
      BY DEF Default, LiveRow
    <2>2. ASSUME NEW r \in Request PROVE DefaultRead(r)'
      <3>1. DefaultRead(r)
        BY DEF DefaultsInv
      <3>2. At(r, "unset") => req[r].current \in Resume
        BY DEF ParsedInv, EntitiesRead, EntityRead, At
      <3>3. NoDefault' <=> NoDefault
        BY <2>1 DEF NoDefault
      <3>4. At(r, "unset") => Default(req[r].current)'
        <4> SUFFICES ASSUME At(r, "unset") PROVE Default(req[r].current)'
          OBVIOUS
        <4> PICK y \in Resume : y = req[r].current
          BY <3>2
        <4>1. Default(y)'
          BY <2>1, <3>1 DEF DefaultRead
        <4> QED BY <4>1 DEF Default, LiveRow
      <3>5. req[r].pc \in {"enqueue", "giveUp", "score"} /\ LiveRow(req[r].resume)' =>
              row'[req[r].resume].default = req[r].entity.default
        BY <1>0, <3>1 DEF DefaultRead, LiveRow, At
      <3> QED BY <3>1, <3>3, <3>4, <3>5 DEF DefaultRead, At
    <2> QED BY <2>1, <2>2 DEF DefaultsInv, OneDefault, At
  <1> QED BY <1>1, <1>2, <1>3, <1>4

LEMMA LateAddKeeps ==
  ASSUME LibraryInv, NEW x \in Resume, LateAdd(x)
  PROVE  LibraryInv'
  <1> USE DEF LibraryInv
  <1>0. /\ late' = late \ {x} /\ queue' = [queue EXCEPT ![x] = MaxAttempts]
        /\ UNCHANGED <<row, parsed, file, exported, worker, req, calls, faults, stranded, reverted, overlapped>>
    BY DEF LateAdd, tables, books, bounds, history
  <1>1. /\ queue' \in [Resume -> 0..MaxAttempts] /\ queue'[x] > 0
        /\ \A y \in Resume : y # x => queue'[y] = queue[y]
    BY <1>0, LibraryAssumption DEF TypeOK
  <1>2. TypeOK'
    BY <1>0, <1>1 DEF TypeOK
  <1>3. SuccessIsReadable' /\ WorkersParsed'
    BY <1>0 DEF ParsedInv, SuccessIsReadable, LiveRow, WorkersParsed
  <1>4. \A y \in Resume : Waiting(y)' /\ ~Scheduled(y)' => Waiting(y) /\ ~Scheduled(y)
    BY <1>0, <1>1 DEF Waiting, LiveRow, Scheduled, Working
  <1> QED BY <1>0, <1>2, <1>3, <1>4, WorkerStep

LEMMA TakeKeeps ==
  ASSUME LibraryInv, NEW w \in Worker, Take(w)
  PROVE  LibraryInv'
  <1> USE DEF LibraryInv
  <1>0. /\ UNCHANGED <<row, parsed, file, exported, late, req, calls, faults, stranded, reverted, overlapped>>
        /\ Doing(w, "rest") /\ queue' \in [Resume -> 0..MaxAttempts] /\ worker' \in [Worker -> Job \cup {Rest}]
        /\ \A v \in Worker : v # w => worker'[v] = worker[v]
    BY WorkerTakes DEF tables, books, bounds, history
  <1> PICK x \in Resume :
        /\ queue'[x] = 0 /\ \A y \in Resume : y # x => queue'[y] = queue[y]
        /\ IF ~LiveRow(x) THEN worker' = worker
           ELSE worker'[w].pc = "processing" /\ worker'[w].resume = x
    BY WorkerTakes
  <1>2. TypeOK'
    BY <1>0 DEF TypeOK
  <1>3. SuccessIsReadable' /\ WorkersParsed'
    BY <1>0 DEF ParsedInv, SuccessIsReadable, LiveRow, WorkersParsed, Doing
  <1>4. \A y \in Resume : Waiting(y)' /\ ~Scheduled(y)' => Waiting(y) /\ ~Scheduled(y)
    <2> SUFFICES ASSUME NEW y \in Resume, Waiting(y)', ~Scheduled(y)' PROVE Waiting(y) /\ ~Scheduled(y)
      OBVIOUS
    <2>1. Waiting(y)
      BY <1>0 DEF Waiting, LiveRow
    <2>2. y # x
      <3> SUFFICES ASSUME y = x PROVE FALSE
        OBVIOUS
      <3>1. worker'[w].pc = "processing" /\ worker'[w].resume = x
        BY <2>1 DEF Waiting
      <3> QED BY <3>1 DEF Scheduled, Working
    <2>3. \A v \in Worker : Working(v) /\ worker[v].resume = y => worker'[v] = worker[v]
      BY <1>0 DEF Working, Doing
    <2>4. ~Scheduled(y)
      BY <1>0, <2>2, <2>3 DEF Scheduled, Working
    <2> QED BY <2>1, <2>4
  <1> QED BY <1>0, <1>2, <1>3, <1>4, WorkerStep

LEMMA StallKeeps ==
  ASSUME LibraryInv, NEW w \in Worker, Stall(w)
  PROVE  LibraryInv'
  <1> USE DEF LibraryInv
  <1> PICK x, n : x = worker[w].resume /\ n = worker[w].left
    OBVIOUS
  <1>0. /\ ~Doing(w, "rest") /\ Done(w) /\ queue' = [queue EXCEPT ![x] = n]
        /\ stranded' = IF n = 0 THEN stranded \cup {x} ELSE stranded
        /\ faults' = faults + 1
        /\ UNCHANGED <<row, parsed, file, exported, late, req, calls, reverted, overlapped>>
    BY DEF Stall, Fault, tables
  <1>1. x \in Resume /\ n \in 0..MaxAttempts
    BY <1>0, WorkerSorts DEF Doing
  <1>2. worker' \in [Worker -> Job \cup {Rest}] /\ worker'[w].pc = "rest" /\ \A v \in Worker : v # w => worker'[v] = worker[v]
    BY <1>0, WorkerRests
  <1>3. /\ queue' \in [Resume -> 0..MaxAttempts] /\ queue'[x] = n
        /\ \A y \in Resume : y # x => queue'[y] = queue[y]
    BY <1>0, <1>1 DEF TypeOK
  <1>4. TypeOK'
    BY <1>0, <1>1, <1>2, <1>3 DEF TypeOK
  <1>5. SuccessIsReadable' /\ WorkersParsed'
    BY <1>0, <1>2 DEF ParsedInv, SuccessIsReadable, LiveRow, WorkersParsed
  <1>6. \A y \in Resume : Waiting(y)' /\ ~Scheduled(y)' => Waiting(y) /\ ~Scheduled(y)
    <2> SUFFICES ASSUME NEW y \in Resume, Waiting(y)', ~Scheduled(y)' PROVE Waiting(y) /\ ~Scheduled(y)
      OBVIOUS
    <2>1. Waiting(y)
      BY <1>0 DEF Waiting, LiveRow
    <2>2. y # x
      BY <1>0, <1>1, <1>3, LibraryAssumption DEF Waiting, Scheduled
    <2>3. \A v \in Worker : worker[v].resume = y => worker'[v] = worker[v]
      BY <1>2, <2>2
    <2>4. ~Scheduled(y)
      BY <1>0, <1>3, <2>2, <2>3 DEF Scheduled, Working
    <2> QED BY <2>1, <2>4
  <1> QED BY <1>0, <1>4, <1>5, <1>6, WorkerStep

\* The steps that change no row of Resume: of a job that goes on.
LEMMA JobGoesOn ==
  ASSUME LibraryInv, NEW w \in Worker, Download(w) \/ Parse(w) \/ Publish(w) \/ ParseFails(w)
  PROVE  LibraryInv'
  <1> USE DEF LibraryInv
  <1>0. /\ UNCHANGED <<row, file, exported, queue, late, req, calls, stranded, reverted, overlapped>>
        /\ parsed' = parsed \/ parsed' = parsed \cup {worker[w].resume}
        /\ faults' = faults \/ faults' = faults + 1
        /\ worker[w].pc # "rest"
    BY DEF Download, Parse, Publish, ParseFails, Fault, tables, books, bounds, history, Doing
  <1>1. worker[w].resume \in Resume
    BY <1>0, WorkerSorts
  <1>2. /\ worker' \in [Worker -> Job \cup {Rest}] /\ \A v \in Worker : v # w => worker'[v] = worker[v]
        /\ \/ worker'[w].pc \in {"parse", "fail"} /\ worker'[w].resume = worker[w].resume
           \/ worker'[w].pc = "succeed" /\ worker'[w].resume = worker[w].resume /\ worker[w].resume \in parsed'
           \/ worker[w].pc = "publish" /\ worker'[w].pc = "rest"
    <2>1. CASE Download(w)
      BY <1>0, <2>1, WorkerGoes DEF Download
    <2>2. CASE Parse(w)
      BY <1>0, <2>2, WorkerGoes DEF Parse
    <2>3. CASE Publish(w)
      BY <1>0, <2>3, WorkerRests DEF Publish, Doing
    <2>4. CASE ParseFails(w)
      BY <1>0, <2>4, WorkerGoes DEF ParseFails
    <2> QED BY <2>1, <2>2, <2>3, <2>4
  <1>4. TypeOK'
    BY <1>0, <1>1, <1>2 DEF TypeOK
  <1>5. SuccessIsReadable' /\ WorkersParsed'
    BY <1>0, <1>2 DEF ParsedInv, SuccessIsReadable, LiveRow, WorkersParsed
  <1>6. \A y \in Resume : Waiting(y)' /\ ~Scheduled(y)' => Waiting(y) /\ ~Scheduled(y)
    <2>1. \A v \in Worker : Working(v) => worker'[v].pc \notin {"rest", "publish"} /\ worker'[v].resume = worker[v].resume
      BY <1>2 DEF Working
    <2> QED BY <1>0, <2>1 DEF Waiting, LiveRow, Scheduled, Working
  <1>7. parsed \subseteq parsed'
    BY <1>0
  <1> QED BY <1>0, <1>4, <1>5, <1>6, <1>7, WorkerStep

\* The steps that mark the row.
LEMMA JobMarks ==
  ASSUME LibraryInv, NEW w \in Worker, Processing(w) \/ Succeed(w) \/ Fail(w)
  PROVE  LibraryInv'
  <1> USE DEF LibraryInv
  <1> PICK x : x = worker[w].resume
    OBVIOUS
  <1>0. /\ UNCHANGED <<parsed, file, exported, queue, late, req, calls, faults, stranded, reverted, overlapped>>
        /\ worker[w].pc # "rest"
    BY DEF Processing, Succeed, Fail, books, bounds, history, Doing
  <1>1. x \in Resume
    BY <1>0, WorkerSorts
  <1> PICK s \in Status :
        /\ SetStatus(w, s)
        /\ \/ s = "PROCESSING" /\ Proceed(w, "download")
           \/ s = "SUCCESS" /\ Proceed(w, "publish") /\ worker[w].pc = "succeed"
           \/ s = "FAILED" /\ Done(w)
    BY DEF Processing, Succeed, Fail, Doing, Status
  <1>2. /\ row' \in [Resume -> {NoRow, Deleted} \cup LiveRows]
        /\ \A y \in Resume : /\ row'[y].state = row[y].state
                             /\ LiveRow(y) => row'[y].default = row[y].default
                             /\ LiveRow(y) => row'[y].status = IF y = x THEN s ELSE row[y].status
    BY <1>0, StatusTypes
  <1>3. /\ worker' \in [Worker -> Job \cup {Rest}] /\ \A v \in Worker : v # w => worker'[v] = worker[v]
        /\ \/ s = "PROCESSING" /\ worker'[w].pc = "download" /\ worker'[w].resume = x
           \/ s = "SUCCESS" /\ worker'[w].pc = "publish" /\ worker'[w].resume = x /\ x \in parsed
           \/ s = "FAILED" /\ worker'[w].pc = "rest"
    BY <1>0, WorkerGoes, WorkerRests DEF ParsedInv, WorkersParsed
  <1>4. TypeOK'
    BY <1>0, <1>2, <1>3 DEF TypeOK
  <1>5. SuccessIsReadable' /\ WorkersParsed'
    BY <1>0, <1>2, <1>3 DEF ParsedInv, SuccessIsReadable, LiveRow, WorkersParsed
  <1>6. \A y \in Resume : Waiting(y)' /\ ~Scheduled(y)' => Waiting(y) /\ ~Scheduled(y)
    <2> SUFFICES ASSUME NEW y \in Resume, Waiting(y)', ~Scheduled(y)' PROVE Waiting(y) /\ ~Scheduled(y)
      OBVIOUS
    <2>1. y # x
      BY <1>2, <1>3 DEF Waiting, LiveRow, Scheduled, Working
    <2>2. Waiting(y)
      BY <1>0, <1>2, <2>1 DEF Waiting, LiveRow
    <2>3. \A v \in Worker : worker[v].resume = y => worker'[v] = worker[v]
      BY <1>3, <2>1
    <2>4. ~Scheduled(y)
      BY <1>0, <2>3 DEF Scheduled, Working
    <2> QED BY <2>2, <2>4
  <1> QED BY <1>0, <1>2, <1>4, <1>5, <1>6, WorkerStep

-----------------------------------------------------------------------------
(* The theorems. *)

LEMMA LibraryStart == Init => LibraryInv
  <1> SUFFICES ASSUME Init PROVE LibraryInv
    OBVIOUS
  <1>1. TypeOK
    <2>1. 0 \in 0..MaxAttempts /\ 0 \in Nat
      BY LibraryAssumption
    <2>2. queue \in [Resume -> 0..MaxAttempts]
      BY <2>1 DEF Init
    <2>3. /\ row \in [Resume -> {NoRow, Deleted} \cup LiveRows] /\ worker \in [Worker -> Job \cup {Rest}]
          /\ req \in [Request -> Busy \cup {Idle}]
      BY DEF Init
    <2> QED BY <2>1, <2>2, <2>3 DEF Init, TypeOK
  <1>2. /\ \A x \in Resume : row[x].state = "none"
        /\ \A w \in Worker : worker[w].pc = "rest"
        /\ \A r \in Request : req[r].pc = "idle"
    BY Sorts DEF Init
  <1>3. ParsedInv
    BY <1>2 DEF ParsedInv, SuccessIsReadable, LiveRow, EntitiesRead, EntityRead, At, WorkersParsed
  <1>4. WaitingInv
    BY <1>2 DEF WaitingInv, Waiting, LiveRow
  <1>5. FilesInv
    BY <1>2 DEF FilesInv, FreshRows, FileKept, Fresh, At, ListedResumesHaveFiles, LiveRow, Init
  <1>6. DefaultsInv
    BY <1>2 DEF DefaultsInv, OneDefault, Default, LiveRow, DefaultRead, At
  <1> QED BY <1>1, <1>3, <1>4, <1>5, <1>6 DEF LibraryInv

LEMMA LibraryNext == LibraryInv /\ [Next]_vars => LibraryInv'
  <1> SUFFICES ASSUME LibraryInv, [Next]_vars PROVE LibraryInv'
    OBVIOUS
  <1>1. ASSUME NEW r \in Request, Handle(r) PROVE LibraryInv'
    BY <1>1, ArrivalKeeps, EntitySaves, ReadsKeep, InsertKeeps, EnqueueKeeps, DeleteFileKeeps, DeleteRowKeeps,
       CommitExportKeeps DEF Handle, Arrival
  <1>2. ASSUME NEW w \in Worker, Process(w) PROVE LibraryInv'
    BY <1>2, TakeKeeps, StallKeeps, JobGoesOn, JobMarks DEF Process
  <1>3. ASSUME NEW x \in Resume, LateAdd(x) PROVE LibraryInv'
    BY <1>3, LateAddKeeps
  <1>4. CASE UNCHANGED vars
    <2>1. UNCHANGED <<file, exported, req, reverted, overlapped, row, parsed, queue, late, worker, calls, faults, stranded>>
      BY <1>4 DEF vars, tables, jobs, books, bounds, history
    <2>2. TypeOK' /\ SuccessIsReadable' /\ WorkersParsed'
      BY <2>1 DEF LibraryInv, TypeOK, ParsedInv, SuccessIsReadable, LiveRow, WorkersParsed
    <2>3. \A x \in Resume : Waiting(x)' /\ ~Scheduled(x)' => Waiting(x) /\ ~Scheduled(x)
      BY <2>1 DEF Waiting, LiveRow, Scheduled, Working
    <2> QED BY <2>1, <2>2, <2>3, WorkerStep
  <1> QED BY <1>1, <1>2, <1>3, <1>4 DEF Next

LEMMA LibraryHolds == Spec => []LibraryInv
  BY LibraryStart, LibraryNext, PTL DEF Spec

\* A resume that reads SUCCESS has its parsed data, whatever retries, stale saves and deletions it
\* has been through (SuccessIsReadable).
THEOREM ParsedIsReadable == Spec => []SuccessIsReadable
  BY LibraryHolds, PTL DEF LibraryInv, ParsedInv

\* A resume that waits for its parse has a job, or an upload about to add one or to say it could not
\* (PendingMeansScheduled).
THEOREM WaitingIsScheduled == Spec => []PendingMeansScheduled
  <1>1. LibraryInv => PendingMeansScheduled
    <2> SUFFICES ASSUME LibraryInv, NEW x \in Resume, Waiting(x)
                 PROVE  \/ queue[x] > 0
                        \/ \E w \in Worker : ~Doing(w, "rest") /\ worker[w].resume = x
                        \/ \E r \in Request : req[r].pc \in {"enqueue", "giveUp"} /\ req[r].resume = x
      BY DEF PendingMeansScheduled, Waiting
    <2>1. Scheduled(x)
      BY DEF LibraryInv, WaitingInv
    <2> QED BY <2>1 DEF Scheduled, Working, Doing
  <1> QED BY <1>1, LibraryHolds, PTL

\* A listed resume has its file until a deletion has taken it and is about to mark the row
\* (ListedResumesHaveFiles).
THEOREM ListedHaveFiles == Spec => []ListedResumesHaveFiles
  BY LibraryHolds, PTL DEF LibraryInv, FilesInv

\* Requests that follow each other never leave two defaults, whatever dies, times out or is parsed
\* meanwhile (SecondDefaultTakesAnOverlap).
THEOREM DefaultsTakeAnOverlap == Spec => []SecondDefaultTakesAnOverlap
  <1>1. LibraryInv => SecondDefaultTakesAnOverlap
    <2> SUFFICES ASSUME LibraryInv, ~overlapped PROVE Cardinality({x \in Resume : Default(x)}) <= 1
      BY DEF SecondDefaultTakesAnOverlap
    <2> DEFINE D == {x \in Resume : Default(x)}
    <2>1. \A x, y \in D : x = y
      BY DEF LibraryInv, DefaultsInv, OneDefault
    <2> HIDE DEF D
    <2>2. D = {} => Cardinality(D) <= 1
      BY FS_EmptySet
    <2>3. ASSUME D # {} PROVE Cardinality(D) <= 1
      <3>1. PICK x \in D : D = {x}
        BY <2>1, <2>3
      <3>2. Cardinality({x}) = 1
        BY FS_Singleton
      <3> QED BY <3>1, <3>2
    <2> QED BY <2>2, <2>3 DEF D
  <1> QED BY <1>1, LibraryHolds, PTL
=============================================================================
