---------------------------- MODULE HiringPipeline ----------------------------
(***************************************************************************)
(* The hiring pipeline: candidates apply and answer offers, employers move *)
(* cards and make offers, automatic screening moves new applications, and  *)
(* all of them write the same application and offer rows concurrently.     *)
(*                                                                         *)
(* The database is Postgres at READ COMMITTED.  A request keeps what its   *)
(* open transaction has written in a private write set; a row it has       *)
(* written is locked until it ends; it reads its own writes and otherwise  *)
(* what is committed.  What a handler reads before it opens a transaction  *)
(* decides the statements it will run (todo), exactly when it is read.     *)
(*                                                                         *)
(* An application stands for its (user, job) pair, which the schema keeps  *)
(* unique, and an offer and its thread for the application they hang from. *)
(*                                                                         *)
(* An operator named after another with a suffix, as Expire_Never, is a    *)
(* mutated form of it: no action uses it, the runs are shown to notice it. *)
(***************************************************************************)
EXTENDS Lifecycle, FiniteSets

CONSTANTS
  Apps,         \* applications that can exist
  Candidate,    \* the candidate of each application
  Opened,       \* applications that start with an offer on the table
  Req,          \* slots for requests in progress
  Traffic,      \* the endpoints that are called
  BoardTargets, \* statuses an employer asks for on the board
  PatchTargets, \* statuses a candidate asks for
  Terms,        \* compensation an offer can carry
  NoTerms,      \* leaves the compensation as it is
  MaxTrail,     \* no request starts on an application with this many moves
  MaxMessages   \* no message is started on a thread of this length

ASSUME OpenedAssumption  == Opened \subseteq Apps
ASSUME TermsAssumption   == NoTerms \notin Terms
ASSUME TargetsAssumption == BoardTargets \subseteq Status /\ PatchTargets \subseteq Status

VARIABLES
  app,     \* applications: status, audit trail, and whether screening was recorded
  opened,  \* applications whose SUBMITTED timeline event was recorded
  offer,   \* offers: status and compensation
  thread,  \* offer messages in the order they were committed
  req,     \* each request: its handler, where it stands, what it has read
  wapp, woffer, wmsg   \* the rows its open transaction has written

tables    == <<app, opened, offer, thread>>
writeSets == <<wapp, woffer, wmsg>>
vars      == <<tables, req, writeSets>>

-----------------------------------------------------------------------------
(* Rows. *)

None        == "NONE"
OfferStatus == {"EXTENDED", "NEGOTIATING", "ACCEPTED", "DECLINED", "WITHDRAWN"}
Author      == {"EMPLOYER", "CANDIDATE"}

AppRow   == [status : Status \cup {None}, trail : Seq(HistoryRow), screened : BOOLEAN]
OfferRow == [status : OfferStatus \cup {None}, terms : Terms \cup {NoTerms}]
Message  == [by : Author, read : BOOLEAN]

\* A missing row; in a write set, a row that has not been written.
NoApp   == [status |-> None, trail |-> <<>>, screened |-> FALSE]
NoOffer == [status |-> None, terms |-> NoTerms]

\* A new application: no transition yet, so nothing in the stage history.
Submitted == [status |-> "SUBMITTED", trail |-> <<>>, screened |-> FALSE]

\* An application that was screened and then made an offer.
AtOffer ==
  [status |-> "OFFER",
   trail  |-> <<[from |-> "SUBMITTED", to |-> "SCREENING", by |-> "SYSTEM"],
                [from |-> "SCREENING", to |-> "OFFER",     by |-> "EMPLOYER"]>>,
   screened |-> TRUE]

DECIDABLE == {"EXTENDED", "NEGOTIATING"}

-----------------------------------------------------------------------------
(* Statements a transaction runs. *)

Call == [op : {"offer", "message", "move", "sweep", "close"}, app : Apps,
         status : Status \cup OfferStatus \cup {None}, by : Actor,
         terms : Terms \cup {NoTerms}, rest : SUBSET Apps]
Stmt == {s \in Call : /\ s.op = "offer"   => s.status \in OfferStatus \cup {None}
                      /\ s.op = "message" => s.by \in Author}

\* Write the offer row; status None or NoTerms leaves that column alone.
PutOffer(a, status, t) ==
  [op |-> "offer", app |-> a, status |-> status, by |-> "SYSTEM", terms |-> t, rest |-> {}]
\* Insert a message.
Say(a, author) ==
  [op |-> "message", app |-> a, status |-> None, by |-> author, terms |-> NoTerms, rest |-> {}]
\* Call the transition service inside this transaction.
Move(a, to, actor) ==
  [op |-> "move", app |-> a, status |-> to, by |-> actor, terms |-> NoTerms, rest |-> {}]
\* Find the candidate's other live offers, then close those found one by one.
Sweep(a) ==
  [op |-> "sweep", app |-> a, status |-> None, by |-> "CANDIDATE", terms |-> NoTerms, rest |-> {}]
Close(a, found) ==
  [op |-> "close", app |-> a, status |-> None, by |-> "CANDIDATE", terms |-> NoTerms, rest |-> found]

-----------------------------------------------------------------------------
(* Requests. *)

Handler == {"submit", "screen", "updateStatus", "boardMove", "extendOffer",
            "updateOffer", "withdrawOffer", "postEmployerMessage",
            "getOfferForEmployer", "getMyOffer", "accept", "decline",
            "postCandidateMessage"}

Pc == {"idle", "insert", "timeline", "screen", "assess", "tx", "cas",
       "load", "mark", "respond"}

\* saw: the status last read for a later decision; loaded: messages read so far.
Request == {q \in [handler : Handler \cup {None}, pc : Pc, app : Apps \cup {None},
                   saw : Status \cup {None}, loaded : Nat, todo : Seq(Stmt)] :
              q.pc # "idle" => q.app \in Apps}

Idle == [handler |-> None, pc |-> "idle", app |-> None, saw |-> None,
         loaded |-> 0, todo |-> <<>>]

NothingWritten(r) ==
  /\ wapp'   = [wapp   EXCEPT ![r] = [a \in Apps |-> NoApp]]
  /\ woffer' = [woffer EXCEPT ![r] = [a \in Apps |-> NoOffer]]
  /\ wmsg'   = [wmsg   EXCEPT ![r] = [a \in Apps |-> <<>>]]

\* What r's transaction sees of a row.
AppSeenBy(r, a)   == IF wapp[r][a]   = NoApp   THEN app[a]   ELSE wapp[r][a]
OfferSeenBy(r, a) == IF woffer[r][a] = NoOffer THEN offer[a] ELSE woffer[r][a]

\* No other open transaction has written the row: r may write it now.
AppFree(r, a)   == \A q \in Req \ {r} : wapp[q][a]   = NoApp
OfferFree(r, a) == \A q \in Req \ {r} : woffer[q][a] = NoOffer

GoTo(r, pc) == req' = [req EXCEPT ![r].pc = pc]

\* The request ends; an open transaction is rolled back with it.
GiveUp(r) == req' = [req EXCEPT ![r] = Idle] /\ NothingWritten(r) /\ UNCHANGED tables

\* A request as it is taken on: nothing read yet.
Taken(handler, a, pc, todo) ==
  [handler |-> handler, pc |-> pc, app |-> a, saw |-> None, loaded |-> 0, todo |-> todo]

\* A request arrives at an existing application and starts working at pc.
Arrive(r, handler, a, pc, todo) ==
  /\ handler \in Traffic
  /\ req[r] = Idle
  /\ app[a].status # None
  /\ Len(app[a].trail) < MaxTrail
  /\ req' = [req EXCEPT ![r] = Taken(handler, a, pc, todo)]
  /\ UNCHANGED <<tables, writeSets>>

RoomToWrite(a) == Len(thread[a]) < MaxMessages

-----------------------------------------------------------------------------
(* Applying, and the automatic screening that follows. *)

\* findByUserAndJob found nothing; the row is created further down.
SubmitApplication(r, a) ==
  /\ "submit" \in Traffic
  /\ req[r] = Idle
  /\ app[a].status = None
  /\ req' = [req EXCEPT ![r] = Taken("submit", a, "insert", <<>>)]
  /\ UNCHANGED <<tables, writeSets>>

\* The unique (user, job) index refuses the second of two racing inserts.
InsertApplication(r) ==
  LET a == req[r].app IN
  /\ req[r].pc = "insert"
  /\ IF app[a].status = None
     THEN app' = [app EXCEPT ![a] = Submitted] /\ GoTo(r, "timeline")
     ELSE UNCHANGED app /\ req' = [req EXCEPT ![r] = Idle]
  /\ UNCHANGED <<opened, offer, thread, writeSets>>

\* A statement of its own; inserting into the timeline waits for no lock a move takes.
AddSubmittedEvent(r) ==
  /\ req[r].pc = "timeline"
  /\ opened' = opened \cup {req[r].app}
  /\ GoTo(r, "screen")
  /\ UNCHANGED <<app, offer, thread, writeSets>>

\* screen() reads the row once, before the matching calls it awaits.
ReadForScreening(r) ==
  LET a == req[r].app IN
  /\ req[r].pc = "screen"
  /\ req' = [req EXCEPT ![r] =
               IF app[a].screened THEN Idle
               ELSE [@ EXCEPT !.handler = "screen", !.pc = "assess", !.saw = app[a].status]]
  /\ UNCHANGED <<tables, writeSets>>

\* The snapshot is written unconditionally; the move is wanted if the OLD read said so.
RecordScreening(r) ==
  LET a == req[r].app IN
  /\ req[r].pc = "assess"
  /\ AppFree(r, a)
  /\ app' = [app EXCEPT ![a].screened = TRUE]
  /\ req' = [req EXCEPT ![r] =
               IF @.saw = "SUBMITTED"
               THEN [@ EXCEPT !.pc = "tx", !.todo = <<Move(a, "SCREENING", "SYSTEM")>>]
               ELSE Idle]
  /\ UNCHANGED <<opened, offer, thread, writeSets>>

-----------------------------------------------------------------------------
(* Direct status changes. *)

UpdateStatus(r, a, to) == Arrive(r, "updateStatus", a, "tx", <<Move(a, to, "CANDIDATE")>>)
BoardMove(r, a, to)    == Arrive(r, "boardMove",    a, "tx", <<Move(a, to, "EMPLOYER")>>)

-----------------------------------------------------------------------------
(* The employer's side of an offer. *)

\* The moves are chosen from the status read before the transaction began.
ExtendOffer(r, a, t, note) ==
  LET moves == CASE app[a].status = "OFFER"    -> <<>>
                 [] app[a].status = "REJECTED" -> <<Move(a, "SCREENING", "EMPLOYER"),
                                                    Move(a, "OFFER", "EMPLOYER")>>
                 [] OTHER                      -> <<Move(a, "OFFER", "EMPLOYER")>>
      words == IF note THEN <<Say(a, "EMPLOYER")>> ELSE <<>>
  IN  /\ note => RoomToWrite(a)
      /\ Arrive(r, "extendOffer", a, "tx", <<PutOffer(a, "EXTENDED", t)>> \o words \o moves)

\* The decidable check precedes the write and is not part of it.
UpdateOffer(r, a, t) ==
  /\ offer[a].status \in DECIDABLE
  /\ Arrive(r, "updateOffer", a, "tx", <<PutOffer(a, None, t)>>)

WithdrawOffer(r, a) ==
  /\ offer[a].status # None
  /\ Arrive(r, "withdrawOffer", a, "tx",
            <<PutOffer(a, "WITHDRAWN", NoTerms), Move(a, "REJECTED", "EMPLOYER")>>)

PostEmployerMessage(r, a) ==
  /\ offer[a].status # None /\ RoomToWrite(a)
  /\ Arrive(r, "postEmployerMessage", a, "tx", <<Say(a, "EMPLOYER")>>)

\* The employer's read marks the thread first and loads it afterwards.
GetOfferForEmployer(r, a) ==
  /\ offer[a].status # None
  /\ Arrive(r, "getOfferForEmployer", a, "mark", <<>>)

-----------------------------------------------------------------------------
(* The candidate's side of an offer. *)

\* assertActionable, on the rows loadOwnedOffer read.
assertActionable(a) == app[a].status \in ACCEPTABLE_FROM /\ offer[a].status \in DECIDABLE

GetMyOffer(r, a) ==
  /\ offer[a].status # None
  /\ Arrive(r, "getMyOffer", a, "load", <<>>)

Accept(r, a) ==
  /\ assertActionable(a)
  /\ Arrive(r, "accept", a, "tx",
            <<PutOffer(a, "ACCEPTED", NoTerms), Move(a, "ACCEPTED", "CANDIDATE"), Sweep(a)>>)

Decline_Unrecorded(r, a) ==
  /\ assertActionable(a)
  /\ Arrive(r, "decline", a, "tx", <<PutOffer(a, "DECLINED", NoTerms)>>)
Decline(r, a) ==
  /\ assertActionable(a)
  /\ Arrive(r, "decline", a, "tx",
            <<PutOffer(a, "DECLINED", NoTerms), Move(a, "WITHDRAWN", "CANDIDATE")>>)

\* Only a message on an offer not yet seen NEGOTIATING opens the negotiation.
PostCandidateMessage_Wordless(r, a) ==
  /\ assertActionable(a) /\ RoomToWrite(a)
  /\ Arrive(r, "postCandidateMessage", a, "tx",
            IF offer[a].status = "NEGOTIATING" THEN <<>>
            ELSE <<PutOffer(a, "NEGOTIATING", NoTerms), Move(a, "NEGOTIATING", "CANDIDATE")>>)
PostCandidateMessage(r, a) ==
  /\ assertActionable(a) /\ RoomToWrite(a)
  /\ Arrive(r, "postCandidateMessage", a, "tx",
            <<Say(a, "CANDIDATE")>> \o
            IF offer[a].status = "NEGOTIATING" THEN <<>>
            ELSE <<PutOffer(a, "NEGOTIATING", NoTerms), Move(a, "NEGOTIATING", "CANDIDATE")>>)

-----------------------------------------------------------------------------
(* Running a transaction, one statement at a time. *)

Running(r, op) == req[r].pc = "tx" /\ req[r].todo # <<>> /\ Head(req[r].todo).op = op

\* The request after the statement at the head of its list.
Advanced(r) == [req[r] EXCEPT !.pc = "tx", !.saw = None, !.todo = Tail(@)]

\* Update (or, for extendOffer, upsert) the offer row once nobody else holds it.
WriteOffer(r) ==
  LET s == Head(req[r].todo)
      o == OfferSeenBy(r, s.app)
  IN  /\ Running(r, "offer")
      /\ OfferFree(r, s.app)
      /\ woffer' = [woffer EXCEPT ![r][s.app] =
                      [status |-> IF s.status = None   THEN o.status ELSE s.status,
                       terms  |-> IF s.terms = NoTerms THEN o.terms  ELSE s.terms]]
      /\ req' = [req EXCEPT ![r] = Advanced(r)]
      /\ UNCHANGED <<tables, wapp, wmsg>>

WriteMessage(r) ==
  LET s == Head(req[r].todo) IN
  /\ Running(r, "message")
  /\ wmsg' = [wmsg EXCEPT ![r][s.app] = Append(@, s.by)]
  /\ req' = [req EXCEPT ![r] = Advanced(r)]
  /\ UNCHANGED <<tables, wapp, woffer>>

\* The transition service reads the status and refuses, undoing the transaction, or goes on.
CheckMove_Swallowed(r) ==
  LET s   == Head(req[r].todo)
      now == AppSeenBy(r, s.app).status
  IN  /\ Running(r, "move")
      /\ req' = [req EXCEPT ![r] = IF now # None /\ mayMove(s.by, now, s.status)
                                   THEN [@ EXCEPT !.pc = "cas", !.saw = now] ELSE Advanced(r)]
      /\ UNCHANGED <<tables, writeSets>>
CheckMove(r) ==
  LET s   == Head(req[r].todo)
      now == AppSeenBy(r, s.app).status
  IN  /\ Running(r, "move")
      /\ IF now # None /\ mayMove(s.by, now, s.status)
         THEN /\ req' = [req EXCEPT ![r].pc = "cas", ![r].saw = now]
              /\ UNCHANGED <<tables, writeSets>>
         ELSE GiveUp(r)

\* The row an application becomes when the move it was checked for is recorded.
Moved_Blank(row, from, to, actor) ==
  [row EXCEPT !.status = to, !.trail = Append(@, [from |-> None, to |-> to, by |-> actor])]
Moved(row, from, to, actor) ==
  [row EXCEPT !.status = to, !.trail = Append(@, [from |-> from, to |-> to, by |-> actor])]

\* UPDATE ... WHERE status = saw: it waits for the row and is evaluated on what it finds.
CompareAndSwap_Unconditional(r) ==
  LET s   == Head(req[r].todo)
      row == AppSeenBy(r, s.app)
  IN  /\ req[r].pc = "cas"
      /\ AppFree(r, s.app)
      /\ wapp' = [wapp EXCEPT ![r][s.app] = Moved(row, req[r].saw, s.status, s.by)]
      /\ req'  = [req EXCEPT ![r] = Advanced(r)]
      /\ UNCHANGED <<tables, woffer, wmsg>>
CompareAndSwap(r) ==
  LET s   == Head(req[r].todo)
      row == AppSeenBy(r, s.app)
  IN  /\ req[r].pc = "cas"
      /\ row.status = req[r].saw
      /\ AppFree(r, s.app)
      /\ wapp' = [wapp EXCEPT ![r][s.app] = Moved(row, req[r].saw, s.status, s.by)]
      /\ req'  = [req EXCEPT ![r] = Advanced(r)]
      /\ UNCHANGED <<tables, woffer, wmsg>>

\* No row matched: ConflictException.
LoseTheRace(r) ==
  /\ req[r].pc = "cas"
  /\ AppSeenBy(r, Head(req[r].todo).app).status # req[r].saw
  /\ GiveUp(r)

\* The candidate's other offers that are live and can still be closed.
OthersToClose_NotNegotiating(r, a) ==
  {b \in Apps \ {a} : /\ Candidate[b] = Candidate[a]
                      /\ OfferSeenBy(r, b).status = "EXTENDED"
                      /\ AppSeenBy(r, b).status \in WITHDRAWABLE_FROM}
OthersToClose(r, a) ==
  {b \in Apps \ {a} : /\ Candidate[b] = Candidate[a]
                      /\ OfferSeenBy(r, b).status \in DECIDABLE
                      /\ AppSeenBy(r, b).status \in WITHDRAWABLE_FROM}

FindOthers(r) ==
  LET a     == Head(req[r].todo).app
      found == OthersToClose(r, a)
  IN  /\ Running(r, "sweep")
      /\ req' = [req EXCEPT ![r].todo =
                   (IF found = {} THEN <<>> ELSE <<Close(a, found)>>) \o Tail(@)]
      /\ UNCHANGED <<tables, writeSets>>

\* findMany promises no order, so any of those found is next.
CloseAnother(r) ==
  LET s == Head(req[r].todo) IN
  /\ Running(r, "close")
  /\ \E b \in s.rest :
       req' = [req EXCEPT ![r].todo =
                 <<PutOffer(b, "WITHDRAWN", NoTerms), Move(b, "WITHDRAWN", "CANDIDATE")>>
                 \o (IF s.rest = {b} THEN <<>> ELSE <<Close(s.app, s.rest \ {b})>>)
                 \o Tail(@)]
  /\ UNCHANGED <<tables, writeSets>>

\* accept, decline and negotiate answer by calling getMyOffer; the others are done.
AfterCommit(r) ==
  IF req[r].handler \in {"accept", "decline", "postCandidateMessage"}
  THEN [req[r] EXCEPT !.pc = "load"]
  ELSE Idle

Unread(author) == [by |-> author, read |-> FALSE]

\* The messages r inserted become visible, unread.
ThreadAfter_Overwritten(r, a) ==
  IF wmsg[r][a] = <<>> THEN thread[a]
  ELSE [i \in DOMAIN wmsg[r][a] |-> Unread(wmsg[r][a][i])]
ThreadAfter(r, a) == thread[a] \o [i \in DOMAIN wmsg[r][a] |-> Unread(wmsg[r][a][i])]

Commit(r) ==
  /\ req[r].pc = "tx" /\ req[r].todo = <<>>
  /\ app'    = [a \in Apps |-> AppSeenBy(r, a)]
  /\ offer'  = [a \in Apps |-> OfferSeenBy(r, a)]
  /\ thread' = [a \in Apps |-> ThreadAfter(r, a)]
  /\ req' = [req EXCEPT ![r] = AfterCommit(r)]
  /\ NothingWritten(r)
  /\ UNCHANGED opened

-----------------------------------------------------------------------------
(* Reading an offer stamps the other party's messages as read. *)

LoadThread(r) ==
  /\ req[r].pc = "load"
  /\ req' = [req EXCEPT ![r].pc = "mark", ![r].loaded = Len(thread[req[r].app])]
  /\ UNCHANGED <<tables, writeSets>>

\* A message after someone opened the thread to read what author other wrote.
Stamped_Everyone(m, other) == [m EXCEPT !.read = TRUE]
Stamped(m, other) == IF m.by = other THEN [m EXCEPT !.read = TRUE] ELSE m

\* One UPDATE over whatever is unread NOW, in a statement of its own.
MarkThreadRead(r) ==
  LET a        == req[r].app
      employer == req[r].handler = "getOfferForEmployer"
      other    == IF employer THEN "CANDIDATE" ELSE "EMPLOYER"
  IN  /\ req[r].pc = "mark"
      /\ thread' = [thread EXCEPT ![a] = [i \in DOMAIN @ |-> Stamped(@[i], other)]]
      /\ req' = [req EXCEPT ![r] = IF employer THEN [@ EXCEPT !.pc = "respond"] ELSE Idle]
      /\ UNCHANGED <<app, opened, offer, writeSets>>

\* The employer's copy is loaded after the marks, so it holds every message marked.
RespondToEmployer(r) ==
  /\ req[r].pc = "respond"
  /\ req' = [req EXCEPT ![r] = Idle]
  /\ UNCHANGED <<tables, writeSets>>

-----------------------------------------------------------------------------
(* Failures. *)

\* Postgres breaks a deadlock, or Prisma's interactive transaction times out.
Expire_Never(r) == FALSE
Expire(r) == req[r].pc \in {"tx", "cas"} /\ GiveUp(r)

\* The process dies, or a statement outside a transaction throws.  What earlier
\* statements committed stays; nothing resumes the rest of the handler.
Die(r) == req[r].pc \notin {"idle", "tx", "cas"} /\ GiveUp(r)

-----------------------------------------------------------------------------
Init ==
  /\ app = [a \in Apps |-> IF a \in Opened THEN AtOffer ELSE NoApp]
  /\ opened = Opened
  /\ \E t \in Terms :
       offer = [a \in Apps |-> IF a \in Opened THEN [status |-> "EXTENDED", terms |-> t]
                               ELSE NoOffer]
  /\ thread = [a \in Apps |-> <<>>]
  /\ req    = [r \in Req |-> Idle]
  /\ wapp   = [r \in Req |-> [a \in Apps |-> NoApp]]
  /\ woffer = [r \in Req |-> [a \in Apps |-> NoOffer]]
  /\ wmsg   = [r \in Req |-> [a \in Apps |-> <<>>]]

\* A request arriving.
Arrival(r) ==
  \E a \in Apps :
    \/ SubmitApplication(r, a)
    \/ \E to \in PatchTargets : UpdateStatus(r, a, to)
    \/ \E to \in BoardTargets : BoardMove(r, a, to)
    \/ \E t \in Terms, note \in BOOLEAN : ExtendOffer(r, a, t, note)
    \/ \E t \in Terms : UpdateOffer(r, a, t)
    \/ WithdrawOffer(r, a)
    \/ PostEmployerMessage(r, a)
    \/ GetOfferForEmployer(r, a)
    \/ GetMyOffer(r, a)
    \/ Accept(r, a)
    \/ Decline(r, a)
    \/ PostCandidateMessage(r, a)

\* What the server does with a request it has taken.
Serve(r) ==
  \/ InsertApplication(r)
  \/ AddSubmittedEvent(r)
  \/ ReadForScreening(r)
  \/ RecordScreening(r)
  \/ WriteOffer(r)
  \/ WriteMessage(r)
  \/ CheckMove(r)
  \/ CompareAndSwap(r)
  \/ LoseTheRace(r)
  \/ FindOthers(r)
  \/ CloseAnother(r)
  \/ Commit(r)
  \/ LoadThread(r)
  \/ MarkThreadRead(r)
  \/ RespondToEmployer(r)
  \/ Expire(r)

Next == \E r \in Req : Arrival(r) \/ Serve(r) \/ Die(r)

Spec == Init /\ [][Next]_vars

\* The server keeps running the requests it has taken and ends blocked transactions;
\* nothing promises that anyone calls, or that a process dies.  A statement waiting for a row
\* is in Postgres's lock queue, so it is not passed over each time the row changes hands.
FairSpec == Spec /\ \A r \in Req : WF_vars(Serve(r)) /\ SF_vars(RecordScreening(r))

-----------------------------------------------------------------------------
(* What the pipeline promises. *)

TypeOK ==
  /\ app    \in [Apps -> AppRow]
  /\ opened \subseteq Apps
  /\ offer  \in [Apps -> OfferRow]
  /\ thread \in [Apps -> Seq(Message)]
  /\ req    \in [Req -> Request]
  /\ wapp   \in [Req -> [Apps -> AppRow]]
  /\ woffer \in [Req -> [Apps -> OfferRow]]
  /\ wmsg   \in [Req -> [Apps -> Seq(Author)]]

-----------------------------------------------------------------------------
(* Safety of the application row. *)

\* Whatever requests interleave, the audit trail of an application is a path of legal
\* moves, each by an actor entitled to it, from SUBMITTED to the status the row shows: no
\* move is lost, overwritten, or recorded from a status the row was not in (the
\* compare-and-swap of ApplicationTransitionService.apply).
TrailOK ==
  \A a \in Apps : app[a].status # None =>
    isTrail("SUBMITTED", app[a].trail, app[a].status)

\* A finished application stays as it is: an accepted or withdrawn one is not moved by a
\* request that had read an earlier status (the walk-away an employer must not undo).
FinishedIsFinal ==
  [][\A a \in Apps : app[a].status \in {"ACCEPTED", "WITHDRAWN"} =>
       app'[a].status = app[a].status]_vars

-----------------------------------------------------------------------------
(* The two rows of a decision. *)

\* The candidate's answers agree across the two tables: an offer reads ACCEPTED only on an
\* application that is ACCEPTED, and DECLINED only on one that is WITHDRAWN (accept and
\* decline write both rows in one transaction that the transition can refuse).
AnswersAgree ==
  \A a \in Apps :
    /\ offer[a].status = "ACCEPTED" => app[a].status = "ACCEPTED"
    /\ offer[a].status = "DECLINED" => app[a].status = "WITHDRAWN"

\* The move each change of an offer's status must be recorded as.
RecordedAs(status) ==
  CASE status = "ACCEPTED"    -> {<<"ACCEPTED", "CANDIDATE">>}
    [] status = "DECLINED"    -> {<<"WITHDRAWN", "CANDIDATE">>}
    [] status = "NEGOTIATING" -> {<<"NEGOTIATING", "CANDIDATE">>}
    [] status = "WITHDRAWN"   -> {<<"REJECTED", "EMPLOYER">>, <<"WITHDRAWN", "CANDIDATE">>}

\* An offer is answered, negotiated or rescinded in the same instant that the matching move
\* is appended to its application's trail, by the side whose decision it is: no observer sees
\* one without the other, and none happens without an audit row; and a negotiation opens with
\* what the candidate wrote (postCandidateMessage), or it would ask the employer for nothing.
DecisionsAreRecorded ==
  [][\A a \in Apps :
       (offer'[a].status # offer[a].status /\ offer'[a].status \in OfferStatus \ {"EXTENDED"})
       => /\ Len(app'[a].trail) = Len(app[a].trail) + 1
          /\ LET last == app'[a].trail[Len(app'[a].trail)]
             IN  <<last.to, last.by>> \in RecordedAs(offer'[a].status)
          /\ offer'[a].status = "NEGOTIATING" =>
               \E i \in DOMAIN thread'[a] : thread'[a][i].by = "CANDIDATE"]_vars

\* Of offers that were on the table together, a candidate ends up with at most one hire, and
\* once that hire commits none of the others can be answered any more, however accepts race
\* each other, a rescission, a rejection or a negotiation: the sweep in accept misses none,
\* although the rows it closes may be locked or already answered when it reaches them.  (Where
\* no offer is extended and no rejected application is taken back: either may come after.)
HireClosesTheRest ==
  \A a, b \in Apps :
    (a # b /\ Candidate[a] = Candidate[b] /\ offer[a].status = "ACCEPTED") =>
      offer[b].status # "ACCEPTED" /\ ~assertActionable(b)

-----------------------------------------------------------------------------
(* The thread of an offer. *)

\* Whatever transactions commit or roll back, a thread only gets longer, and a message that
\* has been read stays read.
ThreadOnlyGrows ==
  [][\A a \in Apps :
       /\ DOMAIN thread[a] \subseteq DOMAIN thread'[a]
       /\ \A i \in DOMAIN thread[a] :
            /\ thread'[a][i].by = thread[a][i].by
            /\ thread[a][i].read => thread'[a][i].read]_vars

\* Only the other side's reading marks a message: no author's own request, and no answer to
\* the author's own write (accept, decline and negotiate also read), stamps it.
ReadByTheOtherSide ==
  [][\A a \in Apps : \A i \in DOMAIN thread[a] :
       (~thread[a][i].read /\ thread'[a][i].read)
       => \E r \in Req : /\ req[r].pc = "mark" /\ req[r].app = a
                         /\ (thread[a][i].by = "CANDIDATE")
                              <=> (req[r].handler = "getOfferForEmployer")]_vars

-----------------------------------------------------------------------------
(* Progress. *)

\* Every request the server takes comes to an end, although requests wait for each other's
\* rows in both orders (two accepts by one candidate close each other's offers).
RequestsEnd == \A r \in Req : req[r].pc # "idle" ~> req[r].pc = "idle"

-----------------------------------------------------------------------------
(* Refinement. *)

\* What the abstract ledger sees of an application row.
Entry(row) == [status |-> row.status, trail |-> row.trail]

Ledger == INSTANCE ApplicationLedger WITH
            ledger <- [a \in Apps |-> Entry(app[a])],
            Start  <- [a \in Apps |-> IF a \in Opened THEN Entry(AtOffer) ELSE Entry(NoApp)]

\* The pipeline implements the ledger: with locks, stale reads, rollbacks and crashes hidden,
\* what is left is trails that grow by single legal moves, an atomic reopen-and-offer, and
\* hires that withdraw only the same candidate's applications.
ImplementsLedger == Ledger!Spec

-----------------------------------------------------------------------------
(* What a comment in the code says, and the code does not keep. *)

\* application-screening.service.ts says screening makes "Only ever SUBMITTED -> SCREENING;
\* anything further is the employer's call".
ScreeningOnlyFromSubmitted ==
  \A a \in Apps : \A i \in DOMAIN app[a].trail :
    app[a].trail[i].by = "SYSTEM" => app[a].trail[i].from = "SUBMITTED"
=============================================================================
