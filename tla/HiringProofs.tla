----------------------------- MODULE HiringProofs -----------------------------
(***************************************************************************)
(* Proofs about the hiring pipeline for any applications, candidates,      *)
(* requests, traffic and bounds: type correctness; safety of the           *)
(* application row, whose audit trail is a path of legal moves (TrailOK)   *)
(* and which is not moved once finished (FinishedIsFinal); safety of the   *)
(* thread of an offer, which only grows and where only the other side's    *)
(* reading stamps a message (ThreadOnlyGrows, ReadByTheOtherSide).         *)
(*                                                                         *)
(* Then what the pieces of an open transaction have to do with each other: *)
(* the statements still to run, the rows already written, and the          *)
(* committed rows underneath. And what follows: the two rows of a          *)
(* decision, which different statements write, are published together, the *)
(* pipeline implements the ledger of applications, and of offers that were *)
(* on the table together one at most becomes a hire.                       *)
(***************************************************************************)
EXTENDS HiringPipeline, SequenceTheorems, TLAPS

-----------------------------------------------------------------------------
(* The statements the handlers write are statements. *)

LEMMA StatementTypes ==
  ASSUME NEW a \in Apps
  PROVE  /\ \A st \in OfferStatus \cup {None}, t \in Terms \cup {NoTerms} : PutOffer(a, st, t) \in Stmt
         /\ \A who \in Author : Say(a, who) \in Stmt
         /\ \A to \in Status, who \in Actor : Move(a, to, who) \in Stmt
         /\ Sweep(a) \in Stmt
         /\ \A found \in SUBSET Apps : Close(a, found) \in Stmt
  BY DEF PutOffer, Say, Move, Sweep, Close, Stmt, Call, Author, Actor

LEMMA RowTypes ==
  /\ NoApp \in AppRow /\ Submitted \in AppRow /\ AtOffer \in AppRow
  /\ NoOffer \in OfferRow
  /\ Idle \in Request
  /\ \A who \in Author : Unread(who) \in Message
  <1>1. AtOffer.trail \in Seq(HistoryRow)
    BY DEF AtOffer, HistoryRow, Status, Actor
  <1>2. QED
    BY <1>1 DEF NoApp, Submitted, AtOffer, NoOffer, Idle, Unread, AppRow, OfferRow, Request,
              Message, Status, OfferStatus, None, Pc

LEMMA MoveTargets ==
  ASSUME NEW from \in Status, NEW to, NEW actor, mayMove(actor, from, to)
  PROVE  to \in Status
  BY DEF mayMove, isTransitionAllowed, TRANSITIONS, Status

LEMMA Seen ==
  ASSUME TypeOK, NEW r \in Req, NEW a \in Apps
  PROVE  AppSeenBy(r, a) \in AppRow /\ OfferSeenBy(r, a) \in OfferRow
  BY DEF TypeOK, AppSeenBy, OfferSeenBy

-----------------------------------------------------------------------------
(* Type correctness, with what a request between its two halves of a move knows. *)

\* Between the check and the compare-and-swap, the move at the head of the list has been
\* found legal from the status that was read.
CasReady ==
  \A r \in Req : req[r].pc = "cas" =>
    /\ req[r].todo # <<>>
    /\ req[r].saw \in Status
    /\ mayMove(Head(req[r].todo).by, req[r].saw, Head(req[r].todo).status)

TInv == TypeOK /\ CasReady

\* r changes and nothing else does: enough when r is not left in a compare-and-swap.
LEMMA OnlyRequestChanges ==
  ASSUME TInv, NEW r \in Req, NEW new \in Request, new.pc # "cas",
         req' = [req EXCEPT ![r] = new], UNCHANGED <<tables, writeSets>>
  PROVE  TInv'
  <1>1. TypeOK'
    BY DEF TInv, TypeOK, tables, writeSets
  <1>2. CasReady'
    <2> SUFFICES ASSUME NEW q \in Req, req'[q].pc = "cas"
                 PROVE  q # r /\ req'[q] = req[q]
      BY DEF TInv, CasReady
    <2> QED
      BY DEF TInv, TypeOK
  <1> QED
    BY <1>1, <1>2 DEF TInv

LEMMA ArriveKeeps ==
  ASSUME TInv, NEW r \in Req, NEW handler \in Handler, NEW a \in Apps,
         NEW pc \in {"tx", "load", "mark"}, NEW todo \in Seq(Stmt),
         Arrive(r, handler, a, pc, todo)
  PROVE  TInv'
  <1>1. Taken(handler, a, pc, todo) \in Request /\ Taken(handler, a, pc, todo).pc # "cas"
    BY DEF Taken, Request, Status, None, Pc
  <1> QED
    BY <1>1, OnlyRequestChanges DEF Arrive

LEMMA HandlerNames ==
  /\ "updateStatus" \in Handler /\ "boardMove" \in Handler /\ "extendOffer" \in Handler
  /\ "updateOffer" \in Handler /\ "withdrawOffer" \in Handler
  /\ "postEmployerMessage" \in Handler /\ "getOfferForEmployer" \in Handler
  /\ "getMyOffer" \in Handler /\ "accept" \in Handler /\ "decline" \in Handler
  /\ "postCandidateMessage" \in Handler
  /\ \A pc : pc = "tx" \/ pc = "load" \/ pc = "mark" => pc \in {"tx", "load", "mark"}
  BY DEF Handler

LEMMA GiveUpKeeps ==
  ASSUME TInv, NEW r \in Req, GiveUp(r)
  PROVE  TInv'
  <1>1. TypeOK'
    BY RowTypes DEF TInv, TypeOK, GiveUp, NothingWritten, tables
  <1>2. CasReady'
    BY DEF TInv, TypeOK, CasReady, GiveUp, Idle
  <1> QED
    BY <1>1, <1>2 DEF TInv

LEMMA ArrivalKeeps ==
  ASSUME TInv, NEW r \in Req, Arrival(r)
  PROVE  TInv'
  <1> PICK a \in Apps :
        \/ SubmitApplication(r, a)
        \/ \E to \in PatchTargets : UpdateStatus(r, a, to)
        \/ \E to \in BoardTargets : BoardMove(r, a, to)
        \/ \E t \in Terms, note \in BOOLEAN : ExtendOffer(r, a, t, note)
        \/ \E t \in Terms : UpdateOffer(r, a, t)
        \/ WithdrawOffer(r, a)
        \/ PostEmployerMessage(r, a)
        \/ GetOfferForEmployer(r, a)
        \/ GetMyOffer(r, a)
        \/ Accept(r, a)
        \/ Decline(r, a)
        \/ PostCandidateMessage(r, a)
    BY DEF Arrival
  <1>1. CASE SubmitApplication(r, a)
    <2>1. Taken("submit", a, "insert", <<>>) \in Request
      BY DEF Taken, Request, Status, None, Handler, Pc
    <2>2. Taken("submit", a, "insert", <<>>).pc # "cas"
      BY DEF Taken
    <2> QED
      BY <1>1, <2>1, <2>2, OnlyRequestChanges, Zenon DEF SubmitApplication
  <1>2. CASE \E to \in PatchTargets : UpdateStatus(r, a, to)
    <2>1. \A to \in PatchTargets : <<Move(a, to, "CANDIDATE")>> \in Seq(Stmt)
      BY TargetsAssumption, StatementTypes DEF Status, Actor, Author, OfferStatus
    <2> QED
      BY <1>2, <2>1, ArriveKeeps, HandlerNames, Zenon DEF UpdateStatus
  <1>3. CASE \E to \in BoardTargets : BoardMove(r, a, to)
    <2>1. \A to \in BoardTargets : <<Move(a, to, "EMPLOYER")>> \in Seq(Stmt)
      BY TargetsAssumption, StatementTypes DEF Status, Actor, Author, OfferStatus
    <2> QED
      BY <1>3, <2>1, ArriveKeeps, HandlerNames, Zenon DEF BoardMove
  <1>4. CASE \E t \in Terms, note \in BOOLEAN : ExtendOffer(r, a, t, note)
    <2> PICK t \in Terms, note \in BOOLEAN : ExtendOffer(r, a, t, note)
      BY <1>4
    <2> DEFINE moves == CASE app[a].status = "OFFER"    -> <<>>
                         [] app[a].status = "REJECTED" -> <<Move(a, "SCREENING", "EMPLOYER"),
                                                            Move(a, "OFFER", "EMPLOYER")>>
                         [] OTHER                      -> <<Move(a, "OFFER", "EMPLOYER")>>
               words == IF note THEN <<Say(a, "EMPLOYER")>> ELSE <<>>
               put   == <<PutOffer(a, "EXTENDED", t)>>
    <2>1. moves \in Seq(Stmt) /\ words \in Seq(Stmt) /\ put \in Seq(Stmt)
      BY StatementTypes DEF Status, Actor, Author, OfferStatus
    <2>2. put \o words \o moves \in Seq(Stmt)
      <3> HIDE DEF moves, words, put
      <3> QED BY <2>1
    <2>3. Arrive(r, "extendOffer", a, "tx", put \o words \o moves)
      BY DEF ExtendOffer
    <2> HIDE DEF moves, words, put
    <2> QED BY <2>2, <2>3, ArriveKeeps, HandlerNames, Zenon
  <1>5. CASE \E t \in Terms : UpdateOffer(r, a, t)
    <2>1. \A t \in Terms : <<PutOffer(a, None, t)>> \in Seq(Stmt)
      BY StatementTypes DEF Status, Actor, Author, OfferStatus
    <2> QED
      BY <1>5, <2>1, ArriveKeeps, HandlerNames, Zenon DEF UpdateOffer
  <1>6. CASE WithdrawOffer(r, a)
    <2>1. <<PutOffer(a, "WITHDRAWN", NoTerms), Move(a, "REJECTED", "EMPLOYER")>> \in Seq(Stmt)
      BY StatementTypes DEF Status, Actor, Author, OfferStatus
    <2> QED
      BY <1>6, <2>1, ArriveKeeps, HandlerNames, Zenon DEF WithdrawOffer
  <1>7. CASE PostEmployerMessage(r, a)
    <2>1. <<Say(a, "EMPLOYER")>> \in Seq(Stmt)
      BY StatementTypes DEF Status, Actor, Author, OfferStatus
    <2> QED
      BY <1>7, <2>1, ArriveKeeps, HandlerNames, Zenon DEF PostEmployerMessage
  <1>8. CASE GetOfferForEmployer(r, a)
    <2>1. <<>> \in Seq(Stmt)
      OBVIOUS
    <2> QED
      BY <1>8, <2>1, ArriveKeeps, HandlerNames, Zenon DEF GetOfferForEmployer
  <1>9. CASE GetMyOffer(r, a)
    <2>1. <<>> \in Seq(Stmt)
      OBVIOUS
    <2> QED
      BY <1>9, <2>1, ArriveKeeps, HandlerNames, Zenon DEF GetMyOffer
  <1>10. CASE Accept(r, a)
    <2>1. <<PutOffer(a, "ACCEPTED", NoTerms), Move(a, "ACCEPTED", "CANDIDATE"), Sweep(a)>>
            \in Seq(Stmt)
      BY StatementTypes DEF Status, Actor, Author, OfferStatus
    <2> QED
      BY <1>10, <2>1, ArriveKeeps, HandlerNames, Zenon DEF Accept
  <1>11. CASE Decline(r, a)
    <2>1. <<PutOffer(a, "DECLINED", NoTerms), Move(a, "WITHDRAWN", "CANDIDATE")>> \in Seq(Stmt)
      BY StatementTypes DEF Status, Actor, Author, OfferStatus
    <2> QED
      BY <1>11, <2>1, ArriveKeeps, HandlerNames, Zenon DEF Decline
  <1>12. CASE PostCandidateMessage(r, a)
    <2> DEFINE moves == IF offer[a].status = "NEGOTIATING" THEN <<>>
                        ELSE <<PutOffer(a, "NEGOTIATING", NoTerms),
                               Move(a, "NEGOTIATING", "CANDIDATE")>>
               words == <<Say(a, "CANDIDATE")>>
    <2>1. words \in Seq(Stmt) /\ moves \in Seq(Stmt)
      BY StatementTypes DEF Status, Actor, Author, OfferStatus
    <2>2. words \o moves \in Seq(Stmt)
      <3> HIDE DEF moves, words
      <3> QED BY <2>1
    <2>3. Arrive(r, "postCandidateMessage", a, "tx", words \o moves)
      BY <1>12 DEF PostCandidateMessage
    <2> HIDE DEF moves, words
    <2> QED BY <2>2, <2>3, ArriveKeeps, HandlerNames, Zenon
  <1> QED
    BY <1>1, <1>2, <1>3, <1>4, <1>5, <1>6, <1>7, <1>8, <1>9, <1>10, <1>11, <1>12

\* What a statement at the head of a list is, and what is left after it.
LEMMA HeadAndRest ==
  ASSUME TypeOK, NEW r \in Req, req[r].todo # <<>>
  PROVE  Head(req[r].todo) \in Stmt /\ Tail(req[r].todo) \in Seq(Stmt)
  BY DEF TypeOK, Request

LEMMA AdvancedType ==
  ASSUME TypeOK, NEW r \in Req, req[r].todo # <<>>, req[r].pc # "idle"
  PROVE  Advanced(r) \in Request /\ Advanced(r).pc = "tx"
  BY HeadAndRest DEF TypeOK, Request, Advanced, Pc

\* A step that only advances r, or leaves it outside a compare-and-swap, keeps CasReady.
LEMMA CasReadyStays ==
  ASSUME TInv, NEW r \in Req, NEW new, new.pc # "cas", req' = [req EXCEPT ![r] = new]
  PROVE  CasReady'
  <1> SUFFICES ASSUME NEW q \in Req, req'[q].pc = "cas"
               PROVE  q # r /\ req'[q] = req[q]
    BY DEF TInv, CasReady
  <1> QED
    BY DEF TInv, TypeOK

LEMMA SubmissionKeeps ==
  ASSUME TInv, NEW r \in Req,
         \/ InsertApplication(r) \/ AddSubmittedEvent(r)
         \/ ReadForScreening(r)  \/ RecordScreening(r)
  PROVE  TInv'
  <1>0. req[r] \in Request /\ req \in [Req -> Request] /\ TypeOK
    BY DEF TInv, TypeOK
  <1>1. CASE InsertApplication(r)
    <2>1. \E new \in Request : new.pc # "cas" /\ req' = [req EXCEPT ![r] = new]
      <3>1. [req[r] EXCEPT !.pc = "timeline"] \in Request
        BY <1>0, <1>1 DEF Request, Pc, InsertApplication
      <3> QED
        BY <1>0, <1>1, <3>1, RowTypes DEF InsertApplication, GoTo, Idle, Request
    <2>2. app' \in [Apps -> AppRow]
      BY <1>0, <1>1, RowTypes DEF InsertApplication, TypeOK
    <2>3. TypeOK'
      BY <1>0, <1>1, <2>1, <2>2 DEF InsertApplication, TypeOK, writeSets
    <2> QED BY <2>1, <2>3, CasReadyStays DEF TInv
  <1>2. CASE AddSubmittedEvent(r)
    <2> DEFINE new == [req[r] EXCEPT !.pc = "screen"]
    <2>1. new \in Request /\ new.pc = "screen" /\ req' = [req EXCEPT ![r] = new]
      BY <1>0, <1>2 DEF AddSubmittedEvent, GoTo, Request, Pc
    <2>2. req[r].app \in Apps
      BY <1>0, <1>2 DEF AddSubmittedEvent, Request
    <2>3. TypeOK'
      BY <1>0, <1>2, <2>1, <2>2 DEF AddSubmittedEvent, TypeOK, writeSets
    <2> QED BY <2>1, <2>3, CasReadyStays DEF TInv
  <1>3. CASE ReadForScreening(r)
    <2> DEFINE new == IF app[req[r].app].screened THEN Idle
                      ELSE [req[r] EXCEPT !.handler = "screen", !.pc = "assess",
                                          !.saw = app[req[r].app].status]
    <2>1. req[r].app \in Apps /\ app[req[r].app].status \in Status \cup {None}
      BY <1>0, <1>3 DEF ReadForScreening, Request, TypeOK, AppRow
    <2>2. new \in Request /\ new.pc # "cas"
      BY <1>0, <2>1, RowTypes DEF Request, Handler, Pc, Idle
    <2>3. req' = [req EXCEPT ![r] = new] /\ UNCHANGED <<tables, writeSets>>
      BY <1>3 DEF ReadForScreening
    <2> QED BY <2>2, <2>3, OnlyRequestChanges
  <1>4. CASE RecordScreening(r)
    <2> DEFINE todo == <<Move(req[r].app, "SCREENING", "SYSTEM")>>
               new  == IF req[r].saw = "SUBMITTED"
                       THEN [req[r] EXCEPT !.pc = "tx", !.todo = todo]
                       ELSE Idle
    <2>1. req[r].app \in Apps
      BY <1>0, <1>4 DEF RecordScreening, Request
    <2>2. todo \in Seq(Stmt)
      BY <2>1, StatementTypes DEF Status, Actor
    <2>3. new \in Request /\ new.pc # "cas"
      <3> HIDE DEF todo
      <3> QED BY <1>0, <2>1, <2>2, RowTypes DEF Request, Pc, Idle
    <2>4. req' = [req EXCEPT ![r] = new] /\ app' = [app EXCEPT ![req[r].app].screened = TRUE]
          /\ UNCHANGED <<opened, offer, thread, writeSets>>
      BY <1>4 DEF RecordScreening
    <2>5. app' \in [Apps -> AppRow]
      BY <1>0, <2>1, <2>4 DEF TypeOK, AppRow
    <2>6. TypeOK'
      <3> HIDE DEF new
      <3> QED BY <1>0, <2>3, <2>4, <2>5 DEF TypeOK, writeSets
    <2> QED
      <3> HIDE DEF new
      <3> QED BY <2>3, <2>4, <2>6, CasReadyStays DEF TInv
  <1> QED
    BY <1>1, <1>2, <1>3, <1>4

LEMMA StatementKeeps ==
  ASSUME TInv, NEW r \in Req,
         \/ WriteOffer(r) \/ WriteMessage(r) \/ CheckMove(r) \/ CompareAndSwap(r)
         \/ LoseTheRace(r) \/ FindOthers(r) \/ CloseAnother(r)
  PROVE  TInv'
  <1>0. req[r] \in Request /\ req \in [Req -> Request] /\ TypeOK
    BY DEF TInv, TypeOK
  <1> DEFINE s == Head(req[r].todo)
  <1>1. ASSUME req[r].todo # <<>>, req[r].pc # "idle"
        PROVE  /\ s \in Stmt /\ s.app \in Apps /\ s.by \in Actor /\ s.rest \subseteq Apps
               /\ Advanced(r) \in Request /\ Advanced(r).pc # "cas"
    BY <1>0, <1>1, HeadAndRest, AdvancedType DEF Stmt, Call
  <1>2. CASE WriteOffer(r)
    <2> DEFINE o == OfferSeenBy(r, s.app)
               new == [status |-> IF s.status = None   THEN o.status ELSE s.status,
                       terms  |-> IF s.terms = NoTerms THEN o.terms  ELSE s.terms]
    <2>1. req[r].todo # <<>> /\ req[r].pc # "idle" /\ s.op = "offer"
      BY <1>2 DEF WriteOffer, Running
    <2>2. new \in OfferRow
      BY <1>0, <1>1, <2>1, Seen DEF OfferRow, Stmt, Call
    <2>3. woffer' = [woffer EXCEPT ![r][s.app] = new] /\ req' = [req EXCEPT ![r] = Advanced(r)]
          /\ UNCHANGED <<tables, wapp, wmsg>>
      BY <1>2 DEF WriteOffer
    <2> HIDE DEF new
    <2>4. TypeOK'
      BY <1>0, <1>1, <2>1, <2>2, <2>3 DEF TypeOK, tables
    <2> QED BY <1>1, <2>1, <2>3, <2>4, CasReadyStays DEF TInv
  <1>3. CASE WriteMessage(r)
    <2>1. req[r].todo # <<>> /\ req[r].pc # "idle" /\ s.op = "message"
      BY <1>3 DEF WriteMessage, Running
    <2>2. s.by \in Author
      BY <1>1, <2>1 DEF Stmt
    <2>3. wmsg' = [wmsg EXCEPT ![r][s.app] = Append(@, s.by)]
          /\ req' = [req EXCEPT ![r] = Advanced(r)] /\ UNCHANGED <<tables, wapp, woffer>>
      BY <1>3 DEF WriteMessage
    <2>4. TypeOK'
      BY <1>0, <1>1, <2>1, <2>2, <2>3 DEF TypeOK, tables
    <2> QED BY <1>1, <2>1, <2>3, <2>4, CasReadyStays DEF TInv
  <1>4. CASE CheckMove(r)
    <2> DEFINE now == AppSeenBy(r, s.app).status
    <2>1. req[r].todo # <<>> /\ req[r].pc # "idle" /\ s.op = "move"
      BY <1>4 DEF CheckMove, Running
    <2>2. now \in Status \cup {None}
      BY <1>0, <1>1, <2>1, Seen DEF AppRow
    <2>3. CASE now # None /\ mayMove(s.by, now, s.status)
      <3> DEFINE new == [req[r] EXCEPT !.pc = "cas", !.saw = now]
      <3>1. new \in Request /\ new.pc = "cas" /\ new.saw = now /\ new.todo = req[r].todo
        BY <1>0, <1>4, <2>2 DEF Request, Pc, CheckMove, Running
      <3>2. req' = [req EXCEPT ![r] = new] /\ UNCHANGED <<tables, writeSets>>
        BY <1>0, <1>4, <2>3 DEF CheckMove, Request
      <3>3. TypeOK'
        BY <1>0, <3>1, <3>2 DEF TypeOK, tables, writeSets
      <3>4. CasReady'
        <4> SUFFICES ASSUME NEW q \in Req, req'[q].pc = "cas"
                     PROVE  /\ req'[q].todo # <<>>
                            /\ req'[q].saw \in Status
                            /\ mayMove(Head(req'[q].todo).by, req'[q].saw, Head(req'[q].todo).status)
          BY DEF CasReady
        <4>1. CASE q = r
          <5>1. req'[q] = new
            BY <1>0, <3>2, <4>1
          <5> QED BY <5>1, <2>1, <2>2, <2>3, <3>1
        <4>2. CASE q # r
          <5>1. req'[q] = req[q]
            BY <1>0, <3>2, <4>2
          <5> QED BY <5>1 DEF TInv, CasReady
        <4> QED BY <4>1, <4>2
      <3> QED BY <3>3, <3>4 DEF TInv
    <2>4. CASE ~(now # None /\ mayMove(s.by, now, s.status))
      <3>1. GiveUp(r)
        BY <1>4, <2>4 DEF CheckMove
      <3> QED BY <3>1, GiveUpKeeps
    <2> QED BY <2>3, <2>4
  <1>5. CASE CompareAndSwap(r)
    <2> DEFINE row == AppSeenBy(r, s.app)
               new == Moved(row, req[r].saw, s.status, s.by)
    <2>1. req[r].pc = "cas" /\ req[r].pc # "idle"
      BY <1>5 DEF CompareAndSwap
    <2>2. req[r].todo # <<>> /\ req[r].saw \in Status /\ mayMove(s.by, req[r].saw, s.status)
      BY <2>1 DEF TInv, CasReady
    <2>3. s.status \in Status
      BY <2>2, MoveTargets
    <2>4. row \in AppRow
      BY <1>0, <1>1, <2>1, <2>2, Seen
    <2>5. new \in AppRow
      <3>1. [from |-> req[r].saw, to |-> s.status, by |-> s.by] \in HistoryRow
        BY <1>1, <2>1, <2>2, <2>3 DEF HistoryRow
      <3>2. Append(row.trail, [from |-> req[r].saw, to |-> s.status, by |-> s.by]) \in Seq(HistoryRow)
        BY <2>4, <3>1 DEF AppRow
      <3> HIDE DEF row, s
      <3> QED BY <2>3, <2>4, <3>2 DEF Moved, AppRow
    <2>6. wapp' = [wapp EXCEPT ![r][s.app] = new] /\ req' = [req EXCEPT ![r] = Advanced(r)]
          /\ UNCHANGED <<tables, woffer, wmsg>>
      BY <1>5 DEF CompareAndSwap
    <2> HIDE DEF new
    <2>7. TypeOK'
      BY <1>0, <1>1, <2>1, <2>2, <2>5, <2>6 DEF TypeOK, tables
    <2> QED BY <1>1, <2>1, <2>2, <2>6, <2>7, CasReadyStays DEF TInv
  <1>6. CASE LoseTheRace(r)
    BY <1>6, GiveUpKeeps DEF LoseTheRace
  <1>7. CASE FindOthers(r)
    <2> DEFINE a     == s.app
               found == OthersToClose(r, a)
               new   == (IF found = {} THEN <<>> ELSE <<Close(a, found)>>) \o Tail(req[r].todo)
               to    == [req[r] EXCEPT !.todo = new]
    <2>1. req[r].todo # <<>> /\ req[r].pc = "tx"
      BY <1>7 DEF FindOthers, Running
    <2>2. found \in SUBSET Apps
      BY DEF OthersToClose
    <2>3. (IF found = {} THEN <<>> ELSE <<Close(a, found)>>) \in Seq(Stmt)
      <3> HIDE DEF found, a
      <3> QED BY <1>1, <2>1, <2>2, StatementTypes DEF a
    <2>4. new \in Seq(Stmt)
      BY <1>0, <2>1, <2>3, HeadAndRest
    <2>5. to \in Request /\ to.pc # "cas"
      <3> HIDE DEF new
      <3> QED BY <1>0, <2>1, <2>4 DEF Request
    <2>6. req' = [req EXCEPT ![r] = to] /\ UNCHANGED <<tables, writeSets>>
      BY <1>7 DEF FindOthers
    <2> HIDE DEF to
    <2> QED BY <2>5, <2>6, OnlyRequestChanges
  <1>8. CASE CloseAnother(r)
    <2>1. req[r].todo # <<>> /\ req[r].pc = "tx"
      BY <1>8 DEF CloseAnother, Running
    <2>2. PICK b \in s.rest :
            req' = [req EXCEPT ![r].todo =
                      <<PutOffer(b, "WITHDRAWN", NoTerms), Move(b, "WITHDRAWN", "CANDIDATE")>>
                      \o (IF s.rest = {b} THEN <<>> ELSE <<Close(s.app, s.rest \ {b})>>)
                      \o Tail(@)]
      BY <1>8 DEF CloseAnother
    <2> DEFINE two  == <<PutOffer(b, "WITHDRAWN", NoTerms), Move(b, "WITHDRAWN", "CANDIDATE")>>
               more == IF s.rest = {b} THEN <<>> ELSE <<Close(s.app, s.rest \ {b})>>
               new  == two \o more \o Tail(req[r].todo)
               to   == [req[r] EXCEPT !.todo = new]
    <2>3. b \in Apps
      BY <1>1, <2>1
    <2>4. two \in Seq(Stmt)
      BY <2>3, StatementTypes DEF OfferStatus, Status, Actor
    <2>5. more \in Seq(Stmt)
      BY <1>1, <2>1, StatementTypes
    <2>6. new \in Seq(Stmt)
      <3> HIDE DEF two, more
      <3> QED BY <1>0, <2>1, <2>4, <2>5, HeadAndRest
    <2>7. to \in Request /\ to.pc # "cas"
      <3> HIDE DEF new
      <3> QED BY <1>0, <2>1, <2>6 DEF Request
    <2>8. req' = [req EXCEPT ![r] = to] /\ UNCHANGED <<tables, writeSets>>
      BY <1>8, <2>2 DEF CloseAnother
    <2> HIDE DEF to
    <2> QED BY <2>7, <2>8, OnlyRequestChanges
  <1> QED
    BY <1>2, <1>3, <1>4, <1>5, <1>6, <1>7, <1>8

LEMMA CommitKeeps ==
  ASSUME TInv, NEW r \in Req, Commit(r)
  PROVE  TInv'
  <1>0. req[r] \in Request /\ req \in [Req -> Request] /\ TypeOK
    BY DEF TInv, TypeOK
  <1>1. AfterCommit(r) \in Request /\ AfterCommit(r).pc # "cas"
    BY <1>0, RowTypes DEF Commit, AfterCommit, Request, Pc, Idle
  <1>2. req' = [req EXCEPT ![r] = AfterCommit(r)]
    BY DEF Commit
  <1>3. app' \in [Apps -> AppRow] /\ offer' \in [Apps -> OfferRow]
    BY <1>0, Seen DEF Commit
  <1>4. thread' \in [Apps -> Seq(Message)]
    <2>1. \A a \in Apps : ThreadAfter(r, a) \in Seq(Message)
      <3> TAKE a \in Apps
      <3> DEFINE new == [i \in DOMAIN wmsg[r][a] |-> Unread(wmsg[r][a][i])]
      <3>1. new \in Seq(Message)
        BY <1>0, RowTypes DEF TypeOK
      <3>2. thread[a] \in Seq(Message)
        BY <1>0 DEF TypeOK
      <3> HIDE DEF new
      <3>3. thread[a] \o new \in Seq(Message)
        BY <3>1, <3>2
      <3> QED BY <3>3 DEF ThreadAfter, new
    <2> QED BY <2>1 DEF Commit
  <1>5. TypeOK'
    BY <1>0, <1>1, <1>2, <1>3, <1>4, RowTypes DEF Commit, NothingWritten, TypeOK
  <1> QED BY <1>1, <1>2, <1>5, CasReadyStays DEF TInv

LEMMA ReadingKeeps ==
  ASSUME TInv, NEW r \in Req,
         LoadThread(r) \/ MarkThreadRead(r) \/ RespondToEmployer(r)
  PROVE  TInv'
  <1>0. req[r] \in Request /\ req \in [Req -> Request] /\ TypeOK
    BY DEF TInv, TypeOK
  <1>1. CASE LoadThread(r)
    <2> DEFINE new == [req[r] EXCEPT !.pc = "mark", !.loaded = Len(thread[req[r].app])]
    <2>1. req[r].app \in Apps /\ Len(thread[req[r].app]) \in Nat
      BY <1>0, <1>1 DEF LoadThread, Request, TypeOK
    <2>2. new \in Request /\ new.pc # "cas"
      BY <1>0, <2>1 DEF Request, Pc
    <2>3. req' = [req EXCEPT ![r] = new] /\ UNCHANGED <<tables, writeSets>>
      BY <1>1 DEF LoadThread
    <2> HIDE DEF new
    <2> QED BY <2>2, <2>3, OnlyRequestChanges
  <1>2. CASE MarkThreadRead(r)
    <2> DEFINE a        == req[r].app
               employer == req[r].handler = "getOfferForEmployer"
               other    == IF employer THEN "CANDIDATE" ELSE "EMPLOYER"
               read     == [i \in DOMAIN thread[a] |-> Stamped(thread[a][i], other)]
               new      == IF employer THEN [req[r] EXCEPT !.pc = "respond"] ELSE Idle
    <2>1. a \in Apps
      BY <1>0, <1>2 DEF MarkThreadRead, Request
    <2>2. read \in Seq(Message)
      <3>1. \A m \in Message : Stamped(m, other) \in Message
        BY DEF Stamped, Message
      <3>2. thread[a] \in Seq(Message)
        BY <1>0, <2>1 DEF TypeOK
      <3> HIDE DEF other, a
      <3> QED BY <3>1, <3>2
    <2>3. new \in Request /\ new.pc # "cas"
      BY <1>0, <1>2, <2>1, RowTypes DEF Request, Pc, Idle
    <2>4. /\ req' = [req EXCEPT ![r] = new] /\ thread' = [thread EXCEPT ![a] = read]
          /\ UNCHANGED <<app, opened, offer, writeSets>>
      BY <1>2 DEF MarkThreadRead
    <2> HIDE DEF new, read
    <2>5. TypeOK'
      BY <1>0, <2>1, <2>2, <2>3, <2>4 DEF TypeOK, writeSets
    <2> QED BY <2>3, <2>4, <2>5, CasReadyStays DEF TInv
  <1>3. CASE RespondToEmployer(r)
    <2>1. Idle \in Request /\ Idle.pc # "cas"
      BY RowTypes DEF Idle
    <2> QED BY <1>3, <2>1, OnlyRequestChanges DEF RespondToEmployer
  <1> QED BY <1>1, <1>2, <1>3

LEMMA TInvInit == Init => TInv
  <1> SUFFICES ASSUME Init PROVE TInv
    OBVIOUS
  <1>1. offer \in [Apps -> OfferRow]
    BY RowTypes DEF Init, OfferRow, OfferStatus
  <1>2. TypeOK
    BY <1>1, RowTypes, OpenedAssumption DEF Init, TypeOK
  <1>3. CasReady
    BY DEF Init, CasReady, Idle
  <1> QED BY <1>2, <1>3 DEF TInv

LEMMA TInvNext == TInv /\ [Next]_vars => TInv'
  <1> SUFFICES ASSUME TInv, [Next]_vars PROVE TInv'
    OBVIOUS
  <1>1. CASE Next
    <2> PICK r \in Req : Arrival(r) \/ Serve(r) \/ Die(r)
      BY <1>1 DEF Next
    <2>1. CASE Arrival(r)
      BY <2>1, ArrivalKeeps
    <2>2. CASE Serve(r)
      BY <2>2, SubmissionKeeps, StatementKeeps, CommitKeeps, ReadingKeeps, GiveUpKeeps
      DEF Serve, Expire
    <2>3. CASE Die(r)
      BY <2>3, GiveUpKeeps DEF Die
    <2> QED BY <2>1, <2>2, <2>3
  <1>2. CASE UNCHANGED vars
    BY <1>2 DEF TInv, TypeOK, CasReady, vars, tables, writeSets
  <1> QED BY <1>1, <1>2

\* Every variable keeps its type, whatever requests interleave, expire or die.
THEOREM TypeCorrect == Spec => []TypeOK
  <1>1. Spec => []TInv
    BY TInvInit, TInvNext, PTL DEF Spec
  <1> QED BY <1>1, PTL DEF TInv

-----------------------------------------------------------------------------
(* Only four kinds of step touch application rows. *)

\* r leaves the committed rows alone, and at most forgets what it had written.
Quiet(r) ==
  /\ app' = app
  /\ wapp' = wapp \/ wapp' = [wapp EXCEPT ![r] = [a \in Apps |-> NoApp]]

LEMMA RowsTouched ==
  ASSUME NEW r \in Req, Arrival(r) \/ Serve(r) \/ Die(r)
  PROVE  \/ Quiet(r)
         \/ InsertApplication(r) \/ RecordScreening(r) \/ CompareAndSwap(r) \/ Commit(r)
  <1>1. CASE Arrival(r)
    <2>1. UNCHANGED <<tables, writeSets>>
      BY <1>1 DEF Arrival, Arrive, SubmitApplication, UpdateStatus, BoardMove, ExtendOffer,
                  UpdateOffer, WithdrawOffer, PostEmployerMessage, GetOfferForEmployer,
                  GetMyOffer, Accept, Decline, PostCandidateMessage
    <2> QED BY <2>1 DEF Quiet, tables, writeSets
  <1>2. CASE Serve(r) \/ Die(r)
    BY <1>2 DEF Serve, Die, Quiet, AddSubmittedEvent, ReadForScreening, WriteOffer, WriteMessage,
                CheckMove, LoseTheRace, FindOthers, CloseAnother, LoadThread, MarkThreadRead,
                RespondToEmployer, Expire, GiveUp, NothingWritten, tables, writeSets
  <1> QED BY <1>1, <1>2

LEMMA QuietRows ==
  ASSUME TypeOK, NEW r \in Req, Quiet(r)
  PROVE  app' = app /\ \A q \in Req, a \in Apps : wapp'[q][a] \in {wapp[q][a], NoApp}
  <1> DEFINE blank == [a \in Apps |-> NoApp]
  <1>1. app' = app /\ (wapp' = wapp \/ wapp' = [wapp EXCEPT ![r] = blank])
    BY DEF Quiet
  <1>2. \A q \in Req, a \in Apps : wapp[q] \in [Apps -> AppRow] /\ blank[a] = NoApp
    BY DEF TypeOK
  <1>3. wapp \in [Req -> [Apps -> AppRow]]
    BY DEF TypeOK
  <1>4. \A q \in Req : wapp'[q] = wapp[q] \/ wapp'[q] = blank
    <2> HIDE DEF blank
    <2> QED BY <1>1, <1>3
  <1> HIDE DEF blank
  <1> QED BY <1>1, <1>2, <1>4
\* What a request that passed its check and its compare-and-swap writes.
LEMMA SwapFacts ==
  ASSUME TInv, NEW r \in Req, CompareAndSwap(r)
  PROVE  \E s \in Stmt :
           LET row == AppSeenBy(r, s.app) IN
           /\ s.app \in Apps /\ s.by \in Actor /\ s.status \in Status
           /\ row \in AppRow /\ row.status \in Status
           /\ mayMove(s.by, row.status, s.status)
           /\ AppFree(r, s.app)
           /\ app' = app
           /\ wapp' = [wapp EXCEPT ![r][s.app] = Moved(row, row.status, s.status, s.by)]
  <1> DEFINE s == Head(req[r].todo)
  <1>1. req[r] \in Request /\ req[r].pc = "cas"
    BY DEF TInv, TypeOK, CompareAndSwap
  <1>2. req[r].todo # <<>> /\ req[r].saw \in Status /\ mayMove(s.by, req[r].saw, s.status)
    BY <1>1 DEF TInv, CasReady
  <1>3. s \in Stmt
    BY <1>1, <1>2, HeadAndRest DEF Request
  <1>4. s.app \in Apps /\ s.by \in Actor /\ s.status \in Status
    BY <1>2, <1>3, MoveTargets DEF Stmt, Call
  <1>5. AppSeenBy(r, s.app) \in AppRow /\ AppSeenBy(r, s.app).status = req[r].saw
    BY <1>4, Seen DEF TInv, CompareAndSwap
  <1>6. AppFree(r, s.app) /\ app' = app
        /\ wapp' = [wapp EXCEPT ![r][s.app] = Moved(AppSeenBy(r, s.app), req[r].saw, s.status, s.by)]
    BY DEF CompareAndSwap, tables
  <1> HIDE DEF s
  <1> QED BY <1>2, <1>3, <1>4, <1>5, <1>6

-----------------------------------------------------------------------------
(* The audit trail. *)

GoodRow(row) == row.status # None => isTrail("SUBMITTED", row.trail, row.status)

\* The trail is right in the committed rows AND in what open transactions have written,
\* which the next commit publishes.
TrailInv ==
  /\ TInv
  /\ \A a \in Apps : GoodRow(app[a])
  /\ \A r \in Req, a \in Apps : GoodRow(wapp[r][a])

\* A legal move from where a trail ends makes a longer trail.
LEMMA MovedIsGood ==
  ASSUME NEW row \in AppRow, NEW to \in Status, NEW actor \in Actor,
         GoodRow(row), row.status \in Status, mayMove(actor, row.status, to)
  PROVE  GoodRow(Moved(row, row.status, to, actor))
  <1> DEFINE last == [from |-> row.status, to |-> to, by |-> actor]
             new  == Append(row.trail, last)
             n    == Len(row.trail)
  <1>1. row.trail \in Seq(HistoryRow) /\ n \in Nat /\ last \in HistoryRow
    BY DEF AppRow, HistoryRow
  <1>2. isTrail("SUBMITTED", row.trail, row.status)
    BY DEF GoodRow, None, Status
  <1>3. new \in Seq(HistoryRow) /\ Len(new) = n + 1 /\ new # <<>> /\ new[n + 1] = last
        /\ \A i \in 1..n : new[i] = row.trail[i]
    BY <1>1
  <1>4. \A i \in DOMAIN new :
          /\ mayMove(new[i].by, new[i].from, new[i].to)
          /\ new[i].from = IF i = 1 THEN "SUBMITTED" ELSE new[i - 1].to
    <2> TAKE i \in DOMAIN new
    <2>1. CASE i \in 1..n
      <3>1. new[i] = row.trail[i] /\ i \in DOMAIN row.trail /\ (i # 1 => new[i - 1] = row.trail[i - 1])
        BY <1>1, <1>3, <2>1
      <3> HIDE DEF new, last
      <3> QED BY <1>2, <3>1 DEF isTrail
    <2>2. CASE i = n + 1
      <3>1. new[i] = last
        BY <1>3, <2>2
      <3>2. row.status = IF i = 1 THEN "SUBMITTED" ELSE new[i - 1].to
        <4>1. CASE n = 0
          <5>1. row.trail = <<>>
            BY <1>1, <4>1
          <5> QED BY <1>2, <2>2, <4>1, <5>1 DEF isTrail
        <4>2. CASE n # 0
          <5>1. row.trail # <<>> /\ i # 1 /\ new[i - 1] = row.trail[n]
            BY <1>1, <1>3, <2>2, <4>2
          <5> HIDE DEF new
          <5> QED BY <1>2, <5>1 DEF isTrail
        <4> QED BY <4>1, <4>2
      <3> HIDE DEF new
      <3> QED BY <3>1, <3>2
    <2>3. i \in 1..(n + 1)
      BY <1>3
    <2> QED BY <1>1, <2>1, <2>2, <2>3
  <1>5. to = new[Len(new)].to
    BY <1>3
  <1>6. isTrail("SUBMITTED", new, to)
    <2> HIDE DEF new
    <2> QED BY <1>3, <1>4, <1>5 DEF isTrail
  <1>7. Moved(row, row.status, to, actor).status = to
        /\ Moved(row, row.status, to, actor).trail = new
    BY <1>1 DEF Moved, AppRow
  <1> HIDE DEF new
  <1> QED BY <1>6, <1>7 DEF GoodRow

LEMMA FixedRowsAreGood == GoodRow(NoApp) /\ GoodRow(Submitted) /\ GoodRow(AtOffer)
  <1>1. GoodRow(NoApp) /\ GoodRow(Submitted)
    BY DEF GoodRow, NoApp, Submitted, isTrail
  <1>2. DOMAIN AtOffer.trail = {1, 2} /\ Len(AtOffer.trail) = 2 /\ AtOffer.trail # <<>>
    BY DEF AtOffer
  <1>3. GoodRow(AtOffer)
    BY <1>2 DEF GoodRow, AtOffer, isTrail, mayMove, isTransitionAllowed, isEntitled, TRANSITIONS,
                EMPLOYER_SETTABLE_STATUSES
  <1> QED BY <1>1, <1>3

LEMMA TrailNext == TrailInv /\ [Next]_vars => TrailInv'
  <1> SUFFICES ASSUME TrailInv, [Next]_vars PROVE TrailInv'
    OBVIOUS
  <1>0. TInv /\ TInv' /\ TypeOK /\ TypeOK'
    BY TInvNext DEF TrailInv, TInv
  <1>1. CASE Next
    <2> PICK r \in Req : Arrival(r) \/ Serve(r) \/ Die(r)
      BY <1>1 DEF Next
    <2>1. CASE Quiet(r)
      <3>1. app' = app /\ \A q \in Req, a \in Apps : wapp'[q][a] \in {wapp[q][a], NoApp}
        BY <1>0, <2>1, QuietRows
      <3>2. \A q \in Req, a \in Apps : GoodRow(wapp'[q][a])
        <4> SUFFICES ASSUME NEW q \in Req, NEW a \in Apps PROVE GoodRow(wapp'[q][a])
          OBVIOUS
        <4>1. CASE wapp'[q][a] = wapp[q][a]
          BY <4>1 DEF TrailInv
        <4>2. CASE wapp'[q][a] = NoApp
          BY <4>2, FixedRowsAreGood
        <4> QED BY <3>1, <4>1, <4>2
      <3> QED BY <1>0, <3>1, <3>2 DEF TrailInv
    <2>2. CASE InsertApplication(r)
      <3>1. wapp' = wapp /\ \/ app' = app
                            \/ app' = [app EXCEPT ![req[r].app] = Submitted]
        BY <2>2 DEF InsertApplication, writeSets
      <3> QED BY <1>0, <3>1, FixedRowsAreGood DEF TrailInv, TypeOK
    <2>3. CASE RecordScreening(r)
      <3>1. wapp' = wapp /\ app' = [app EXCEPT ![req[r].app].screened = TRUE]
        BY <2>3 DEF RecordScreening, writeSets
      <3>2. \A row \in AppRow : GoodRow(row) => GoodRow([row EXCEPT !.screened = TRUE])
        BY DEF GoodRow, AppRow
      <3> QED BY <1>0, <3>1, <3>2 DEF TrailInv, TypeOK
    <2>4. CASE CompareAndSwap(r)
      <3> PICK s \in Stmt :
            LET row == AppSeenBy(r, s.app) IN
            /\ s.app \in Apps /\ s.by \in Actor /\ s.status \in Status
            /\ row \in AppRow /\ row.status \in Status
            /\ mayMove(s.by, row.status, s.status)
            /\ AppFree(r, s.app)
            /\ app' = app
            /\ wapp' = [wapp EXCEPT ![r][s.app] = Moved(row, row.status, s.status, s.by)]
        BY <1>0, <2>4, SwapFacts
      <3>1. GoodRow(AppSeenBy(r, s.app))
        BY DEF TrailInv, AppSeenBy
      <3>2. GoodRow(Moved(AppSeenBy(r, s.app), AppSeenBy(r, s.app).status, s.status, s.by))
        BY <3>1, MovedIsGood
      <3> QED BY <1>0, <3>2 DEF TrailInv, TypeOK
    <2>5. CASE Commit(r)
      <3>1. app' = [a \in Apps |-> AppSeenBy(r, a)]
            /\ wapp' = [wapp EXCEPT ![r] = [a \in Apps |-> NoApp]]
        BY <2>5 DEF Commit, NothingWritten
      <3>2. \A a \in Apps : GoodRow(AppSeenBy(r, a))
        BY DEF TrailInv, AppSeenBy
      <3> QED BY <1>0, <3>1, <3>2, FixedRowsAreGood DEF TrailInv, TypeOK
    <2> QED BY <2>1, <2>2, <2>3, <2>4, <2>5, RowsTouched
  <1>2. CASE UNCHANGED vars
    BY <1>0, <1>2 DEF TrailInv, vars, tables, writeSets
  <1> QED BY <1>1, <1>2

LEMMA TrailInit == Init => TrailInv
  <1> SUFFICES ASSUME Init PROVE TrailInv
    OBVIOUS
  <1>1. \A a \in Apps : GoodRow(app[a])
    BY FixedRowsAreGood DEF Init
  <1>2. \A r \in Req, a \in Apps : GoodRow(wapp[r][a])
    BY FixedRowsAreGood DEF Init
  <1> QED BY <1>1, <1>2, TInvInit DEF TrailInv

\* The audit trail of every application is a path of legal, entitled moves to the status it
\* shows, for any number of concurrent requests that expire or die anywhere.
THEOREM TrailIsLegal == Spec => []TrailOK
  <1>1. TrailInv => TrailOK
    BY DEF TrailInv, TrailOK, GoodRow
  <1> QED BY <1>1, TrailInit, TrailNext, PTL DEF Spec

-----------------------------------------------------------------------------
(* Finished applications. *)

Finished == {"ACCEPTED", "WITHDRAWN"}

\* Two open transactions never hold the same row, and none holds a finished one: its lock
\* would be the only way left to move it.
FinalInv ==
  /\ TInv
  /\ \A a \in Apps, r, q \in Req : r # q => wapp[r][a] = NoApp \/ wapp[q][a] = NoApp
  /\ \A a \in Apps, r \in Req : app[a].status \in Finished => wapp[r][a] = NoApp

LEMMA NothingFollowsFinished ==
  ASSUME NEW from \in Finished, NEW to, NEW actor
  PROVE  ~mayMove(actor, from, to)
  BY DEF Finished, mayMove, isTransitionAllowed, TRANSITIONS

LEMMA FinalNext == FinalInv /\ [Next]_vars => FinalInv'
  <1> SUFFICES ASSUME FinalInv, [Next]_vars PROVE FinalInv'
    OBVIOUS
  <1>0. TInv /\ TInv' /\ TypeOK /\ TypeOK'
    BY TInvNext DEF FinalInv, TInv
  <1>1. CASE Next
    <2> PICK r \in Req : Arrival(r) \/ Serve(r) \/ Die(r)
      BY <1>1 DEF Next
    <2>1. CASE Quiet(r)
      <3>1. app' = app /\ \A q \in Req, a \in Apps : wapp'[q][a] \in {wapp[q][a], NoApp}
        BY <1>0, <2>1, QuietRows
      <3> QED BY <1>0, <3>1 DEF FinalInv
    <2>2. CASE InsertApplication(r)
      <3>1. wapp' = wapp /\ \/ app' = app
                            \/ app' = [app EXCEPT ![req[r].app] = Submitted]
        BY <2>2 DEF InsertApplication, writeSets
      <3>2. \A a \in Apps : app'[a] \in {app[a], Submitted}
        BY <1>0, <3>1 DEF TypeOK
      <3>3. Submitted.status \notin Finished
        BY DEF Submitted, Finished
      <3>4. \A a \in Apps : app'[a].status \in Finished => app[a].status \in Finished
        BY <3>2, <3>3
      <3> QED BY <1>0, <3>1, <3>4 DEF FinalInv
    <2>3. CASE RecordScreening(r)
      <3>1. wapp' = wapp /\ app' = [app EXCEPT ![req[r].app].screened = TRUE]
        BY <2>3 DEF RecordScreening, writeSets
      <3>2. \A a \in Apps : app'[a].status = app[a].status
        BY <1>0, <3>1 DEF TypeOK, AppRow
      <3> QED BY <1>0, <3>1, <3>2 DEF FinalInv
    <2>4. CASE CompareAndSwap(r)
      <3> PICK s \in Stmt :
            LET row == AppSeenBy(r, s.app) IN
            /\ s.app \in Apps /\ s.by \in Actor /\ s.status \in Status
            /\ row \in AppRow /\ row.status \in Status
            /\ mayMove(s.by, row.status, s.status)
            /\ AppFree(r, s.app)
            /\ app' = app
            /\ wapp' = [wapp EXCEPT ![r][s.app] = Moved(row, row.status, s.status, s.by)]
        BY <1>0, <2>4, SwapFacts
      <3>1. app[s.app].status \notin Finished
        <4>1. CASE wapp[r][s.app] = NoApp
          BY <4>1, NothingFollowsFinished DEF AppSeenBy
        <4>2. CASE wapp[r][s.app] # NoApp
          BY <4>2 DEF FinalInv
        <4> QED BY <4>1, <4>2
      <3>2. \A q \in Req, a \in Apps : (q # r \/ a # s.app) => wapp'[q][a] = wapp[q][a]
        BY <1>0 DEF TypeOK
      <3>3. \A q \in Req \ {r} : wapp[q][s.app] = NoApp
        BY DEF AppFree
      <3> QED BY <1>0, <3>1, <3>2, <3>3 DEF FinalInv
    <2>5. CASE Commit(r)
      <3>1. app' = [a \in Apps |-> AppSeenBy(r, a)]
            /\ wapp' = [wapp EXCEPT ![r] = [a \in Apps |-> NoApp]]
        BY <2>5 DEF Commit, NothingWritten
      <3>2. \A q \in Req, a \in Apps : wapp'[q][a] = IF q = r THEN NoApp ELSE wapp[q][a]
        BY <1>0, <3>1 DEF TypeOK
      <3>3. \A a \in Apps : app'[a] = IF wapp[r][a] = NoApp THEN app[a] ELSE wapp[r][a]
        BY <3>1 DEF AppSeenBy
      <3> QED BY <1>0, <3>2, <3>3 DEF FinalInv
    <2> QED BY <2>1, <2>2, <2>3, <2>4, <2>5, RowsTouched
  <1>2. CASE UNCHANGED vars
    BY <1>0, <1>2 DEF FinalInv, vars, tables, writeSets
  <1> QED BY <1>1, <1>2

LEMMA FinalInit == Init => FinalInv
  <1> SUFFICES ASSUME Init PROVE FinalInv
    OBVIOUS
  <1>1. \A r \in Req, a \in Apps : wapp[r][a] = NoApp
    BY DEF Init
  <1> QED BY <1>1, TInvInit DEF FinalInv

LEMMA FinalStep ==
  ASSUME FinalInv, [Next]_vars, NEW a \in Apps, app[a].status \in Finished
  PROVE  app'[a].status = app[a].status
  <1>0. TypeOK
    BY DEF FinalInv, TInv
  <1>1. CASE Next
    <2> PICK r \in Req : Arrival(r) \/ Serve(r) \/ Die(r)
      BY <1>1 DEF Next
    <2>1. CASE Quiet(r)
      BY <2>1 DEF Quiet
    <2>2. CASE InsertApplication(r)
      <3>1. app[req[r].app].status # None => app' = app
        BY <2>2 DEF InsertApplication
      <3>2. app[req[r].app].status = None => app' = [app EXCEPT ![req[r].app] = Submitted]
        BY <2>2 DEF InsertApplication
      <3>3. app[a].status # None
        BY DEF Finished, None
      <3> QED BY <1>0, <3>1, <3>2, <3>3 DEF TypeOK
    <2>3. CASE RecordScreening(r)
      BY <1>0, <2>3 DEF RecordScreening, TypeOK, AppRow
    <2>4. CASE CompareAndSwap(r)
      BY <2>4 DEF CompareAndSwap, tables
    <2>5. CASE Commit(r)
      BY <2>5 DEF Commit, AppSeenBy, FinalInv
    <2> QED BY <2>1, <2>2, <2>3, <2>4, <2>5, RowsTouched
  <1>2. CASE UNCHANGED vars
    BY <1>2 DEF vars, tables
  <1> QED BY <1>1, <1>2

\* No step moves an accepted or a withdrawn application, whatever status the request that
\* takes it had read before.
THEOREM FinishedStays == Spec => FinishedIsFinal
  <1>1. FinalInv /\ [Next]_vars =>
          [\A a \in Apps : app[a].status \in {"ACCEPTED", "WITHDRAWN"} =>
             app'[a].status = app[a].status]_vars
    BY FinalStep DEF Finished
  <1> QED BY <1>1, FinalInit, FinalNext, PTL DEF Spec, FinishedIsFinal

-----------------------------------------------------------------------------
(* The thread of an offer. *)

\* Two kinds of step touch a thread: one that publishes messages, one that stamps them.
LEMMA ThreadsTouched ==
  ASSUME NEW r \in Req, Arrival(r) \/ Serve(r) \/ Die(r)
  PROVE  thread' = thread \/ Commit(r) \/ MarkThreadRead(r)
  <1>1. CASE Arrival(r)
    <2>1. UNCHANGED <<tables, writeSets>>
      BY <1>1 DEF Arrival, Arrive, SubmitApplication, UpdateStatus, BoardMove, ExtendOffer,
                  UpdateOffer, WithdrawOffer, PostEmployerMessage, GetOfferForEmployer,
                  GetMyOffer, Accept, Decline, PostCandidateMessage
    <2> QED BY <2>1 DEF tables
  <1>2. CASE Serve(r) \/ Die(r)
    BY <1>2 DEF Serve, Die, InsertApplication, AddSubmittedEvent, ReadForScreening, RecordScreening,
                WriteOffer, WriteMessage, CheckMove, CompareAndSwap, LoseTheRace, FindOthers,
                CloseAnother, LoadThread, RespondToEmployer, Expire, GiveUp, tables
  <1> QED BY <1>1, <1>2

\* A commit leaves every message where it was, and as it was.
LEMMA CommitAppends ==
  ASSUME TInv, NEW r \in Req, Commit(r), NEW a \in Apps
  PROVE  /\ DOMAIN thread[a] \subseteq DOMAIN thread'[a]
         /\ \A i \in DOMAIN thread[a] : thread'[a][i] = thread[a][i]
         /\ \A k \in DOMAIN wmsg[r][a] : \E i \in DOMAIN thread'[a] : thread'[a][i] = Unread(wmsg[r][a][k])
  <1> DEFINE new == [i \in DOMAIN wmsg[r][a] |-> Unread(wmsg[r][a][i])]
  <1>1. thread[a] \in Seq(Message) /\ wmsg[r][a] \in Seq(Author)
    BY DEF TInv, TypeOK
  <1>2. new \in Seq(Message) /\ Len(new) = Len(wmsg[r][a]) /\ DOMAIN new = 1..Len(new)
    BY <1>1, RowTypes
  <1>3. thread'[a] = thread[a] \o new
    BY DEF Commit, ThreadAfter
  <1>4. \A k \in DOMAIN wmsg[r][a] : k \in 1..Len(new) /\ new[k] = Unread(wmsg[r][a][k])
    BY <1>1, <1>2
  <1> HIDE DEF new
  <1>5. /\ DOMAIN thread[a] = 1..Len(thread[a]) /\ Len(thread[a]) \in Nat
        /\ DOMAIN thread'[a] = 1..(Len(thread[a]) + Len(new)) /\ Len(new) \in Nat
        /\ \A i \in 1..Len(thread[a]) : thread'[a][i] = thread[a][i]
        /\ \A i \in 1..Len(new) : thread'[a][Len(thread[a]) + i] = new[i]
    <2> DEFINE old   == thread[a]
               whole == old \o new
    <2>1. old \in Seq(Message) /\ new \in Seq(Message)
      BY <1>1, <1>2
    <2> HIDE DEF old
    <2>2. /\ DOMAIN old = 1..Len(old) /\ Len(old) \in Nat /\ Len(new) \in Nat
          /\ DOMAIN whole = 1..(Len(old) + Len(new))
          /\ \A i \in 1..Len(old) : whole[i] = old[i]
          /\ \A i \in 1..Len(new) : whole[Len(old) + i] = new[i]
      BY <2>1
    <2>3. thread'[a] = whole
      BY <1>3 DEF old
    <2> HIDE DEF whole
    <2> QED BY <2>2, <2>3 DEF old
  <1>6. \A k \in DOMAIN wmsg[r][a] : \E i \in DOMAIN thread'[a] : thread'[a][i] = Unread(wmsg[r][a][k])
    <2> TAKE k \in DOMAIN wmsg[r][a]
    <2>1. k \in 1..Len(new) /\ Len(thread[a]) + k \in DOMAIN thread'[a]
      BY <1>4, <1>5
    <2> QED BY <1>4, <1>5, <2>1
  <1> QED BY <1>5, <1>6

\* Stamping changes who has read a message, and of the other side's messages only.
LEMMA MarkStamps ==
  ASSUME TInv, NEW r \in Req, MarkThreadRead(r), NEW a \in Apps
  PROVE  /\ DOMAIN thread'[a] = DOMAIN thread[a]
         /\ \A i \in DOMAIN thread[a] :
              \/ thread'[a][i] = thread[a][i]
              \/ /\ req[r].pc = "mark" /\ req[r].app = a
                 /\ thread'[a][i].by = thread[a][i].by /\ thread'[a][i].read
                 /\ (thread[a][i].by = "CANDIDATE") <=> (req[r].handler = "getOfferForEmployer")
  <1> DEFINE other == IF req[r].handler = "getOfferForEmployer" THEN "CANDIDATE" ELSE "EMPLOYER"
             read  == [i \in DOMAIN thread[a] |-> Stamped(thread[a][i], other)]
  <1>1. thread \in [Apps -> Seq(Message)]
    BY DEF TInv, TypeOK
  <1>2. CASE req[r].app = a
    <2>1. req[r].pc = "mark" /\ thread'[a] = read
      BY <1>1, <1>2 DEF MarkThreadRead
    <2>2. DOMAIN read = DOMAIN thread[a] /\ \A i \in DOMAIN thread[a] : read[i] = Stamped(thread[a][i], other)
      OBVIOUS
    <2>3. \A i \in DOMAIN thread[a] : thread[a][i] \in Message
      BY <1>1
    <2>4. \A m \in Message : \/ Stamped(m, other) = m
                             \/ /\ Stamped(m, other).by = m.by /\ Stamped(m, other).read
                                /\ (m.by = "CANDIDATE") <=> (req[r].handler = "getOfferForEmployer")
      BY DEF Stamped, Message
    <2> HIDE DEF read, other
    <2> QED BY <1>2, <2>1, <2>2, <2>3, <2>4
  <1>3. CASE req[r].app # a
    <2>1. thread'[a] = thread[a]
      BY <1>1, <1>3 DEF MarkThreadRead
    <2> QED BY <2>1
  <1> QED BY <1>2, <1>3

LEMMA ThreadStep ==
  ASSUME TInv, [Next]_vars, NEW a \in Apps
  PROVE  /\ DOMAIN thread[a] \subseteq DOMAIN thread'[a]
         /\ \A i \in DOMAIN thread[a] :
              \/ thread'[a][i] = thread[a][i]
              \/ /\ thread'[a][i].by = thread[a][i].by /\ thread'[a][i].read
                 /\ \E r \in Req : /\ req[r].pc = "mark" /\ req[r].app = a
                                   /\ (thread[a][i].by = "CANDIDATE")
                                        <=> (req[r].handler = "getOfferForEmployer")
  <1>1. CASE Next
    <2> PICK r \in Req : Arrival(r) \/ Serve(r) \/ Die(r)
      BY <1>1 DEF Next
    <2>1. CASE thread' = thread
      BY <2>1
    <2>2. CASE Commit(r)
      BY <2>2, CommitAppends
    <2>3. CASE MarkThreadRead(r)
      BY <2>3, MarkStamps
    <2> QED BY <2>1, <2>2, <2>3, ThreadsTouched
  <1>2. CASE UNCHANGED vars
    BY <1>2 DEF vars, tables
  <1> QED BY <1>1, <1>2

\* No interleaving of requests loses, reorders or rewrites a message, or makes a message that
\* was read unread again.
THEOREM ThreadsGrow == Spec => ThreadOnlyGrows
  <1>1. TInv /\ [Next]_vars =>
          [\A a \in Apps :
             /\ DOMAIN thread[a] \subseteq DOMAIN thread'[a]
             /\ \A i \in DOMAIN thread[a] :
                  /\ thread'[a][i].by = thread[a][i].by
                  /\ thread[a][i].read => thread'[a][i].read]_vars
    BY ThreadStep
  <1> QED BY <1>1, TInvInit, TInvNext, PTL DEF Spec, ThreadOnlyGrows

\* A message becomes read only in the step of a request that reads the thread for the other
\* side than its author's.
THEOREM OnlyTheReaderStamps == Spec => ReadByTheOtherSide
  <1>1. TInv /\ [Next]_vars =>
          [\A a \in Apps : \A i \in DOMAIN thread[a] :
             (~thread[a][i].read /\ thread'[a][i].read)
             => \E r \in Req : /\ req[r].pc = "mark" /\ req[r].app = a
                               /\ (thread[a][i].by = "CANDIDATE")
                                    <=> (req[r].handler = "getOfferForEmployer")]_vars
    <2> SUFFICES ASSUME TInv, [Next]_vars, NEW a \in Apps, NEW i \in DOMAIN thread[a],
                        ~thread[a][i].read, thread'[a][i].read
                 PROVE  \E r \in Req : /\ req[r].pc = "mark" /\ req[r].app = a
                                       /\ (thread[a][i].by = "CANDIDATE")
                                            <=> (req[r].handler = "getOfferForEmployer")
      OBVIOUS
    <2> QED BY ThreadStep
  <1> QED BY <1>1, TInvInit, TInvNext, PTL DEF Spec, ReadByTheOtherSide

-----------------------------------------------------------------------------
(* The invariant. *)

IsMove(s) == s.op = "move"

Open(r) == req[r].pc \in {"tx", "cas"}

\* Statuses an application can show once it was moved.
Past == Status \ {"DRAFT", "SUBMITTED"}

\* What is true of rows, whoever wrote them: an offer is locked like an application, only open
\* transactions hold written rows, and what they moved has left its first status.
RowsInv ==
  /\ \A a \in Apps, r, q \in Req : r # q => woffer[r][a] = NoOffer \/ woffer[q][a] = NoOffer
  /\ \A r \in Req : ~Open(r) =>
       \A a \in Apps : wapp[r][a] = NoApp /\ woffer[r][a] = NoOffer /\ wmsg[r][a] = <<>>
  /\ \A r \in Req : req[r].pc = "assess" => req[r].handler = "screen"
  /\ \A r \in Req : req[r].pc = "cas" => IsMove(Head(req[r].todo))
  /\ \A r \in Req, a \in Apps : wapp[r][a] = NoApp \/ wapp[r][a].status \in Past
  /\ \A a \in Apps : /\ app[a].status # "DRAFT"
                     /\ app[a].status = None => app[a].trail = <<>>

Decisive == OfferStatus \ {"EXTENDED"}

\* Statement m is the move that records the offer status.
Records(m, a, status) ==
  m.op = "move" /\ m.app = a /\ <<m.status, m.by>> \in RecordedAs(status)

\* y is row x after one legal move to the status by the actor.
OneMove(x, y, to, actor) ==
  /\ x.status # None
  /\ mayMove(actor, x.status, to)
  /\ y.status = to
  /\ y.trail = Append(x.trail, [from |-> x.status, to |-> to, by |-> actor])

\* y is a rejected row x that was taken back into screening.
Reopening(x, y) == x.status = "REJECTED" /\ OneMove(x, y, "SCREENING", "EMPLOYER")

\* y is a rejected row x that was taken back into screening and made an offer.
ReopenedAndOffered(x, y) ==
  /\ x.status = "REJECTED"
  /\ y.status = "OFFER"
  /\ y.trail = Append(Append(x.trail, [from |-> "REJECTED",  to |-> "SCREENING", by |-> "EMPLOYER"]),
                      [from |-> "SCREENING", to |-> "OFFER",     by |-> "EMPLOYER"])

(* The list of r's transaction, clause by clause. *)

\* The move that records an offer's status comes right after the statement that writes it,
\* and finds the application unwritten.
DecisionThenMove(r) ==
  LET T == req[r].todo IN
  \A i \in DOMAIN T :
    T[i].op = "offer" /\ T[i].status \in Decisive =>
      /\ i + 1 \in DOMAIN T
      /\ Records(T[i + 1], T[i].app, T[i].status)
      /\ wapp[r][T[i].app] = NoApp
      /\ req[r].handler # "extendOffer"

\* A negotiation opens after what the candidate says.
WordsFirst(r) ==
  LET T == req[r].todo IN
  \A i \in DOMAIN T :
    T[i].op = "offer" /\ T[i].status = "NEGOTIATING" =>
      \/ \E k \in DOMAIN wmsg[r][T[i].app] : wmsg[r][T[i].app][k] = "CANDIDATE"
      \/ i > 1 /\ T[i - 1] = Say(T[i].app, "CANDIDATE")

\* A row still to be moved is not written, unless extendOffer has only reopened it so far.
MovesToCome(r) ==
  LET T == req[r].todo
      a == req[r].app
  IN  \A i \in DOMAIN T :
        IsMove(T[i]) =>
          \/ wapp[r][T[i].app] = NoApp
          \/ /\ req[r].handler = "extendOffer" /\ T[i] = Move(a, "OFFER", "EMPLOYER")
             /\ Reopening(app[a], wapp[r][a])

\* Only extendOffer has two moves to come: out of REJECTED, and to OFFER.
OneMoveLeft(r) ==
  LET T == req[r].todo
      a == req[r].app
  IN  \A i, j \in DOMAIN T :
        i < j /\ IsMove(T[i]) /\ IsMove(T[j]) =>
          /\ req[r].handler = "extendOffer"
          /\ T[i] = Move(a, "SCREENING", "EMPLOYER") /\ T[j] = Move(a, "OFFER", "EMPLOYER")
          /\ app[a].status \in Past

\* All handlers but accept keep to the application they were called for.
OwnRow(r) ==
  LET T == req[r].todo IN
  req[r].handler # "accept" =>
    \A i \in DOMAIN T : T[i].app = req[r].app /\ T[i].op \in {"offer", "message", "move"}

\* accept moves its own application first, and closes others of the same candidate after.
HireMoves(r) ==
  LET T == req[r].todo
      a == req[r].app
  IN  req[r].handler = "accept" =>
        \A i \in DOMAIN T : IsMove(T[i]) =>
          \/ T[i] = Move(a, "ACCEPTED", "CANDIDATE")
          \/ /\ wapp[r][a] # NoApp
             /\ T[i] = Move(T[i].app, "WITHDRAWN", "CANDIDATE")
             /\ T[i].app # a /\ Candidate[T[i].app] = Candidate[a]

\* The search for the others comes last, right after the move, when no other row is written.
SweepLast(r) ==
  LET T == req[r].todo
      a == req[r].app
  IN  \A i \in DOMAIN T : T[i].op = "sweep" =>
        /\ T[i].app = a /\ i = Len(T)
        /\ \A j \in DOMAIN T : IsMove(T[j]) => T[j].app = a
        /\ \A b \in Apps \ {a} : wapp[r][b] = NoApp
        /\ IF i = 1 THEN wapp[r][a] # NoApp ELSE IsMove(T[i - 1])

\* What is left to close comes last, and is neither written nor about to be moved.
CloseLast(r) ==
  LET T == req[r].todo
      a == req[r].app
  IN  \A i \in DOMAIN T : T[i].op = "close" =>
        /\ T[i].app = a /\ i = Len(T)
        /\ wapp[r][a] # NoApp
        /\ \A b \in T[i].rest :
             /\ b # a /\ Candidate[b] = Candidate[a] /\ wapp[r][b] = NoApp
             /\ \A j \in DOMAIN T : IsMove(T[j]) => T[j].app # b

ListOK(r) ==
  /\ DecisionThenMove(r) /\ WordsFirst(r)
  /\ MovesToCome(r) /\ OneMoveLeft(r)
  /\ OwnRow(r) /\ HireMoves(r) /\ SweepLast(r) /\ CloseLast(r)

\* What a row written by r's transaction is, over the committed row.
WrittenOK(r) ==
  LET a == req[r].app
      h == req[r].handler
  IN  \A b \in Apps : wapp[r][b] # NoApp =>
        IF h = "accept"
        THEN IF b = a THEN OneMove(app[b], wapp[r][b], "ACCEPTED", "CANDIDATE")
             ELSE /\ wapp[r][a] # NoApp /\ Candidate[b] = Candidate[a]
                  /\ OneMove(app[b], wapp[r][b], "WITHDRAWN", "CANDIDATE")
        ELSE /\ b = a
             /\ \/ \E to \in Status, actor \in Actor : OneMove(app[b], wapp[r][b], to, actor)
                \/ h = "extendOffer" /\ ReopenedAndOffered(app[b], wapp[r][b])

\* A status r's transaction gave an offer is being recorded, or is recorded in what it wrote.
OfferOK(r) ==
  LET T == req[r].todo IN
  \A b \in Apps :
    (woffer[r][b].status \in Decisive /\ woffer[r][b].status # offer[b].status) =>
      /\ req[r].handler # "extendOffer"
      /\ \/ T # <<>> /\ Records(Head(T), b, woffer[r][b].status) /\ wapp[r][b] = NoApp
         \/ /\ wapp[r][b] # NoApp
            /\ \E to \in Status, actor \in Actor :
                 /\ <<to, actor>> \in RecordedAs(woffer[r][b].status)
                 /\ OneMove(app[b], wapp[r][b], to, actor)
      /\ woffer[r][b].status = "NEGOTIATING" =>
           \E k \in DOMAIN wmsg[r][b] : wmsg[r][b][k] = "CANDIDATE"

TxInv ==
  /\ FinalInv
  /\ RowsInv
  /\ \A r \in Req : Open(r) => ListOK(r) /\ WrittenOK(r) /\ OfferOK(r)

-----------------------------------------------------------------------------
(* Steps, by what they do to rows. *)

\* Outside its transaction, r leaves applications, offers and everything unfinished alone.
Outside(r) ==
  /\ ~Open(r)
  /\ UNCHANGED <<app, offer, writeSets>>
  /\ \A q \in Req \ {r} : req'[q] = req[q]
  /\ req'[r].pc # "cas"
  /\ req'[r].pc = "assess" => req'[r].handler = "screen"
  /\ req'[r].pc = "tx" => Arrival(r)

\* r found its next move legal and is about to record it.
Checked(r) ==
  LET s == Head(req[r].todo) IN
  /\ req[r].pc = "tx" /\ req[r].todo # <<>> /\ IsMove(s)
  /\ req' = [req EXCEPT ![r].pc = "cas", ![r].saw = AppSeenBy(r, s.app).status]
  /\ UNCHANGED <<tables, writeSets>>

\* What is taken on when a request arrives.
LEMMA ArriveFacts ==
  ASSUME TypeOK, NEW r \in Req, NEW h, NEW a, NEW pc, NEW todo, Arrive(r, h, a, pc, todo)
  PROVE  /\ req[r] = Idle /\ UNCHANGED <<tables, writeSets>>
         /\ req'[r] = Taken(h, a, pc, todo)
         /\ \A q \in Req \ {r} : req'[q] = req[q]
  BY DEF Arrive, TypeOK

LEMMA ArrivalOutside ==
  ASSUME TypeOK, NEW r \in Req, Arrival(r)
  PROVE  Outside(r)
  <1> PICK a \in Apps :
        \/ SubmitApplication(r, a)
        \/ \E to \in PatchTargets : UpdateStatus(r, a, to)
        \/ \E to \in BoardTargets : BoardMove(r, a, to)
        \/ \E t \in Terms, note \in BOOLEAN : ExtendOffer(r, a, t, note)
        \/ \E t \in Terms : UpdateOffer(r, a, t)
        \/ WithdrawOffer(r, a)
        \/ PostEmployerMessage(r, a)
        \/ GetOfferForEmployer(r, a)
        \/ GetMyOffer(r, a)
        \/ Accept(r, a)
        \/ Decline(r, a)
        \/ PostCandidateMessage(r, a)
    BY DEF Arrival
  <1>1. ASSUME NEW h, NEW pc \in {"tx", "load", "mark"}, NEW todo, Arrive(r, h, a, pc, todo)
        PROVE  Outside(r)
    <2>1. /\ req[r] = Idle /\ UNCHANGED <<tables, writeSets>>
          /\ req'[r] = Taken(h, a, pc, todo)
          /\ \A q \in Req \ {r} : req'[q] = req[q]
      BY <1>1, ArriveFacts
    <2>2. Taken(h, a, pc, todo).pc = pc /\ req[r].pc = "idle"
      BY <2>1 DEF Taken, Idle
    <2> QED BY <1>1, <2>1, <2>2 DEF Outside, Open, tables
  <1>2. CASE SubmitApplication(r, a)
    BY <1>2 DEF SubmitApplication, Outside, Open, Idle, Taken, tables, TypeOK
  <1>3. "tx" \in {"tx", "load", "mark"} /\ "load" \in {"tx", "load", "mark"} /\ "mark" \in {"tx", "load", "mark"}
    OBVIOUS
  <1>4. CASE \E to \in PatchTargets : UpdateStatus(r, a, to)
    BY <1>1, <1>3, <1>4, Zenon DEF UpdateStatus
  <1>5. CASE \E to \in BoardTargets : BoardMove(r, a, to)
    BY <1>1, <1>3, <1>5, Zenon DEF BoardMove
  <1>6. CASE \E t \in Terms, note \in BOOLEAN : ExtendOffer(r, a, t, note)
    BY <1>1, <1>3, <1>6, Zenon DEF ExtendOffer
  <1>7. CASE \E t \in Terms : UpdateOffer(r, a, t)
    BY <1>1, <1>3, <1>7, Zenon DEF UpdateOffer
  <1>8. CASE WithdrawOffer(r, a) \/ PostEmployerMessage(r, a) \/ GetOfferForEmployer(r, a)
    BY <1>1, <1>3, <1>8, Zenon DEF WithdrawOffer, PostEmployerMessage, GetOfferForEmployer
  <1>9. CASE GetMyOffer(r, a) \/ Accept(r, a) \/ Decline(r, a) \/ PostCandidateMessage(r, a)
    BY <1>1, <1>3, <1>9, Zenon DEF GetMyOffer, Accept, Decline, PostCandidateMessage
  <1> QED BY <1>2, <1>4, <1>5, <1>6, <1>7, <1>8, <1>9

LEMMA Kinds ==
  ASSUME TypeOK, NEW r \in Req, Arrival(r) \/ Serve(r) \/ Die(r)
  PROVE  \/ Outside(r)      \/ GiveUp(r)
         \/ InsertApplication(r) \/ RecordScreening(r)
         \/ WriteOffer(r)   \/ WriteMessage(r) \/ Checked(r) \/ CompareAndSwap(r)
         \/ FindOthers(r)   \/ CloseAnother(r) \/ Commit(r)
  <1>0. req \in [Req -> Request]
    BY DEF TypeOK
  <1>1. CASE AddSubmittedEvent(r)
    BY <1>0, <1>1 DEF Outside, Open, AddSubmittedEvent, GoTo, Request
  <1>2. CASE ReadForScreening(r)
    BY <1>0, <1>2 DEF Outside, Open, ReadForScreening, Idle, Request, tables
  <1>3. CASE LoadThread(r)
    BY <1>0, <1>3 DEF Outside, Open, LoadThread, Request, tables
  <1>4. CASE MarkThreadRead(r)
    BY <1>0, <1>4 DEF Outside, Open, MarkThreadRead, Idle, Request, tables
  <1>5. CASE RespondToEmployer(r)
    BY <1>0, <1>5 DEF Outside, Open, RespondToEmployer, Idle, Request, tables
  <1>6. CASE CheckMove(r)
    BY <1>6 DEF CheckMove, Checked, Running, IsMove
  <1>7. CASE LoseTheRace(r) \/ Expire(r) \/ Die(r)
    BY <1>7 DEF LoseTheRace, Expire, Die
  <1> QED BY <1>1, <1>2, <1>3, <1>4, <1>5, <1>6, <1>7, ArrivalOutside DEF Serve

\* What a statement list is once its head is taken off.
LEMMA Rest ==
  ASSUME TypeOK, NEW r \in Req, req[r].todo # <<>>
  PROVE  LET T == req[r].todo IN
         /\ T \in Seq(Stmt) /\ Len(T) \in Nat /\ Len(T) > 0 /\ DOMAIN T = 1..Len(T)
         /\ Head(T) = T[1] /\ T[1] \in Stmt /\ 1 \in DOMAIN T
         /\ Len(Tail(T)) = Len(T) - 1 /\ DOMAIN Tail(T) = 1..(Len(T) - 1)
         /\ \A i \in DOMAIN Tail(T) : Tail(T)[i] = T[i + 1] /\ i + 1 \in DOMAIN T
         /\ 2 \in DOMAIN T => Tail(T) # <<>> /\ Head(Tail(T)) = T[2]
  <1> DEFINE T == req[r].todo
  <1>1. T \in Seq(Stmt) /\ T # <<>>
    BY DEF TypeOK, Request
  <1> HIDE DEF T
  <1>2. /\ T \in Seq(Stmt) /\ Len(T) \in Nat /\ Len(T) > 0 /\ DOMAIN T = 1..Len(T)
        /\ Head(T) = T[1] /\ T[1] \in Stmt /\ 1 \in DOMAIN T
        /\ Tail(T) \in Seq(Stmt) /\ Len(Tail(T)) = Len(T) - 1 /\ DOMAIN Tail(T) = 1..(Len(T) - 1)
        /\ \A i \in DOMAIN Tail(T) : Tail(T)[i] = T[i + 1] /\ i + 1 \in DOMAIN T
    BY <1>1
  <1>3. ASSUME 2 \in DOMAIN T
        PROVE  Tail(T) # <<>> /\ Head(Tail(T)) = T[2]
    <2> DEFINE U == Tail(T)
    <2>1. U \in Seq(Stmt) /\ 1 \in DOMAIN U /\ U[1] = T[2]
      BY <1>2, <1>3
    <2> HIDE DEF U
    <2>2. U # <<>> /\ Head(U) = U[1]
      BY <2>1
    <2> QED BY <2>1, <2>2 DEF U
  <1> QED BY <1>2, <1>3 DEF T

-----------------------------------------------------------------------------
(* The lists handlers start with. *)

\* Short lists put together.
LEMMA Joined ==
  ASSUME NEW S, NEW x \in S, NEW y \in S, NEW z \in S
  PROVE  /\ <<x>> \o <<y>> = <<x, y>>
         /\ <<x>> \o <<y, z>> = <<x, y, z>>
         /\ <<x, y>> \o <<z>> = <<x, y, z>>
         /\ <<x>> \o <<>> = <<x>> /\ <<x, y>> \o <<>> = <<x, y>> /\ <<x, y, z>> \o <<>> = <<x, y, z>>
  <1>1. <<x>> \in Seq(S) /\ <<y>> \in Seq(S) /\ <<z>> \in Seq(S) /\ <<x, y>> \in Seq(S) /\ <<y, z>> \in Seq(S) /\ <<x, y, z>> \in Seq(S)
    OBVIOUS
  <1>2. <<x>> \o <<y>> = <<x, y>>
    <2> DEFINE u == <<x>> \o <<y>>
    <2>1. u \in Seq(S) /\ Len(u) = 2 /\ \A i \in 1..2 : u[i] = <<x, y>>[i]
      OBVIOUS
    <2> HIDE DEF u
    <2>2. Len(<<x, y>>) = 2
      OBVIOUS
    <2>3. u = <<x, y>>
      BY <1>1, <2>1, <2>2, SeqEqual
    <2> QED BY <2>3 DEF u
  <1>3. <<x>> \o <<y, z>> = <<x, y, z>>
    <2> DEFINE u == <<x>> \o <<y, z>>
    <2>1. u \in Seq(S) /\ Len(u) = 3 /\ \A i \in 1..3 : u[i] = <<x, y, z>>[i]
      OBVIOUS
    <2> HIDE DEF u
    <2>2. Len(<<x, y, z>>) = 3
      OBVIOUS
    <2>3. u = <<x, y, z>>
      BY <1>1, <2>1, <2>2, SeqEqual
    <2> QED BY <2>3 DEF u
  <1>4. <<x, y>> \o <<z>> = <<x, y, z>>
    <2> DEFINE u == <<x, y>> \o <<z>>
    <2>1. u \in Seq(S) /\ Len(u) = 3 /\ \A i \in 1..3 : u[i] = <<x, y, z>>[i]
      OBVIOUS
    <2> HIDE DEF u
    <2>2. Len(<<x, y, z>>) = 3
      OBVIOUS
    <2>3. u = <<x, y, z>>
      BY <1>1, <2>1, <2>2, SeqEqual
    <2> QED BY <2>3 DEF u
  <1>5. <<x>> \o <<>> = <<x>> /\ <<x, y>> \o <<>> = <<x, y>> /\ <<x, y, z>> \o <<>> = <<x, y, z>>
    BY <1>1, ConcatEmptySeq
  <1> QED BY <1>2, <1>3, <1>4, <1>5

LEMMA JoinedPairs ==
  ASSUME NEW S, NEW x \in S, NEW y \in S, NEW z \in S, NEW w \in S
  PROVE  <<x, y>> \o <<z, w>> = <<x, y, z, w>>
  <1> DEFINE u == <<x, y>> \o <<z, w>>
  <1>1. u \in Seq(S) /\ Len(u) = 4 /\ \A i \in 1..4 : u[i] = <<x, y, z, w>>[i]
    OBVIOUS
  <1> HIDE DEF u
  <1>2. Len(<<x, y, z, w>>) = 4 /\ <<x, y, z, w>> \in Seq(S)
    OBVIOUS
  <1>3. u = <<x, y, z, w>>
    BY <1>1, <1>2, SeqEqual
  <1> QED BY <1>3 DEF u

\* Enough for a handler that keeps to its own application, while nothing is written.
LEMMA OwnList ==
  ASSUME NEW r \in Req, NEW a \in Apps, req'[r].app = a, req'[r].handler # "accept",
         \A i \in DOMAIN req'[r].todo :
           req'[r].todo[i].app = a /\ req'[r].todo[i].op \in {"offer", "message", "move"},
         wapp'[r][a] = NoApp,
         DecisionThenMove(r)', WordsFirst(r)', OneMoveLeft(r)'
  PROVE  ListOK(r)'
  <1>1. MovesToCome(r)' /\ OwnRow(r)' /\ HireMoves(r)' /\ SweepLast(r)' /\ CloseLast(r)'
    BY DEF MovesToCome, OwnRow, HireMoves, SweepLast, CloseLast
  <1> QED BY <1>1 DEF ListOK

\* A list that gives no offer a status but EXTENDED, and has at most one move.
LEMMA PlainList ==
  ASSUME NEW r \in Req, NEW a \in Apps, req'[r].app = a, req'[r].handler # "accept",
         \A i \in DOMAIN req'[r].todo :
           /\ req'[r].todo[i].app = a /\ req'[r].todo[i].op \in {"offer", "message", "move"}
           /\ req'[r].todo[i].op = "offer" => req'[r].todo[i].status \notin Decisive,
         \A i, j \in DOMAIN req'[r].todo :
           IsMove(req'[r].todo[i]) /\ IsMove(req'[r].todo[j]) => i = j,
         DOMAIN req'[r].todo \subseteq Nat,
         wapp'[r][a] = NoApp
  PROVE  ListOK(r)'
  <1>1. DecisionThenMove(r)' /\ WordsFirst(r)'
    BY DEF DecisionThenMove, WordsFirst, Decisive, OfferStatus
  <1>2. OneMoveLeft(r)'
    BY DEF OneMoveLeft
  <1> QED BY <1>1, <1>2, OwnList

\* A list that gives an offer a status and records it with a move.
LEMMA DecisionList ==
  ASSUME NEW r \in Req, NEW a \in Apps, NEW status, NEW to, NEW actor,
         req'[r].app = a, req'[r].handler \notin {"accept", "extendOffer"},
         req'[r].todo = <<PutOffer(a, status, NoTerms), Move(a, to, actor)>>,
         <<to, actor>> \in RecordedAs(status), status # "NEGOTIATING",
         wapp'[r][a] = NoApp
  PROVE  ListOK(r)'
  <1> DEFINE T == <<PutOffer(a, status, NoTerms), Move(a, to, actor)>>
  <1>1. DOMAIN T = {1, 2} /\ T[1] = PutOffer(a, status, NoTerms) /\ T[2] = Move(a, to, actor)
    OBVIOUS
  <1>2. /\ T[1].op = "offer" /\ T[1].app = a /\ T[1].status = status
        /\ T[2].op = "move" /\ T[2].app = a /\ T[2].status = to /\ T[2].by = actor
    BY <1>1 DEF PutOffer, Move
  <1> HIDE DEF T
  <1>3. req'[r].todo = T
    BY DEF T
  <1>4. DecisionThenMove(r)' /\ WordsFirst(r)' /\ OneMoveLeft(r)'
    BY <1>1, <1>2, <1>3 DEF DecisionThenMove, WordsFirst, OneMoveLeft, Records, IsMove
  <1> QED BY <1>1, <1>2, <1>3, <1>4, OwnList

LEMMA StatementFields ==
  ASSUME NEW a, NEW x, NEW y
  PROVE  /\ PutOffer(a, x, y).op = "offer" /\ PutOffer(a, x, y).app = a /\ PutOffer(a, x, y).status = x
         /\ Say(a, x).op = "message" /\ Say(a, x).app = a
         /\ Move(a, x, y).op = "move" /\ Move(a, x, y).app = a
         /\ Move(a, x, y).status = x /\ Move(a, x, y).by = y
         /\ Sweep(a).op = "sweep" /\ Sweep(a).app = a
         /\ Close(a, x).op = "close" /\ Close(a, x).app = a /\ Close(a, x).rest = x
  BY DEF PutOffer, Say, Move, Sweep, Close

LEMMA Statuses ==
  /\ None \notin Decisive /\ "EXTENDED" \notin Decisive /\ "REJECTED" \in Past
  /\ <<"ACCEPTED", "CANDIDATE">> \in RecordedAs("ACCEPTED")
  /\ <<"WITHDRAWN", "CANDIDATE">> \in RecordedAs("DECLINED")
  /\ <<"NEGOTIATING", "CANDIDATE">> \in RecordedAs("NEGOTIATING")
  /\ <<"REJECTED", "EMPLOYER">> \in RecordedAs("WITHDRAWN")
  /\ <<"WITHDRAWN", "CANDIDATE">> \in RecordedAs("WITHDRAWN")
  BY DEF None, Decisive, OfferStatus, Past, Status, RecordedAs

LEMMA ArrivalLists ==
  ASSUME TypeOK, RowsInv, NEW r \in Req, Arrival(r), req'[r].pc = "tx"
  PROVE  ListOK(r)' /\ \A b \in Apps : wapp'[r][b] = NoApp /\ woffer'[r][b] = NoOffer /\ wmsg'[r][b] = <<>>
  <1>1. ASSUME NEW h, NEW a \in Apps, NEW pc, NEW todo, Arrive(r, h, a, pc, todo)
        PROVE  /\ req'[r].app = a /\ req'[r].handler = h /\ req'[r].todo = todo /\ req'[r].pc = pc
               /\ \A b \in Apps : wapp'[r][b] = NoApp /\ woffer'[r][b] = NoOffer /\ wmsg'[r][b] = <<>>
               /\ app' = app
    <2>1. req[r] = Idle /\ UNCHANGED <<tables, writeSets>> /\ req'[r] = Taken(h, a, pc, todo)
      BY <1>1, ArriveFacts
    <2>2. ~Open(r)
      BY <2>1 DEF Open, Idle
    <2> QED BY <2>1, <2>2 DEF RowsInv, Taken, tables, writeSets
  <1> PICK a \in Apps :
        \/ SubmitApplication(r, a)
        \/ \E to \in PatchTargets : UpdateStatus(r, a, to)
        \/ \E to \in BoardTargets : BoardMove(r, a, to)
        \/ \E t \in Terms, note \in BOOLEAN : ExtendOffer(r, a, t, note)
        \/ \E t \in Terms : UpdateOffer(r, a, t)
        \/ WithdrawOffer(r, a)
        \/ PostEmployerMessage(r, a)
        \/ GetOfferForEmployer(r, a)
        \/ GetMyOffer(r, a)
        \/ Accept(r, a)
        \/ Decline(r, a)
        \/ PostCandidateMessage(r, a)
    BY DEF Arrival
  <1>2. ASSUME NEW h, NEW s, h # "accept", s.app = a, s.op \in {"offer", "message", "move"},
               s.op = "offer" => s.status \notin Decisive, Arrive(r, h, a, "tx", <<s>>)
        PROVE  ListOK(r)'
    <2>1. /\ req'[r].app = a /\ req'[r].handler = h /\ req'[r].todo = <<s>>
          /\ wapp'[r][a] = NoApp
      BY <1>1, <1>2
    <2>2. DOMAIN <<s>> = {1} /\ <<s>>[1] = s
      OBVIOUS
    <2>3. /\ \A i \in DOMAIN req'[r].todo :
               /\ req'[r].todo[i].app = a /\ req'[r].todo[i].op \in {"offer", "message", "move"}
               /\ req'[r].todo[i].op = "offer" => req'[r].todo[i].status \notin Decisive
          /\ \A i, j \in DOMAIN req'[r].todo :
               IsMove(req'[r].todo[i]) /\ IsMove(req'[r].todo[j]) => i = j
          /\ DOMAIN req'[r].todo \subseteq Nat
      BY <1>2, <2>1, <2>2
    <2> QED BY <1>2, <2>1, <2>3, PlainList
  <1>3. CASE SubmitApplication(r, a)
    BY <1>3 DEF SubmitApplication, Taken, TypeOK
  <1>4. CASE \E to \in PatchTargets : UpdateStatus(r, a, to)
    <2> PICK to \in PatchTargets : UpdateStatus(r, a, to)
      BY <1>4
    <2>1. Arrive(r, "updateStatus", a, "tx", <<Move(a, to, "CANDIDATE")>>)
      BY DEF UpdateStatus
    <2>2. "updateStatus" # "accept" /\ Move(a, to, "CANDIDATE").app = a /\ Move(a, to, "CANDIDATE").op = "move"
      BY StatementFields
    <2> QED BY <1>1, <1>2, <2>1, <2>2
  <1>5. CASE \E to \in BoardTargets : BoardMove(r, a, to)
    <2> PICK to \in BoardTargets : BoardMove(r, a, to)
      BY <1>5
    <2>1. Arrive(r, "boardMove", a, "tx", <<Move(a, to, "EMPLOYER")>>)
      BY DEF BoardMove
    <2>2. "boardMove" # "accept" /\ Move(a, to, "EMPLOYER").app = a /\ Move(a, to, "EMPLOYER").op = "move"
      BY StatementFields
    <2> QED BY <1>1, <1>2, <2>1, <2>2
  <1>6. CASE \E t \in Terms : UpdateOffer(r, a, t)
    <2> PICK t \in Terms : UpdateOffer(r, a, t)
      BY <1>6
    <2>1. Arrive(r, "updateOffer", a, "tx", <<PutOffer(a, None, t)>>)
      BY DEF UpdateOffer
    <2>2. /\ "updateOffer" # "accept" /\ PutOffer(a, None, t).app = a /\ PutOffer(a, None, t).op = "offer"
          /\ PutOffer(a, None, t).status \notin Decisive
      BY StatementFields, Statuses
    <2> QED BY <1>1, <1>2, <2>1, <2>2
  <1>7. CASE PostEmployerMessage(r, a)
    <2>1. Arrive(r, "postEmployerMessage", a, "tx", <<Say(a, "EMPLOYER")>>)
      BY <1>7 DEF PostEmployerMessage
    <2>2. "postEmployerMessage" # "accept" /\ Say(a, "EMPLOYER").app = a /\ Say(a, "EMPLOYER").op = "message"
      BY StatementFields
    <2> QED BY <1>1, <1>2, <2>1, <2>2
  <1>8. CASE GetOfferForEmployer(r, a)
    <2>1. Arrive(r, "getOfferForEmployer", a, "mark", <<>>)
      BY <1>8 DEF GetOfferForEmployer
    <2> QED BY <1>1, <2>1
  <1>9. CASE GetMyOffer(r, a)
    <2>1. Arrive(r, "getMyOffer", a, "load", <<>>)
      BY <1>9 DEF GetMyOffer
    <2> QED BY <1>1, <2>1
  <1>10. CASE WithdrawOffer(r, a)
    <2>1. Arrive(r, "withdrawOffer", a, "tx",
                 <<PutOffer(a, "WITHDRAWN", NoTerms), Move(a, "REJECTED", "EMPLOYER")>>)
      BY <1>10 DEF WithdrawOffer
    <2>2. "withdrawOffer" \notin {"accept", "extendOffer"} /\ "WITHDRAWN" # "NEGOTIATING"
      OBVIOUS
    <2> QED BY <1>1, <2>1, <2>2, DecisionList, Statuses
  <1>11. CASE Decline(r, a)
    <2>1. Arrive(r, "decline", a, "tx",
                 <<PutOffer(a, "DECLINED", NoTerms), Move(a, "WITHDRAWN", "CANDIDATE")>>)
      BY <1>11 DEF Decline
    <2>2. "decline" \notin {"accept", "extendOffer"} /\ "DECLINED" # "NEGOTIATING"
      OBVIOUS
    <2> QED BY <1>1, <2>1, <2>2, DecisionList, Statuses
  <1>12. CASE Accept(r, a)
    <2> DEFINE T == <<PutOffer(a, "ACCEPTED", NoTerms), Move(a, "ACCEPTED", "CANDIDATE"), Sweep(a)>>
    <2>1. Arrive(r, "accept", a, "tx", T)
      BY <1>12 DEF Accept
    <2>2. /\ DOMAIN T = {1, 2, 3} /\ Len(T) = 3 /\ T[1] = PutOffer(a, "ACCEPTED", NoTerms)
          /\ T[2] = Move(a, "ACCEPTED", "CANDIDATE") /\ T[3] = Sweep(a)
      OBVIOUS
    <2> HIDE DEF T
    <2>3. /\ T[1].op = "offer" /\ T[1].app = a /\ T[1].status = "ACCEPTED"
          /\ T[2].op = "move"  /\ T[2].app = a /\ T[2].status = "ACCEPTED" /\ T[2].by = "CANDIDATE"
          /\ T[3].op = "sweep" /\ T[3].app = a
      BY <2>2, StatementFields
    <2>4. /\ req'[r].todo = T /\ req'[r].app = a /\ req'[r].handler = "accept"
          /\ \A b \in Apps : wapp'[r][b] = NoApp
      BY <1>1, <2>1
    <2>5. DecisionThenMove(r)' /\ WordsFirst(r)'
      BY <2>2, <2>3, <2>4, Statuses DEF DecisionThenMove, WordsFirst, Records
    <2>6. MovesToCome(r)' /\ OneMoveLeft(r)'
      BY <2>2, <2>3, <2>4 DEF MovesToCome, OneMoveLeft, IsMove
    <2>7. OwnRow(r)' /\ HireMoves(r)'
      BY <2>2, <2>3, <2>4 DEF OwnRow, HireMoves, IsMove
    <2>8. SweepLast(r)' /\ CloseLast(r)'
      BY <2>2, <2>3, <2>4 DEF SweepLast, CloseLast, IsMove
    <2> QED BY <1>1, <2>1, <2>5, <2>6, <2>7, <2>8 DEF ListOK
  <1>13. CASE PostCandidateMessage(r, a)
    <2>1. CASE offer[a].status = "NEGOTIATING"
      <3>1. <<Say(a, "CANDIDATE")>> \o <<>> = <<Say(a, "CANDIDATE")>>
        OBVIOUS
      <3>2. Arrive(r, "postCandidateMessage", a, "tx", <<Say(a, "CANDIDATE")>>)
        BY <1>13, <2>1, <3>1 DEF PostCandidateMessage
      <3>3. "postCandidateMessage" # "accept" /\ Say(a, "CANDIDATE").app = a /\ Say(a, "CANDIDATE").op = "message"
        BY StatementFields
      <3> QED BY <1>1, <1>2, <3>2, <3>3
    <2>2. CASE offer[a].status # "NEGOTIATING"
      <3> DEFINE put  == PutOffer(a, "NEGOTIATING", NoTerms)
                 move == Move(a, "NEGOTIATING", "CANDIDATE")
                 T    == <<Say(a, "CANDIDATE"), put, move>>
      <3>1. <<Say(a, "CANDIDATE")>> \o <<put, move>> = T
        <4>1. Say(a, "CANDIDATE") \in Stmt /\ put \in Stmt /\ move \in Stmt
          BY StatementTypes DEF Author, OfferStatus, Status, Actor
        <4> HIDE DEF put, move
        <4> QED BY <4>1, Joined
      <3>2. Arrive(r, "postCandidateMessage", a, "tx", T)
        BY <1>13, <2>2, <3>1 DEF PostCandidateMessage
      <3>3. DOMAIN T = {1, 2, 3} /\ T[1] = Say(a, "CANDIDATE") /\ T[2] = put /\ T[3] = move
        OBVIOUS
      <3>4. /\ put.op = "offer" /\ put.app = a /\ put.status = "NEGOTIATING"
            /\ move.op = "move" /\ move.app = a /\ move.status = "NEGOTIATING" /\ move.by = "CANDIDATE"
            /\ T[1].op = "message" /\ T[1].app = a
        BY <3>3, StatementFields
      <3> HIDE DEF T, put, move
      <3>5. /\ req'[r].todo = T /\ req'[r].app = a /\ req'[r].handler = "postCandidateMessage"
            /\ wapp'[r][a] = NoApp
        BY <1>1, <3>2
      <3>6. DecisionThenMove(r)' /\ WordsFirst(r)' /\ OneMoveLeft(r)'
        BY <3>3, <3>4, <3>5, Statuses DEF DecisionThenMove, WordsFirst, OneMoveLeft, Records, IsMove
      <3>7. \A i \in DOMAIN T : T[i].app = a /\ T[i].op \in {"offer", "message", "move"}
        BY <3>3, <3>4
      <3> QED BY <1>1, <3>2, <3>5, <3>6, <3>7, OwnList
    <2> QED BY <2>1, <2>2
  <1>14. CASE \E t \in Terms, note \in BOOLEAN : ExtendOffer(r, a, t, note)
    <2> PICK t \in Terms, note \in BOOLEAN : ExtendOffer(r, a, t, note)
      BY <1>14
    <2> DEFINE put   == PutOffer(a, "EXTENDED", t)
               say   == Say(a, "EMPLOYER")
               back  == Move(a, "SCREENING", "EMPLOYER")
               make  == Move(a, "OFFER", "EMPLOYER")
               words == IF note THEN <<say>> ELSE <<>>
               moves == CASE app[a].status = "OFFER"    -> <<>>
                          [] app[a].status = "REJECTED" -> <<back, make>>
                          [] OTHER                      -> <<make>>
               T     == <<put>> \o words \o moves
    <2>1. Arrive(r, "extendOffer", a, "tx", T)
      BY DEF ExtendOffer
    <2>2. /\ req'[r].todo = T /\ req'[r].app = a /\ req'[r].handler = "extendOffer"
          /\ wapp'[r][a] = NoApp /\ app'[a] = app[a]
          /\ \A b \in Apps : wapp'[r][b] = NoApp /\ woffer'[r][b] = NoOffer /\ wmsg'[r][b] = <<>>
      BY <1>1, <2>1
    <2>3. /\ put.op = "offer" /\ put.app = a /\ put.status \notin Decisive
          /\ say.op = "message" /\ say.app = a
          /\ back.op = "move" /\ back.app = a /\ make.op = "move" /\ make.app = a
      BY StatementFields, Statuses
    <2> HIDE DEF put, say, back, make
    <2>4. \/ T = <<put>>            \/ T = <<put, say>>
          \/ T = <<put, make>>      \/ T = <<put, say, make>>
          \/ app[a].status = "REJECTED" /\ (T = <<put, back, make>> \/ T = <<put, say, back, make>>)
      <3>1. /\ words = <<>> \/ words = <<say>>
            /\ moves = <<>> \/ moves = <<make>> \/ (app[a].status = "REJECTED" /\ moves = <<back, make>>)
        OBVIOUS
      <3>2. put \in Stmt /\ say \in Stmt /\ back \in Stmt /\ make \in Stmt
        BY StatementTypes DEF Author, OfferStatus, Status, Actor, put, say, back, make
      <3>3. <<put>> \o <<>> = <<put>> /\ <<put>> \o <<say>> = <<put, say>>
        BY <3>2, Joined
      <3>4. <<put, say>> \o <<>> = <<put, say>> /\ <<put>> \o <<make>> = <<put, make>>
        BY <3>2, Joined
      <3>5. <<put, say>> \o <<make>> = <<put, say, make>>
        BY <3>2, Joined
      <3>6. <<put>> \o <<back, make>> = <<put, back, make>>
        BY <3>2, Joined
      <3>7. <<put, say>> \o <<back, make>> = <<put, say, back, make>>
        BY <3>2, JoinedPairs
      <3> HIDE DEF words, moves
      <3> QED BY <3>1, <3>3, <3>4, <3>5, <3>6, <3>7
    <2> HIDE DEF T
    <2>5. \A i \in DOMAIN T : /\ T[i].app = a /\ T[i].op \in {"offer", "message", "move"}
                              /\ T[i].op = "offer" => T[i].status \notin Decisive
      BY <2>3, <2>4
    <2>6. ASSUME NEW i \in DOMAIN T, NEW j \in DOMAIN T, i < j, IsMove(T[i]), IsMove(T[j])
          PROVE  T[i] = back /\ T[j] = make /\ app[a].status = "REJECTED"
      <3>1. T[i] # put /\ T[i] # say /\ T[j] # put /\ T[j] # say
        BY <2>3, <2>6 DEF IsMove
      <3> QED BY <2>4, <2>6, <3>1
    <2>7. OneMoveLeft(r)'
      BY <2>2, <2>6, Statuses DEF OneMoveLeft, back, make
    <2>8. DecisionThenMove(r)' /\ WordsFirst(r)'
      BY <2>2, <2>5 DEF DecisionThenMove, WordsFirst, Decisive, OfferStatus
    <2> QED BY <2>2, <2>5, <2>7, <2>8, OwnList
  <1> QED BY <1>3, <1>4, <1>5, <1>6, <1>7, <1>8, <1>9, <1>10, <1>11, <1>12, <1>13, <1>14

-----------------------------------------------------------------------------
(* What a step of one request leaves to the others. *)

Step(r) ==
  \/ Outside(r)      \/ GiveUp(r)
  \/ InsertApplication(r) \/ RecordScreening(r)
  \/ WriteOffer(r)   \/ WriteMessage(r) \/ Checked(r) \/ CompareAndSwap(r)
  \/ FindOthers(r)   \/ CloseAnother(r) \/ Commit(r)

LEMMA OthersKeepTheirs ==
  ASSUME TypeOK, NEW r \in Req, Step(r), NEW q \in Req \ {r}
  PROVE  req'[q] = req[q] /\ wapp'[q] = wapp[q] /\ woffer'[q] = woffer[q] /\ wmsg'[q] = wmsg[q]
  <1>1. /\ req \in [Req -> Request] /\ wapp \in [Req -> [Apps -> AppRow]]
        /\ woffer \in [Req -> [Apps -> OfferRow]] /\ wmsg \in [Req -> [Apps -> Seq(Author)]]
    BY DEF TypeOK
  <1>2. ASSUME NothingWritten(r)
        PROVE  wapp'[q] = wapp[q] /\ woffer'[q] = woffer[q] /\ wmsg'[q] = wmsg[q]
    BY <1>1, <1>2 DEF NothingWritten
  <1>3. CASE Outside(r)
    BY <1>3 DEF Outside, writeSets
  <1>4. CASE GiveUp(r) \/ Commit(r)
    BY <1>1, <1>2, <1>4 DEF GiveUp, Commit
  <1>5. CASE InsertApplication(r) \/ RecordScreening(r)
    BY <1>1, <1>5 DEF InsertApplication, RecordScreening, GoTo, writeSets
  <1>6. CASE Checked(r) \/ FindOthers(r) \/ CloseAnother(r)
    BY <1>1, <1>6 DEF Checked, FindOthers, CloseAnother, writeSets
  <1>7. CASE WriteOffer(r)
    BY <1>1, <1>7 DEF WriteOffer
  <1>8. CASE WriteMessage(r)
    BY <1>1, <1>8 DEF WriteMessage
  <1>9. CASE CompareAndSwap(r)
    BY <1>1, <1>9 DEF CompareAndSwap
  <1> QED BY <1>3, <1>4, <1>5, <1>6, <1>7, <1>8, <1>9 DEF Step

\* A transaction writes existing applications only.
LEMMA WrittenExist ==
  ASSUME TxInv, NEW r \in Req, NEW b \in Apps, wapp[r][b] # NoApp
  PROVE  app[b].status # None
  <1>1. Open(r) /\ WrittenOK(r)
    BY DEF TxInv, RowsInv
  <1> QED BY <1>1 DEF WrittenOK, OneMove, ReopenedAndOffered, None

\* The committed rows under another's written ones stay as they are.
LEMMA CommittedStay ==
  ASSUME TxInv, NEW r \in Req, Step(r), NEW q \in Req \ {r}, NEW b \in Apps
  PROVE  /\ wapp[q][b] # NoApp => app'[b].status = app[b].status /\ app'[b].trail = app[b].trail
         /\ woffer[q][b] # NoOffer => offer'[b] = offer[b]
         /\ app[b].status \in Past => app'[b].status \in Past
  <1>1. TypeOK /\ app \in [Apps -> AppRow] /\ offer \in [Apps -> OfferRow]
    BY DEF TxInv, FinalInv, TInv, TypeOK
  <1>2. CASE Outside(r) \/ GiveUp(r) \/ WriteOffer(r) \/ WriteMessage(r) \/ Checked(r) \/ CompareAndSwap(r)
             \/ FindOthers(r) \/ CloseAnother(r)
    <2>1. app' = app /\ offer' = offer
      BY <1>2 DEF Outside, GiveUp, WriteOffer, WriteMessage, Checked, CompareAndSwap, FindOthers,
                  CloseAnother, tables
    <2> QED BY <2>1
  <1>3. CASE InsertApplication(r)
    <2>1. offer' = offer /\ (app' = app \/ (app[req[r].app].status = None /\ app' = [app EXCEPT ![req[r].app] = Submitted]))
      BY <1>3 DEF InsertApplication
    <2>2. None \notin Past
      BY DEF None, Past, Status
    <2>3. app'[b] = app[b] \/ app[b].status = None
      BY <1>1, <2>1
    <2> QED BY <2>1, <2>2, <2>3, WrittenExist
  <1>4. CASE RecordScreening(r)
    <2>1. offer' = offer /\ app' = [app EXCEPT ![req[r].app].screened = TRUE]
      BY <1>4 DEF RecordScreening
    <2>2. app'[b].status = app[b].status /\ app'[b].trail = app[b].trail
      BY <1>1, <2>1 DEF AppRow
    <2> QED BY <2>1, <2>2
  <1>5. CASE Commit(r)
    <2>1. /\ app'[b] = IF wapp[r][b] = NoApp THEN app[b] ELSE wapp[r][b]
          /\ offer'[b] = IF woffer[r][b] = NoOffer THEN offer[b] ELSE woffer[r][b]
      BY <1>5 DEF Commit, AppSeenBy, OfferSeenBy
    <2>2. wapp[r][b] = NoApp \/ wapp[q][b] = NoApp
      BY DEF TxInv, FinalInv
    <2>3. woffer[r][b] = NoOffer \/ woffer[q][b] = NoOffer
      BY DEF TxInv, RowsInv
    <2>4. wapp[r][b] = NoApp \/ wapp[r][b].status \in Past
      BY DEF TxInv, RowsInv
    <2> QED BY <2>1, <2>2, <2>3, <2>4
  <1> QED BY <1>2, <1>3, <1>4, <1>5 DEF Step

\* So what holds of an open transaction holds after a step of another request.
LEMMA OthersStay ==
  ASSUME TxInv, NEW r \in Req, Step(r), NEW q \in Req \ {r}, Open(q)
  PROVE  ListOK(q)' /\ WrittenOK(q)' /\ OfferOK(q)'
  <1>1. req'[q] = req[q] /\ wapp'[q] = wapp[q] /\ woffer'[q] = woffer[q] /\ wmsg'[q] = wmsg[q]
    BY OthersKeepTheirs DEF TxInv, FinalInv, TInv
  <1>2. \A b \in Apps :
          /\ wapp[q][b] # NoApp => app'[b].status = app[b].status /\ app'[b].trail = app[b].trail
          /\ woffer[q][b] # NoOffer => offer'[b] = offer[b]
          /\ app[b].status \in Past => app'[b].status \in Past
    BY CommittedStay
  <1>3. ListOK(q) /\ WrittenOK(q) /\ OfferOK(q)
    BY DEF TxInv
  <1>4. req[q].app \in Apps
    BY DEF TxInv, FinalInv, TInv, TypeOK, Request, Open
  <1>5. ASSUME NEW b \in Apps, NEW to, NEW actor, wapp[q][b] # NoApp, OneMove(app[b], wapp[q][b], to, actor)
        PROVE  OneMove(app'[b], wapp'[q][b], to, actor)
    BY <1>1, <1>2, <1>5 DEF OneMove
  <1>6. NoApp.status # "SCREENING"
    BY DEF NoApp, None
  <1>7. MovesToCome(q)'
    BY <1>1, <1>2, <1>3, <1>4, <1>6 DEF ListOK, MovesToCome, Reopening, OneMove
  <1>8. OneMoveLeft(q)'
    BY <1>1, <1>2, <1>3, <1>4 DEF ListOK, OneMoveLeft
  <1>9. DecisionThenMove(q)' /\ WordsFirst(q)' /\ OwnRow(q)' /\ HireMoves(q)' /\ SweepLast(q)' /\ CloseLast(q)'
    BY <1>1, <1>3 DEF ListOK, DecisionThenMove, WordsFirst, OwnRow, HireMoves, SweepLast, CloseLast
  <1>10. WrittenOK(q)'
    <2> SUFFICES ASSUME NEW b \in Apps, wapp[q][b] # NoApp
                 PROVE  IF req[q].handler = "accept"
                        THEN IF b = req[q].app THEN OneMove(app'[b], wapp'[q][b], "ACCEPTED", "CANDIDATE")
                             ELSE /\ wapp[q][req[q].app] # NoApp /\ Candidate[b] = Candidate[req[q].app]
                                  /\ OneMove(app'[b], wapp'[q][b], "WITHDRAWN", "CANDIDATE")
                        ELSE /\ b = req[q].app
                             /\ \/ \E to \in Status, actor \in Actor : OneMove(app'[b], wapp'[q][b], to, actor)
                                \/ req[q].handler = "extendOffer" /\ ReopenedAndOffered(app'[b], wapp'[q][b])
      BY <1>1 DEF WrittenOK
    <2>1. ReopenedAndOffered(app[b], wapp[q][b]) => ReopenedAndOffered(app'[b], wapp'[q][b])
      BY <1>1, <1>2 DEF ReopenedAndOffered
    <2> QED BY <1>3, <1>5, <2>1 DEF WrittenOK
  <1>11. OfferOK(q)'
    <2> SUFFICES ASSUME NEW b \in Apps, woffer[q][b].status \in Decisive, woffer[q][b].status # offer'[b].status
                 PROVE  /\ req[q].handler # "extendOffer"
                        /\ \/ /\ req[q].todo # <<>>
                              /\ Records(Head(req[q].todo), b, woffer[q][b].status) /\ wapp[q][b] = NoApp
                           \/ /\ wapp[q][b] # NoApp
                              /\ \E to \in Status, actor \in Actor :
                                   /\ <<to, actor>> \in RecordedAs(woffer[q][b].status)
                                   /\ OneMove(app'[b], wapp'[q][b], to, actor)
                        /\ woffer[q][b].status = "NEGOTIATING" =>
                             \E k \in DOMAIN wmsg[q][b] : wmsg[q][b][k] = "CANDIDATE"
      BY <1>1 DEF OfferOK
    <2>1. woffer[q][b] # NoOffer
      BY Statuses DEF NoOffer
    <2>2. woffer[q][b].status # offer[b].status
      BY <1>2, <2>1
    <2> QED BY <1>3, <1>5, <2>2 DEF OfferOK
  <1> QED BY <1>7, <1>8, <1>9, <1>10, <1>11 DEF ListOK

-----------------------------------------------------------------------------
(* What a step does to rows. *)

\* A step of r keeps RowsInv if r's own part of it holds afterwards.
LEMMA OwnPart ==
  ASSUME TxInv, NEW r \in Req, Step(r),
         \A a \in Apps, q \in Req \ {r} : woffer'[r][a] = NoOffer \/ woffer[q][a] = NoOffer,
         ~Open(r)' => \A a \in Apps : wapp'[r][a] = NoApp /\ woffer'[r][a] = NoOffer /\ wmsg'[r][a] = <<>>,
         req'[r].pc = "assess" => req'[r].handler = "screen",
         req'[r].pc = "cas" => IsMove(Head(req'[r].todo)),
         \A a \in Apps : wapp'[r][a] = NoApp \/ wapp'[r][a].status \in Past,
         \A a \in Apps : app'[a].status # "DRAFT" /\ (app'[a].status = None => app'[a].trail = <<>>)
  PROVE  RowsInv'
  <1>1. \A q \in Req \ {r} : /\ req'[q] = req[q] /\ wapp'[q] = wapp[q]
                             /\ woffer'[q] = woffer[q] /\ wmsg'[q] = wmsg[q]
    BY OthersKeepTheirs DEF TxInv, FinalInv, TInv
  <1>2. RowsInv
    BY DEF TxInv
  <1>3. \A a \in Apps, p, q \in Req : p # q => woffer'[p][a] = NoOffer \/ woffer'[q][a] = NoOffer
    BY <1>1, <1>2 DEF RowsInv
  <1>4. \A q \in Req : ~Open(q)' =>
          \A a \in Apps : wapp'[q][a] = NoApp /\ woffer'[q][a] = NoOffer /\ wmsg'[q][a] = <<>>
    BY <1>1, <1>2 DEF RowsInv, Open
  <1>5. \A q \in Req : /\ req'[q].pc = "assess" => req'[q].handler = "screen"
                       /\ req'[q].pc = "cas" => IsMove(Head(req'[q].todo))
    BY <1>1, <1>2 DEF RowsInv
  <1>6. \A q \in Req, a \in Apps : wapp'[q][a] = NoApp \/ wapp'[q][a].status \in Past
    BY <1>1, <1>2 DEF RowsInv
  <1> QED BY <1>3, <1>4, <1>5, <1>6 DEF RowsInv

\* What r's request and rows are after each kind of step.
LEMMA OwnAfter ==
  ASSUME TypeOK, NEW r \in Req
  PROVE  /\ GiveUp(r) \/ Commit(r) =>
              \A a \in Apps : wapp'[r][a] = NoApp /\ woffer'[r][a] = NoOffer /\ wmsg'[r][a] = <<>>
         /\ GiveUp(r) => req'[r] = Idle
         /\ Commit(r) => req'[r] = AfterCommit(r)
         /\ WriteOffer(r) \/ WriteMessage(r) \/ CompareAndSwap(r) => req'[r] = Advanced(r)
  <1>1. req \in [Req -> Request] /\ wapp \in [Req -> [Apps -> AppRow]]
        /\ woffer \in [Req -> [Apps -> OfferRow]] /\ wmsg \in [Req -> [Apps -> Seq(Author)]]
    BY DEF TypeOK
  <1> QED BY <1>1 DEF GiveUp, Commit, NothingWritten, WriteOffer, WriteMessage, CompareAndSwap

\* A statement that has been run leaves the transaction open.
LEMMA AdvancedStaysOpen == ASSUME TypeOK, NEW r \in Req PROVE Advanced(r).pc = "tx"
  <1>1. req[r] \in Request
    BY DEF TypeOK
  <1> QED BY <1>1 DEF Advanced, Request

\* Replacing the list of r changes nothing else of the request.
LEMMA ListReplaced ==
  ASSUME TypeOK, NEW r \in Req, NEW new, req' = [req EXCEPT ![r].todo = new]
  PROVE  /\ req'[r].todo = new /\ req'[r].pc = req[r].pc
         /\ req'[r].handler = req[r].handler /\ req'[r].app = req[r].app
  <1>1. req \in [Req -> Request]
    BY DEF TypeOK
  <1> QED BY <1>1 DEF Request

\* Whatever row a legal move starts from, it does not lead back to where applications start.
LEMMA MovesLeadOn ==
  ASSUME NEW from \in Status, from # "DRAFT", NEW to, NEW actor, mayMove(actor, from, to)
  PROVE  to \in Past
  BY DEF mayMove, isTransitionAllowed, TRANSITIONS, Status, Past

LEMMA RowsNext ==
  ASSUME TxInv, NEW r \in Req, Step(r)
  PROVE  RowsInv'
  <1>0. TInv /\ TypeOK /\ RowsInv
    BY DEF TxInv, FinalInv, TInv
  <1>a. req \in [Req -> Request] /\ app \in [Apps -> AppRow]
    BY <1>0 DEF TypeOK
  <1>1. CASE Outside(r)
    <2>1. wapp' = wapp /\ woffer' = woffer /\ wmsg' = wmsg /\ app' = app /\ ~Open(r)
      BY <1>1 DEF Outside, writeSets
    <2>2. req'[r].pc # "cas" /\ (req'[r].pc = "assess" => req'[r].handler = "screen")
      BY <1>1 DEF Outside
    <2>3. \A a \in Apps : wapp'[r][a] = NoApp /\ woffer'[r][a] = NoOffer /\ wmsg'[r][a] = <<>>
      BY <1>0, <2>1 DEF RowsInv
    <2>4. \A a \in Apps : app'[a].status # "DRAFT" /\ (app'[a].status = None => app'[a].trail = <<>>)
      BY <1>0, <2>1 DEF RowsInv
    <2> QED BY <2>2, <2>3, <2>4, OwnPart
  <1>2. CASE GiveUp(r)
    <2>1. app' = app /\ req'[r] = Idle
      BY <1>0, <1>2, OwnAfter DEF GiveUp, tables
    <2>2. \A a \in Apps : wapp'[r][a] = NoApp /\ woffer'[r][a] = NoOffer /\ wmsg'[r][a] = <<>>
      BY <1>0, <1>2, OwnAfter
    <2>3. \A a \in Apps : app'[a].status # "DRAFT" /\ (app'[a].status = None => app'[a].trail = <<>>)
      BY <1>0, <2>1 DEF RowsInv
    <2>4. req'[r].pc # "cas" /\ req'[r].pc # "assess"
      BY <2>1 DEF Idle
    <2> QED BY <2>2, <2>3, <2>4, OwnPart
  <1>3. CASE InsertApplication(r)
    <2>1. wapp' = wapp /\ woffer' = woffer /\ wmsg' = wmsg /\ ~Open(r)
      BY <1>3 DEF InsertApplication, writeSets, Open
    <2>2. \A a \in Apps : wapp'[r][a] = NoApp /\ woffer'[r][a] = NoOffer /\ wmsg'[r][a] = <<>>
      BY <1>0, <2>1 DEF RowsInv
    <2>3. req'[r].pc # "cas" /\ req'[r].pc # "assess"
      BY <1>a, <1>3 DEF InsertApplication, GoTo, Idle, Request
    <2>4. \A a \in Apps : app'[a] = app[a] \/ app'[a] = Submitted
      BY <1>a, <1>3 DEF InsertApplication
    <2>5. \A a \in Apps : app'[a].status # "DRAFT" /\ (app'[a].status = None => app'[a].trail = <<>>)
      BY <1>0, <2>4 DEF RowsInv, Submitted, None
    <2> QED BY <2>2, <2>3, <2>5, OwnPart
  <1>4. CASE RecordScreening(r)
    <2>1. wapp' = wapp /\ woffer' = woffer /\ wmsg' = wmsg /\ ~Open(r)
      BY <1>4 DEF RecordScreening, writeSets, Open
    <2>2. \A a \in Apps : wapp'[r][a] = NoApp /\ woffer'[r][a] = NoOffer /\ wmsg'[r][a] = <<>>
      BY <1>0, <2>1 DEF RowsInv
    <2>3. req'[r].pc # "cas" /\ req'[r].pc # "assess"
      BY <1>a, <1>4 DEF RecordScreening, Idle, Request
    <2>4. \A a \in Apps : app'[a].status = app[a].status /\ app'[a].trail = app[a].trail
      BY <1>a, <1>4 DEF RecordScreening, AppRow
    <2>5. \A a \in Apps : app'[a].status # "DRAFT" /\ (app'[a].status = None => app'[a].trail = <<>>)
      BY <1>0, <2>4 DEF RowsInv
    <2> QED BY <2>2, <2>3, <2>5, OwnPart
  <1>5. CASE WriteOffer(r)
    <2> DEFINE b == Head(req[r].todo).app
    <2>1. app' = app /\ wapp' = wapp /\ wmsg' = wmsg /\ OfferFree(r, b)
      BY <1>5 DEF WriteOffer, tables
    <2>2. req'[r].pc = "tx" /\ Open(r)'
      <3>1. req'[r] = Advanced(r)
        BY <1>0, <1>5, OwnAfter
      <3>2. Advanced(r).pc = "tx"
        BY <1>0, AdvancedStaysOpen
      <3> QED BY <3>1, <3>2 DEF Open
    <2>3. \A a \in Apps : a # b => woffer'[r][a] = woffer[r][a]
      BY <1>0, <1>5 DEF WriteOffer, TypeOK
    <2> HIDE DEF b
    <2>4. \A a \in Apps, q \in Req \ {r} : woffer'[r][a] = NoOffer \/ woffer[q][a] = NoOffer
      BY <1>0, <2>1, <2>3 DEF OfferFree, RowsInv
    <2>5. \A a \in Apps : /\ wapp'[r][a] = NoApp \/ wapp'[r][a].status \in Past
                          /\ app'[a].status # "DRAFT" /\ (app'[a].status = None => app'[a].trail = <<>>)
      BY <1>0, <2>1 DEF RowsInv
    <2> QED BY <2>2, <2>4, <2>5, OwnPart
  <1>6. CASE WriteMessage(r)
    <2>1. app' = app /\ wapp' = wapp /\ woffer' = woffer
      BY <1>6 DEF WriteMessage, tables
    <2>2. req'[r].pc = "tx" /\ Open(r)'
      <3>1. req'[r] = Advanced(r)
        BY <1>0, <1>6, OwnAfter
      <3>2. Advanced(r).pc = "tx"
        BY <1>0, AdvancedStaysOpen
      <3> QED BY <3>1, <3>2 DEF Open
    <2>3. \A a \in Apps, q \in Req \ {r} : woffer'[r][a] = NoOffer \/ woffer[q][a] = NoOffer
      BY <1>0, <2>1 DEF RowsInv
    <2>4. \A a \in Apps : /\ wapp'[r][a] = NoApp \/ wapp'[r][a].status \in Past
                          /\ app'[a].status # "DRAFT" /\ (app'[a].status = None => app'[a].trail = <<>>)
      BY <1>0, <2>1 DEF RowsInv
    <2> QED BY <2>2, <2>3, <2>4, OwnPart
  <1>7. CASE Checked(r)
    <2>1. app' = app /\ wapp' = wapp /\ woffer' = woffer /\ wmsg' = wmsg
      BY <1>7 DEF Checked, tables, writeSets
    <2>2. req'[r].pc = "cas" /\ Open(r)' /\ req'[r].todo = req[r].todo
      BY <1>a, <1>7 DEF Checked, Request, Open
    <2>3. IsMove(Head(req'[r].todo))
      BY <1>7, <2>2 DEF Checked
    <2>4. \A a \in Apps, q \in Req \ {r} : woffer'[r][a] = NoOffer \/ woffer[q][a] = NoOffer
      BY <1>0, <2>1 DEF RowsInv
    <2>5. \A a \in Apps : /\ wapp'[r][a] = NoApp \/ wapp'[r][a].status \in Past
                          /\ app'[a].status # "DRAFT" /\ (app'[a].status = None => app'[a].trail = <<>>)
      BY <1>0, <2>1 DEF RowsInv
    <2> QED BY <2>2, <2>3, <2>4, <2>5, OwnPart
  <1>8. CASE CompareAndSwap(r)
    <2> PICK s \in Stmt :
          LET row == AppSeenBy(r, s.app) IN
          /\ s.app \in Apps /\ s.by \in Actor /\ s.status \in Status
          /\ row \in AppRow /\ row.status \in Status
          /\ mayMove(s.by, row.status, s.status)
          /\ AppFree(r, s.app)
          /\ app' = app
          /\ wapp' = [wapp EXCEPT ![r][s.app] = Moved(row, row.status, s.status, s.by)]
      BY <1>0, <1>8, SwapFacts
    <2> DEFINE row == AppSeenBy(r, s.app)
    <2>1. row.status # "DRAFT"
      BY <1>0 DEF AppSeenBy, RowsInv, Past
    <2>2. s.status \in Past
      BY <2>1, MovesLeadOn
    <2>3. /\ wapp'[r][s.app] = Moved(row, row.status, s.status, s.by)
          /\ \A a \in Apps : a # s.app => wapp'[r][a] = wapp[r][a]
      BY <1>0 DEF TypeOK
    <2>4. Moved(row, row.status, s.status, s.by).status = s.status
      BY DEF Moved, AppRow
    <2>5. \A a \in Apps : wapp'[r][a] = NoApp \/ wapp'[r][a].status \in Past
      BY <1>0, <2>2, <2>3, <2>4 DEF RowsInv
    <2>6. req'[r].pc = "tx" /\ Open(r)'
      <3>1. req'[r] = Advanced(r)
        BY <1>0, <1>8, OwnAfter
      <3>2. Advanced(r).pc = "tx"
        BY <1>0, AdvancedStaysOpen
      <3> QED BY <3>1, <3>2 DEF Open
    <2>7. woffer' = woffer
      BY <1>8 DEF CompareAndSwap
    <2>8. \A a \in Apps, q \in Req \ {r} : woffer'[r][a] = NoOffer \/ woffer[q][a] = NoOffer
      BY <1>0, <2>7 DEF RowsInv
    <2>9. \A a \in Apps : app'[a].status # "DRAFT" /\ (app'[a].status = None => app'[a].trail = <<>>)
      BY <1>0 DEF RowsInv
    <2> QED BY <2>5, <2>6, <2>8, <2>9, OwnPart
  <1>9. CASE FindOthers(r) \/ CloseAnother(r)
    <2>1. app' = app /\ wapp' = wapp /\ woffer' = woffer /\ wmsg' = wmsg
      BY <1>9 DEF FindOthers, CloseAnother, tables, writeSets
    <2>2. req'[r].pc = "tx" /\ Open(r)'
      <3>1. \E new : req' = [req EXCEPT ![r].todo = new]
        BY <1>9 DEF FindOthers, CloseAnother
      <3>2. req'[r].pc = "tx"
        BY <1>0, <1>9, <3>1, ListReplaced DEF FindOthers, CloseAnother, Running
      <3> QED BY <3>2 DEF Open
    <2>3. \A a \in Apps, q \in Req \ {r} : woffer'[r][a] = NoOffer \/ woffer[q][a] = NoOffer
      BY <1>0, <2>1 DEF RowsInv
    <2>4. \A a \in Apps : /\ wapp'[r][a] = NoApp \/ wapp'[r][a].status \in Past
                          /\ app'[a].status # "DRAFT" /\ (app'[a].status = None => app'[a].trail = <<>>)
      BY <1>0, <2>1 DEF RowsInv
    <2> QED BY <2>2, <2>3, <2>4, OwnPart
  <1>10. CASE Commit(r)
    <2>1. \A a \in Apps : wapp'[r][a] = NoApp /\ woffer'[r][a] = NoOffer /\ wmsg'[r][a] = <<>>
      BY <1>0, <1>10, OwnAfter
    <2>2. req'[r].pc # "cas" /\ req'[r].pc # "assess"
      <3>1. req'[r] = AfterCommit(r)
        BY <1>0, <1>10, OwnAfter
      <3> QED BY <1>a, <3>1 DEF AfterCommit, Idle, Request
    <2>3. \A a \in Apps : app'[a] = app[a] \/ (app'[a] = wapp[r][a] /\ wapp[r][a] # NoApp)
      BY <1>10 DEF Commit, AppSeenBy
    <2>4. \A a \in Apps : app'[a].status # "DRAFT" /\ (app'[a].status = None => app'[a].trail = <<>>)
      BY <1>0, <2>3 DEF RowsInv, Past, Status, None
    <2> QED BY <2>1, <2>2, <2>4, OwnPart
  <1> QED BY <1>1, <1>2, <1>3, <1>4, <1>5, <1>6, <1>7, <1>8, <1>9, <1>10 DEF Step

-----------------------------------------------------------------------------
(* The list of a transaction after its next statement. *)

\* Taking the head off a list is right if an application is written by moves only, and the
\* first of two moves reopens a rejected one.
LEMMA AdvanceList ==
  ASSUME TxInv, NEW r \in Req, Open(r), req[r].todo # <<>>,
         req'[r] = Advanced(r), app' = app,
         \A b \in Apps : wapp'[r][b] # wapp[r][b] =>
           IsMove(Head(req[r].todo)) /\ b = Head(req[r].todo).app /\ wapp'[r][b] # NoApp,
         IsMove(Head(req[r].todo)) => wapp'[r][Head(req[r].todo).app] # NoApp,
         \A b \in Apps :
           (\/ \E k \in DOMAIN wmsg[r][b] : wmsg[r][b][k] = "CANDIDATE"
            \/ Head(req[r].todo) = Say(b, "CANDIDATE"))
           => \E k \in DOMAIN wmsg'[r][b] : wmsg'[r][b][k] = "CANDIDATE",
         (/\ Head(req[r].todo) = Move(req[r].app, "SCREENING", "EMPLOYER")
          /\ wapp[r][req[r].app] = NoApp /\ app[req[r].app].status \in Past)
           => Reopening(app[req[r].app], wapp'[r][req[r].app])
  PROVE  ListOK(r)'
  <1> DEFINE T == req[r].todo
             a == req[r].app
             U == Tail(T)
  <1>0. TypeOK /\ ListOK(r) /\ a \in Apps
    BY DEF TxInv, FinalInv, TInv, TypeOK, Request, Open
  <1>1. /\ Len(T) \in Nat /\ Len(T) > 0 /\ DOMAIN T = 1..Len(T)
        /\ Head(T) = T[1] /\ 1 \in DOMAIN T
        /\ Len(U) = Len(T) - 1 /\ DOMAIN U = 1..(Len(T) - 1)
        /\ \A i \in DOMAIN U : U[i] = T[i + 1] /\ i + 1 \in DOMAIN T
    BY <1>0, Rest
  <1>2. \A i \in DOMAIN T : T[i] \in Stmt /\ T[i].app \in Apps /\ T[i].rest \subseteq Apps
    <2>1. T \in Seq(Stmt)
      BY <1>0 DEF TypeOK, Request
    <2> HIDE DEF T
    <2>2. \A i \in DOMAIN T : T[i] \in Stmt
      BY <2>1
    <2> QED BY <2>2 DEF Stmt, Call
  <1>3. /\ req'[r].todo = U /\ req'[r].app = a /\ req'[r].handler = req[r].handler
    BY <1>0 DEF Advanced, TypeOK, Request
  <1>4. /\ \A b \in Apps : wapp'[r][b] # wapp[r][b] =>
             IsMove(T[1]) /\ b = T[1].app /\ wapp'[r][b] # NoApp
        /\ IsMove(T[1]) => wapp'[r][T[1].app] # NoApp
        /\ \A b \in Apps :
             (\/ \E k \in DOMAIN wmsg[r][b] : wmsg[r][b][k] = "CANDIDATE"
              \/ T[1] = Say(b, "CANDIDATE"))
             => \E k \in DOMAIN wmsg'[r][b] : wmsg'[r][b][k] = "CANDIDATE"
        /\ (T[1] = Move(a, "SCREENING", "EMPLOYER") /\ wapp[r][a] = NoApp /\ app[a].status \in Past)
             => Reopening(app[a], wapp'[r][a])
    BY <1>1
  <1>5. app' = app
    OBVIOUS
  <1>6. /\ DecisionThenMove(r) /\ WordsFirst(r) /\ MovesToCome(r) /\ OneMoveLeft(r)
        /\ OwnRow(r) /\ HireMoves(r) /\ SweepLast(r) /\ CloseLast(r)
    BY <1>0 DEF ListOK
  <1>7. \A j \in DOMAIN T :
          1 < j /\ IsMove(T[1]) /\ IsMove(T[j]) =>
            /\ req[r].handler = "extendOffer"
            /\ T[1] = Move(a, "SCREENING", "EMPLOYER") /\ T[j] = Move(a, "OFFER", "EMPLOYER")
            /\ app[a].status \in Past
    BY <1>1, <1>6 DEF OneMoveLeft
  <1>8. DecisionThenMove(r)'
    <2> SUFFICES ASSUME NEW i \in DOMAIN U, U[i].op = "offer", U[i].status \in Decisive
                 PROVE  /\ i + 1 \in DOMAIN U
                        /\ Records(U[i + 1], U[i].app, U[i].status)
                        /\ wapp'[r][U[i].app] = NoApp
                        /\ req[r].handler # "extendOffer"
      BY <1>3 DEF DecisionThenMove
    <2>1. U[i] = T[i + 1] /\ i + 1 \in DOMAIN T /\ i \in Nat
      BY <1>1
    <2>2. /\ i + 1 + 1 \in DOMAIN T
          /\ Records(T[i + 1 + 1], T[i + 1].app, T[i + 1].status)
          /\ wapp[r][T[i + 1].app] = NoApp
          /\ req[r].handler # "extendOffer"
      BY <1>6, <2>1 DEF DecisionThenMove
    <2>3. i + 1 \in DOMAIN U /\ U[i + 1] = T[i + 1 + 1] /\ 1 < i + 1 + 1
      <3> HIDE DEF T, U
      <3> QED BY <1>1, <2>1, <2>2
    <2>4. IsMove(T[i + 1 + 1])
      BY <2>2 DEF Records, IsMove
    <2>5. ~IsMove(T[1])
      BY <1>7, <2>2, <2>3, <2>4
    <2>6. wapp'[r][T[i + 1].app] = NoApp
      BY <1>2, <1>4, <2>1, <2>2, <2>5
    <2> QED BY <2>1, <2>2, <2>3, <2>6
  <1>9. WordsFirst(r)'
    <2> SUFFICES ASSUME NEW i \in DOMAIN U, U[i].op = "offer", U[i].status = "NEGOTIATING"
                 PROVE  \/ \E k \in DOMAIN wmsg'[r][U[i].app] : wmsg'[r][U[i].app][k] = "CANDIDATE"
                        \/ i > 1 /\ U[i - 1] = Say(U[i].app, "CANDIDATE")
      BY <1>3 DEF WordsFirst
    <2>1. U[i] = T[i + 1] /\ i + 1 \in DOMAIN T /\ i \in Nat /\ i > 0 /\ U[i].app \in Apps
      BY <1>1, <1>2
    <2>2. \/ \E k \in DOMAIN wmsg[r][T[i + 1].app] : wmsg[r][T[i + 1].app][k] = "CANDIDATE"
          \/ T[i + 1 - 1] = Say(T[i + 1].app, "CANDIDATE")
      BY <1>6, <2>1 DEF WordsFirst
    <2>3. i + 1 - 1 = i
      BY <2>1
    <2>4. CASE \E k \in DOMAIN wmsg[r][T[i + 1].app] : wmsg[r][T[i + 1].app][k] = "CANDIDATE"
      BY <1>4, <2>1, <2>4
    <2>5. CASE T[i] = Say(U[i].app, "CANDIDATE")
      <3>1. CASE i = 1
        BY <1>4, <2>1, <2>5, <3>1
      <3>2. CASE i > 1
        <4>1. i - 1 \in DOMAIN U /\ i - 1 + 1 = i
          <5> HIDE DEF T, U
          <5> QED BY <1>1, <2>1, <3>2
        <4>2. U[i - 1] = T[i]
          BY <1>1, <4>1
        <4> HIDE DEF T, U
        <4> QED BY <2>5, <3>2, <4>2
      <3>3. i = 1 \/ i > 1
        <4> HIDE DEF T, U
        <4> QED BY <2>1
      <3> QED BY <3>1, <3>2, <3>3
    <2> QED BY <2>1, <2>2, <2>3, <2>4, <2>5
  <1>10. MovesToCome(r)'
    <2> SUFFICES ASSUME NEW i \in DOMAIN U, IsMove(U[i])
                 PROVE  \/ wapp'[r][U[i].app] = NoApp
                        \/ /\ req[r].handler = "extendOffer" /\ U[i] = Move(a, "OFFER", "EMPLOYER")
                           /\ Reopening(app[a], wapp'[r][a])
      BY <1>3, <1>5 DEF MovesToCome
    <2>1. U[i] = T[i + 1] /\ i + 1 \in DOMAIN T /\ 1 < i + 1 /\ U[i].app \in Apps
      BY <1>1, <1>2
    <2>2. \/ wapp[r][U[i].app] = NoApp
          \/ /\ req[r].handler = "extendOffer" /\ U[i] = Move(a, "OFFER", "EMPLOYER")
             /\ Reopening(app[a], wapp[r][a])
      BY <1>6, <2>1 DEF MovesToCome
    <2>3. ASSUME IsMove(T[1])
          PROVE  /\ req[r].handler = "extendOffer" /\ app[a].status \in Past
                 /\ T[1] = Move(a, "SCREENING", "EMPLOYER") /\ U[i] = Move(a, "OFFER", "EMPLOYER")
      BY <1>7, <2>1, <2>3
    <2>4. CASE IsMove(T[1])
      <3>1. T[1].app = a /\ T[1] # Move(a, "OFFER", "EMPLOYER")
        BY <2>3, <2>4 DEF Move
      <3>2. wapp[r][a] = NoApp
        BY <1>1, <1>6, <2>4, <3>1 DEF MovesToCome
      <3>3. Reopening(app[a], wapp'[r][a])
        BY <1>4, <2>3, <2>4, <3>2
      <3> QED BY <2>3, <2>4, <3>3
    <2>5. CASE ~IsMove(T[1])
      <3>1. wapp'[r][U[i].app] = wapp[r][U[i].app] /\ wapp'[r][a] = wapp[r][a]
        BY <1>0, <1>4, <2>1, <2>5
      <3> QED BY <2>2, <3>1
    <2> QED BY <2>4, <2>5
  <1>11. OneMoveLeft(r)'
    <2> SUFFICES ASSUME NEW i \in DOMAIN U, NEW j \in DOMAIN U, i < j, IsMove(U[i]), IsMove(U[j])
                 PROVE  /\ req[r].handler = "extendOffer"
                        /\ U[i] = Move(a, "SCREENING", "EMPLOYER") /\ U[j] = Move(a, "OFFER", "EMPLOYER")
                        /\ app[a].status \in Past
      BY <1>3, <1>5 DEF OneMoveLeft
    <2>1. /\ U[i] = T[i + 1] /\ U[j] = T[j + 1] /\ i + 1 \in DOMAIN T /\ j + 1 \in DOMAIN T
          /\ i + 1 < j + 1
      BY <1>1
    <2> QED BY <1>6, <2>1 DEF OneMoveLeft
  <1>12. OwnRow(r)'
    BY <1>1, <1>3, <1>6 DEF OwnRow
  <1>13. HireMoves(r)'
    <2>1. wapp[r][a] # NoApp => wapp'[r][a] # NoApp
      BY <1>0, <1>4
    <2> QED BY <1>1, <1>3, <1>6, <2>1 DEF HireMoves
  <1>14. SweepLast(r)'
    <2> SUFFICES ASSUME NEW i \in DOMAIN U, U[i].op = "sweep"
                 PROVE  /\ U[i].app = a /\ i = Len(U)
                        /\ \A j \in DOMAIN U : IsMove(U[j]) => U[j].app = a
                        /\ \A b \in Apps \ {a} : wapp'[r][b] = NoApp
                        /\ IF i = 1 THEN wapp'[r][a] # NoApp ELSE IsMove(U[i - 1])
      BY <1>3 DEF SweepLast
    <2>1. U[i] = T[i + 1] /\ i + 1 \in DOMAIN T /\ i \in Nat /\ i > 0 /\ i + 1 # 1
      BY <1>1
    <2>2. /\ U[i].app = a /\ i + 1 = Len(T)
          /\ \A j \in DOMAIN T : IsMove(T[j]) => T[j].app = a
          /\ \A b \in Apps \ {a} : wapp[r][b] = NoApp
          /\ IsMove(T[i + 1 - 1])
      BY <1>6, <2>1 DEF SweepLast
    <2>3. i + 1 - 1 = i /\ i = Len(U)
      <3> HIDE DEF T, U
      <3> QED BY <1>1, <2>1, <2>2
    <2>4. \A j \in DOMAIN U : IsMove(U[j]) => U[j].app = a
      <3> HIDE DEF T, U, a
      <3> QED BY <1>1, <2>2
    <2>5. \A b \in Apps \ {a} : wapp'[r][b] = NoApp
      BY <1>1, <1>4, <2>2
    <2>6. CASE i = 1
      BY <1>1, <1>4, <2>2, <2>3, <2>4, <2>5, <2>6
    <2>7. CASE i # 1
      <3>1. i - 1 \in DOMAIN U /\ i - 1 + 1 = i
        <4> HIDE DEF T, U
        <4> QED BY <1>1, <2>1, <2>7
      <3>2. U[i - 1] = T[i]
        BY <1>1, <3>1
      <3> QED BY <2>2, <2>3, <2>4, <2>5, <2>7, <3>2
    <2> QED BY <2>6, <2>7
  <1>15. CloseLast(r)'
    <2> SUFFICES ASSUME NEW i \in DOMAIN U, U[i].op = "close"
                 PROVE  /\ U[i].app = a /\ i = Len(U)
                        /\ wapp'[r][a] # NoApp
                        /\ \A b \in U[i].rest :
                             /\ b # a /\ Candidate[b] = Candidate[a] /\ wapp'[r][b] = NoApp
                             /\ \A j \in DOMAIN U : IsMove(U[j]) => U[j].app # b
      BY <1>3 DEF CloseLast
    <2>1. U[i] = T[i + 1] /\ i + 1 \in DOMAIN T
      BY <1>1
    <2>2. /\ U[i].app = a /\ i + 1 = Len(T)
          /\ wapp[r][a] # NoApp
          /\ \A b \in U[i].rest :
               /\ b # a /\ Candidate[b] = Candidate[a] /\ wapp[r][b] = NoApp
               /\ \A j \in DOMAIN T : IsMove(T[j]) => T[j].app # b
      BY <1>6, <2>1 DEF CloseLast
    <2>3. i = Len(U)
      <3> HIDE DEF T, U
      <3> QED BY <1>1, <2>1, <2>2
    <2>4. wapp'[r][a] # NoApp
      BY <1>0, <1>4, <2>2
    <2>5. \A b \in U[i].rest : b \in Apps
      BY <1>2, <2>1
    <2>6. \A b \in U[i].rest : wapp'[r][b] = NoApp
      BY <1>1, <1>4, <2>2, <2>5
    <2>7. \A b \in U[i].rest : \A j \in DOMAIN U : IsMove(U[j]) => U[j].app # b
      BY <1>1, <2>2
    <2> QED BY <2>2, <2>3, <2>4, <2>6, <2>7
  <1> QED BY <1>8, <1>9, <1>10, <1>11, <1>12, <1>13, <1>14, <1>15 DEF ListOK

-----------------------------------------------------------------------------
(* What each statement does to its transaction. *)

\* A status given by an earlier statement than the one about to run is recorded already,
\* unless that one is the move that records it.
LEMMA RecordedAlready ==
  ASSUME NEW r \in Req, NEW b \in Apps, OfferOK(r), req[r].todo # <<>>, ~IsMove(Head(req[r].todo)),
         woffer[r][b].status \in Decisive, woffer[r][b].status # offer[b].status
  PROVE  /\ req[r].handler # "extendOffer"
         /\ wapp[r][b] # NoApp
         /\ \E to \in Status, actor \in Actor :
              /\ <<to, actor>> \in RecordedAs(woffer[r][b].status)
              /\ OneMove(app[b], wapp[r][b], to, actor)
         /\ woffer[r][b].status = "NEGOTIATING" =>
              \E k \in DOMAIN wmsg[r][b] : wmsg[r][b][k] = "CANDIDATE"
  BY DEF OfferOK, Records, IsMove

\* The written applications are right as long as nobody touches them.
LEMMA WrittenStays ==
  ASSUME NEW r \in Req, WrittenOK(r), wapp' = wapp, app' = app,
         req'[r].app = req[r].app, req'[r].handler = req[r].handler
  PROVE  WrittenOK(r)'
  BY DEF WrittenOK

LEMMA WriteOfferKeeps ==
  ASSUME TxInv, NEW r \in Req, WriteOffer(r)
  PROVE  ListOK(r)' /\ WrittenOK(r)' /\ OfferOK(r)'
  <1> DEFINE T == req[r].todo
             s == Head(T)
  <1>0. TypeOK /\ Open(r) /\ ListOK(r) /\ WrittenOK(r) /\ OfferOK(r)
    BY DEF TxInv, FinalInv, TInv, WriteOffer, Running, Open
  <1>1. T # <<>> /\ s.op = "offer"
    BY DEF WriteOffer, Running
  <1>2. /\ s = T[1] /\ 1 \in DOMAIN T /\ s \in Stmt
        /\ 2 \in DOMAIN T => Tail(T) # <<>> /\ Head(Tail(T)) = T[2]
    BY <1>0, <1>1, Rest
  <1>3. s.app \in Apps
    BY <1>2 DEF Stmt, Call
  <1>4. app' = app /\ offer' = offer /\ wapp' = wapp /\ wmsg' = wmsg
    BY DEF WriteOffer, tables
  <1>5. req'[r] = Advanced(r)
    BY <1>0, OwnAfter
  <1>6. req'[r].todo = Tail(T) /\ req'[r].app = req[r].app /\ req'[r].handler = req[r].handler
    BY <1>0, <1>5 DEF Advanced, TypeOK, Request
  <1>7. ~IsMove(s) /\ \A b : s # Say(b, "CANDIDATE")
    BY <1>1, StatementFields DEF IsMove
  <1>8. ListOK(r)'
    <2>1. s # Move(req[r].app, "SCREENING", "EMPLOYER")
      BY <1>1, StatementFields
    <2> QED BY <1>0, <1>1, <1>4, <1>5, <1>7, <2>1, AdvanceList
  <1>9. WrittenOK(r)'
    BY <1>0, <1>4, <1>6, WrittenStays
  <1>10. OfferOK(r)'
    <2> SUFFICES ASSUME NEW b \in Apps, woffer'[r][b].status \in Decisive,
                        woffer'[r][b].status # offer[b].status
                 PROVE  /\ req[r].handler # "extendOffer"
                        /\ \/ /\ Tail(T) # <<>> /\ Records(Head(Tail(T)), b, woffer'[r][b].status)
                              /\ wapp[r][b] = NoApp
                           \/ /\ wapp[r][b] # NoApp
                              /\ \E to \in Status, actor \in Actor :
                                   /\ <<to, actor>> \in RecordedAs(woffer'[r][b].status)
                                   /\ OneMove(app[b], wapp[r][b], to, actor)
                        /\ woffer'[r][b].status = "NEGOTIATING" =>
                             \E k \in DOMAIN wmsg[r][b] : wmsg[r][b][k] = "CANDIDATE"
      BY <1>4, <1>6 DEF OfferOK
    <2>1. /\ b # s.app => woffer'[r][b] = woffer[r][b]
          /\ b = s.app => woffer'[r][b].status =
                            IF s.status = None THEN OfferSeenBy(r, s.app).status ELSE s.status
      BY <1>0 DEF WriteOffer, TypeOK
    <2>2. CASE woffer'[r][b].status = woffer[r][b].status
      BY <1>0, <1>1, <1>7, <2>2, RecordedAlready
    <2>3. CASE woffer'[r][b].status # woffer[r][b].status
      <3>1. b = s.app /\ s.status # None
        BY <2>1, <2>3 DEF OfferSeenBy
      <3>2. woffer'[r][b].status = s.status
        BY <2>1, <3>1
      <3>3. T[1].op = "offer" /\ T[1].status \in Decisive /\ T[1].app = b
        BY <1>1, <1>2, <3>1, <3>2
      <3>4. /\ 1 + 1 \in DOMAIN T /\ Records(T[1 + 1], b, s.status) /\ wapp[r][b] = NoApp
            /\ req[r].handler # "extendOffer"
        BY <1>0, <1>2, <3>3 DEF ListOK, DecisionThenMove
      <3>5. s.status = "NEGOTIATING" => \E k \in DOMAIN wmsg[r][b] : wmsg[r][b][k] = "CANDIDATE"
        BY <1>0, <1>2, <3>3 DEF ListOK, WordsFirst
      <3> QED BY <1>2, <3>2, <3>4, <3>5
    <2> QED BY <2>2, <2>3
  <1> QED BY <1>8, <1>9, <1>10

LEMMA WriteMessageKeeps ==
  ASSUME TxInv, NEW r \in Req, WriteMessage(r)
  PROVE  ListOK(r)' /\ WrittenOK(r)' /\ OfferOK(r)'
  <1> DEFINE T == req[r].todo
             s == Head(T)
  <1>0. TypeOK /\ Open(r) /\ ListOK(r) /\ WrittenOK(r) /\ OfferOK(r)
    BY DEF TxInv, FinalInv, TInv, WriteMessage, Running, Open
  <1>1. T # <<>> /\ s.op = "message"
    BY DEF WriteMessage, Running
  <1>2. s \in Stmt
    BY <1>0, <1>1, Rest
  <1>3. s.app \in Apps /\ s.by \in Author
    BY <1>1, <1>2 DEF Stmt, Call
  <1>4. app' = app /\ offer' = offer /\ wapp' = wapp /\ woffer' = woffer
    BY DEF WriteMessage, tables
  <1>5. req'[r] = Advanced(r)
    BY <1>0, OwnAfter
  <1>6. req'[r].todo = Tail(T) /\ req'[r].app = req[r].app /\ req'[r].handler = req[r].handler
    BY <1>0, <1>5 DEF Advanced, TypeOK, Request
  <1>7. ~IsMove(s)
    BY <1>1 DEF IsMove
  <1>8. \A b \in Apps :
          (\/ \E k \in DOMAIN wmsg[r][b] : wmsg[r][b][k] = "CANDIDATE"
           \/ s = Say(b, "CANDIDATE"))
          => \E k \in DOMAIN wmsg'[r][b] : wmsg'[r][b][k] = "CANDIDATE"
    <2> TAKE b \in Apps
    <2>1. wmsg[r][b] \in Seq(Author)
      BY <1>0 DEF TypeOK
    <2>2. wmsg'[r][b] = IF b = s.app THEN Append(wmsg[r][b], s.by) ELSE wmsg[r][b]
      BY <1>0 DEF WriteMessage, TypeOK
    <2>3. s = Say(b, "CANDIDATE") => s.app = b /\ s.by = "CANDIDATE"
      BY DEF Say
    <2> DEFINE old == wmsg[r][b]
               new == Append(old, s.by)
    <2>4. /\ DOMAIN old \subseteq DOMAIN new /\ \A k \in DOMAIN old : new[k] = old[k]
          /\ Len(old) + 1 \in DOMAIN new /\ new[Len(old) + 1] = s.by
      <3> HIDE DEF old, s
      <3> QED BY <1>3, <2>1, AppendProperties DEF old
    <2> HIDE DEF new
    <2>5. CASE b = s.app
      BY <2>2, <2>3, <2>4, <2>5 DEF new
    <2>6. CASE b # s.app
      BY <2>2, <2>3, <2>6
    <2> QED BY <2>5, <2>6
  <1>9. ListOK(r)'
    <2>1. s # Move(req[r].app, "SCREENING", "EMPLOYER")
      BY <1>1, StatementFields
    <2> QED BY <1>0, <1>1, <1>4, <1>5, <1>7, <1>8, <2>1, AdvanceList
  <1>10. WrittenOK(r)'
    BY <1>0, <1>4, <1>6, WrittenStays
  <1>11. OfferOK(r)'
    <2> SUFFICES ASSUME NEW b \in Apps, woffer[r][b].status \in Decisive,
                        woffer[r][b].status # offer[b].status
                 PROVE  /\ req[r].handler # "extendOffer"
                        /\ \/ /\ Tail(T) # <<>> /\ Records(Head(Tail(T)), b, woffer[r][b].status)
                              /\ wapp[r][b] = NoApp
                           \/ /\ wapp[r][b] # NoApp
                              /\ \E to \in Status, actor \in Actor :
                                   /\ <<to, actor>> \in RecordedAs(woffer[r][b].status)
                                   /\ OneMove(app[b], wapp[r][b], to, actor)
                        /\ woffer[r][b].status = "NEGOTIATING" =>
                             \E k \in DOMAIN wmsg'[r][b] : wmsg'[r][b][k] = "CANDIDATE"
      BY <1>4, <1>6 DEF OfferOK
    <2> QED BY <1>0, <1>1, <1>7, <1>8, RecordedAlready
  <1> QED BY <1>9, <1>10, <1>11

\* What a request that passed its check and its compare-and-swap writes, for the statement it ran.
LEMMA SwapOwn ==
  ASSUME TxInv, NEW r \in Req, CompareAndSwap(r)
  PROVE  LET s   == Head(req[r].todo)
             row == AppSeenBy(r, s.app)
         IN  /\ req[r].todo # <<>> /\ IsMove(s)
             /\ s.app \in Apps /\ s.by \in Actor /\ s.status \in Status
             /\ app' = app /\ offer' = offer /\ woffer' = woffer /\ wmsg' = wmsg
             /\ wapp'[r][s.app] # NoApp
             /\ OneMove(row, wapp'[r][s.app], s.status, s.by)
             /\ \A b \in Apps : b # s.app => wapp'[r][b] = wapp[r][b]
  <1> DEFINE s   == Head(req[r].todo)
             row == AppSeenBy(r, s.app)
  <1>1. TInv /\ TypeOK /\ req[r] \in Request /\ req[r].pc = "cas"
    BY DEF TxInv, FinalInv, TInv, TypeOK, CompareAndSwap
  <1>2. req[r].todo # <<>> /\ req[r].saw \in Status /\ mayMove(s.by, req[r].saw, s.status)
    BY <1>1 DEF TInv, CasReady
  <1>3. s \in Stmt /\ IsMove(s)
    BY <1>1, <1>2, HeadAndRest DEF TxInv, RowsInv
  <1>4. s.app \in Apps /\ s.by \in Actor /\ s.status \in Status
    BY <1>2, <1>3, MoveTargets DEF Stmt, Call
  <1>5. row \in AppRow /\ row.status = req[r].saw
    BY <1>1, <1>4, Seen DEF CompareAndSwap
  <1>6. /\ app' = app /\ offer' = offer /\ woffer' = woffer /\ wmsg' = wmsg
        /\ wapp' = [wapp EXCEPT ![r][s.app] = Moved(row, req[r].saw, s.status, s.by)]
    BY DEF CompareAndSwap, tables
  <1> HIDE DEF s, row
  <1>7. /\ wapp'[r][s.app] = Moved(row, req[r].saw, s.status, s.by)
        /\ \A b \in Apps : b # s.app => wapp'[r][b] = wapp[r][b]
    BY <1>1, <1>4, <1>6 DEF TypeOK
  <1>8. /\ Moved(row, req[r].saw, s.status, s.by).status = s.status
        /\ Moved(row, req[r].saw, s.status, s.by).trail =
             Append(row.trail, [from |-> req[r].saw, to |-> s.status, by |-> s.by])
    BY <1>5 DEF Moved, AppRow
  <1>9. wapp'[r][s.app] # NoApp
    BY <1>4, <1>7, <1>8 DEF NoApp, None, Status
  <1>10. OneMove(row, wapp'[r][s.app], s.status, s.by)
    BY <1>2, <1>5, <1>7, <1>8 DEF OneMove, None, Status
  <1> QED BY <1>2, <1>3, <1>4, <1>6, <1>7, <1>9, <1>10 DEF s, row

LEMMA CompareAndSwapKeeps ==
  ASSUME TxInv, NEW r \in Req, CompareAndSwap(r)
  PROVE  ListOK(r)' /\ WrittenOK(r)' /\ OfferOK(r)'
  <1> DEFINE T   == req[r].todo
             s   == Head(T)
             a   == req[r].app
             row == AppSeenBy(r, s.app)
  <1>0. TypeOK /\ RowsInv /\ Open(r) /\ ListOK(r) /\ WrittenOK(r) /\ OfferOK(r) /\ a \in Apps
    BY DEF TxInv, FinalInv, TInv, CompareAndSwap, Open, TypeOK, Request
  <1>1. /\ T # <<>> /\ IsMove(s)
        /\ s.app \in Apps /\ s.by \in Actor /\ s.status \in Status
        /\ app' = app /\ offer' = offer /\ woffer' = woffer /\ wmsg' = wmsg
        /\ wapp'[r][s.app] # NoApp
        /\ OneMove(row, wapp'[r][s.app], s.status, s.by)
        /\ \A b \in Apps : b # s.app => wapp'[r][b] = wapp[r][b]
    BY SwapOwn
  <1>2. s = T[1] /\ 1 \in DOMAIN T
    BY <1>0, <1>1, Rest
  <1>3. req'[r] = Advanced(r)
    BY <1>0, OwnAfter
  <1>4. req'[r].todo = Tail(T) /\ req'[r].app = a /\ req'[r].handler = req[r].handler
    BY <1>0, <1>3 DEF Advanced, TypeOK, Request
  <1>5. wapp[r][s.app] = NoApp => row = app[s.app]
    BY DEF AppSeenBy
  <1>6. \/ wapp[r][s.app] = NoApp
        \/ /\ req[r].handler = "extendOffer" /\ s = Move(a, "OFFER", "EMPLOYER")
           /\ Reopening(app[a], wapp[r][a])
    BY <1>0, <1>1, <1>2 DEF ListOK, MovesToCome
  <1>7. ListOK(r)'
    <2>1. ASSUME s = Move(a, "SCREENING", "EMPLOYER"), wapp[r][a] = NoApp, app[a].status \in Past
          PROVE  Reopening(app[a], wapp'[r][a])
      <3>1. s.app = a /\ s.status = "SCREENING" /\ s.by = "EMPLOYER"
        BY <2>1 DEF Move
      <3>2. row = app[a] /\ OneMove(app[a], wapp'[r][a], "SCREENING", "EMPLOYER")
        BY <1>1, <1>5, <2>1, <3>1
      <3>3. mayMove("EMPLOYER", app[a].status, "SCREENING")
        BY <3>2 DEF OneMove
      <3>4. app[a].status = "REJECTED"
        BY <2>1, <3>3 DEF Past, Status, mayMove, isTransitionAllowed, TRANSITIONS
      <3> QED BY <3>2, <3>4 DEF Reopening
    <2>2. \A b \in Apps : wapp'[r][b] # wapp[r][b] => IsMove(s) /\ b = s.app /\ wapp'[r][b] # NoApp
      BY <1>1
    <2>3. \A b \in Apps : (\/ \E k \in DOMAIN wmsg[r][b] : wmsg[r][b][k] = "CANDIDATE"
                           \/ s = Say(b, "CANDIDATE"))
                          => \E k \in DOMAIN wmsg'[r][b] : wmsg'[r][b][k] = "CANDIDATE"
      BY <1>1, StatementFields DEF IsMove
    <2> QED BY <1>0, <1>1, <1>3, <2>1, <2>2, <2>3, AdvanceList
  <1>8. WrittenOK(r)'
    <2> SUFFICES ASSUME NEW b \in Apps, wapp'[r][b] # NoApp
                 PROVE  IF req[r].handler = "accept"
                        THEN IF b = a THEN OneMove(app[b], wapp'[r][b], "ACCEPTED", "CANDIDATE")
                             ELSE /\ wapp'[r][a] # NoApp /\ Candidate[b] = Candidate[a]
                                  /\ OneMove(app[b], wapp'[r][b], "WITHDRAWN", "CANDIDATE")
                        ELSE /\ b = a
                             /\ \/ \E to \in Status, actor \in Actor : OneMove(app[b], wapp'[r][b], to, actor)
                                \/ /\ req[r].handler = "extendOffer"
                                   /\ ReopenedAndOffered(app[b], wapp'[r][b])
      BY <1>1, <1>4 DEF WrittenOK
    <2>1. wapp[r][a] # NoApp => wapp'[r][a] # NoApp
      BY <1>0, <1>1
    <2>2. CASE b # s.app
      <3>1. wapp'[r][b] = wapp[r][b]
        BY <1>1, <2>2
      <3> QED BY <1>0, <2>1, <3>1 DEF WrittenOK
    <2>3. CASE b = s.app /\ req[r].handler = "accept"
      <3>1. wapp[r][b] = NoApp /\ OneMove(app[b], wapp'[r][b], s.status, s.by)
        BY <1>1, <1>5, <1>6, <2>3
      <3>2. \/ s = Move(a, "ACCEPTED", "CANDIDATE")
            \/ /\ wapp[r][a] # NoApp
               /\ s = Move(s.app, "WITHDRAWN", "CANDIDATE")
               /\ s.app # a /\ Candidate[s.app] = Candidate[a]
        BY <1>0, <1>1, <1>2, <2>3 DEF ListOK, HireMoves
      <3>3. CASE s = Move(a, "ACCEPTED", "CANDIDATE")
        <4>1. s.app = a /\ s.status = "ACCEPTED" /\ s.by = "CANDIDATE"
          BY <3>3, StatementFields
        <4> QED BY <2>3, <3>1, <4>1
      <3>4. CASE /\ wapp[r][a] # NoApp
                 /\ s = Move(s.app, "WITHDRAWN", "CANDIDATE")
                 /\ s.app # a /\ Candidate[s.app] = Candidate[a]
        <4>1. s.status = "WITHDRAWN" /\ s.by = "CANDIDATE"
          BY <3>4, StatementFields
        <4> QED BY <2>1, <2>3, <3>1, <3>4, <4>1
      <3> QED BY <3>2, <3>3, <3>4
    <2>4. CASE b = s.app /\ req[r].handler # "accept"
      <3>1. b = a
        BY <1>0, <1>2, <2>4 DEF ListOK, OwnRow
      <3>2. CASE wapp[r][b] = NoApp
        <4>1. OneMove(app[b], wapp'[r][b], s.status, s.by)
          BY <1>1, <1>5, <2>4, <3>2
        <4> QED BY <1>1, <2>4, <3>1, <4>1
      <3>3. CASE wapp[r][b] # NoApp
        <4>1. /\ req[r].handler = "extendOffer" /\ s = Move(a, "OFFER", "EMPLOYER")
              /\ Reopening(app[b], wapp[r][b]) /\ row = wapp[r][b]
          BY <1>6, <2>4, <3>1, <3>3 DEF AppSeenBy
        <4>2. s.status = "OFFER" /\ s.by = "EMPLOYER"
          BY <4>1, StatementFields
        <4>3. OneMove(wapp[r][b], wapp'[r][b], "OFFER", "EMPLOYER")
          BY <1>1, <2>4, <4>1, <4>2
        <4>4. ReopenedAndOffered(app[b], wapp'[r][b])
          BY <4>1, <4>3 DEF Reopening, OneMove, ReopenedAndOffered
        <4> QED BY <2>4, <3>1, <4>1, <4>4
      <3> QED BY <3>2, <3>3
    <2> QED BY <2>2, <2>3, <2>4
  <1>9. OfferOK(r)'
    <2> SUFFICES ASSUME NEW b \in Apps, woffer[r][b].status \in Decisive,
                        woffer[r][b].status # offer[b].status
                 PROVE  /\ req[r].handler # "extendOffer"
                        /\ wapp'[r][b] # NoApp
                        /\ \E to \in Status, actor \in Actor :
                             /\ <<to, actor>> \in RecordedAs(woffer[r][b].status)
                             /\ OneMove(app[b], wapp'[r][b], to, actor)
                        /\ woffer[r][b].status = "NEGOTIATING" =>
                             \E k \in DOMAIN wmsg[r][b] : wmsg[r][b][k] = "CANDIDATE"
      BY <1>1, <1>4 DEF OfferOK
    <2>1. /\ req[r].handler # "extendOffer"
          /\ \/ Records(s, b, woffer[r][b].status) /\ wapp[r][b] = NoApp
             \/ /\ wapp[r][b] # NoApp
                /\ \E to \in Status, actor \in Actor :
                     /\ <<to, actor>> \in RecordedAs(woffer[r][b].status)
                     /\ OneMove(app[b], wapp[r][b], to, actor)
          /\ woffer[r][b].status = "NEGOTIATING" =>
               \E k \in DOMAIN wmsg[r][b] : wmsg[r][b][k] = "CANDIDATE"
      BY <1>0 DEF OfferOK
    <2>2. CASE b = s.app
      <3>1. wapp[r][b] = NoApp
        BY <1>6, <2>1, <2>2
      <3>2. <<s.status, s.by>> \in RecordedAs(woffer[r][b].status)
        BY <2>1, <3>1 DEF Records
      <3>3. OneMove(app[b], wapp'[r][b], s.status, s.by)
        BY <1>1, <1>5, <2>2, <3>1
      <3> QED BY <1>1, <2>1, <2>2, <3>2, <3>3
    <2>3. CASE b # s.app
      <3>1. ~Records(s, b, woffer[r][b].status) /\ wapp'[r][b] = wapp[r][b]
        BY <1>1, <2>3 DEF Records
      <3> QED BY <2>1, <3>1
    <2> QED BY <2>2, <2>3
  <1> QED BY <1>7, <1>8, <1>9

LEMMA CheckedKeeps ==
  ASSUME TxInv, NEW r \in Req, Checked(r)
  PROVE  ListOK(r)' /\ WrittenOK(r)' /\ OfferOK(r)'
  <1>0. TypeOK /\ ListOK(r) /\ WrittenOK(r) /\ OfferOK(r)
    BY DEF TxInv, FinalInv, TInv, Checked, Open
  <1>1. /\ app' = app /\ offer' = offer /\ wapp' = wapp /\ woffer' = woffer /\ wmsg' = wmsg
    BY DEF Checked, tables, writeSets
  <1>2. req'[r].todo = req[r].todo /\ req'[r].app = req[r].app /\ req'[r].handler = req[r].handler
    BY <1>0 DEF Checked, TypeOK, Request
  <1>3. ListOK(r)'
    BY <1>0, <1>1, <1>2 DEF ListOK, DecisionThenMove, WordsFirst, MovesToCome, OneMoveLeft, OwnRow,
                            HireMoves, SweepLast, CloseLast
  <1>4. WrittenOK(r)'
    BY <1>0, <1>1, <1>2, WrittenStays
  <1>5. OfferOK(r)'
    BY <1>0, <1>1, <1>2 DEF OfferOK
  <1> QED BY <1>3, <1>4, <1>5

\* A transaction whose head is not a move may replace its list: what it wrote stays right.
LEMMA OffersStay ==
  ASSUME TypeOK, NEW r \in Req, NEW new, OfferOK(r), req[r].todo # <<>>, ~IsMove(Head(req[r].todo)),
         req' = [req EXCEPT ![r].todo = new], UNCHANGED <<tables, writeSets>>
  PROVE  OfferOK(r)'
  <1>1. /\ offer' = offer /\ app' = app /\ wapp' = wapp /\ woffer' = woffer /\ wmsg' = wmsg
    BY DEF tables, writeSets
  <1>2. req'[r].handler = req[r].handler
    BY ListReplaced
  <1> QED BY <1>1, <1>2, RecordedAlready DEF OfferOK

\* Nothing is left after the last statement.
LEMMA NothingLeft ==
  ASSUME TypeOK, NEW r \in Req, req[r].todo # <<>>, Len(req[r].todo) = 1
  PROVE  Tail(req[r].todo) = <<>>
  <1> DEFINE U == Tail(req[r].todo)
  <1>1. U \in Seq(Stmt) /\ Len(U) = 0
    BY Rest, HeadAndRest
  <1> HIDE DEF U
  <1>2. U = <<>>
    BY <1>1, EmptySeq
  <1> QED BY <1>2 DEF U

\* What the search for the others leaves to do.
LEMMA FoundList ==
  ASSUME TxInv, NEW r \in Req, FindOthers(r)
  PROVE  LET T     == req[r].todo
             a     == req[r].app
             found == OthersToClose(r, a)
         IN  /\ req[r].handler = "accept" /\ Open(r) /\ T # <<>> /\ ~IsMove(Head(T))
             /\ a \in Apps /\ wapp[r][a] # NoApp /\ \A b \in Apps \ {a} : wapp[r][b] = NoApp
             /\ \A b \in found : b \in Apps \ {a} /\ Candidate[b] = Candidate[a]
             /\ req'[r].app = a /\ req'[r].handler = "accept"
             /\ (found = {} /\ req'[r].todo = <<>>) \/ (found # {} /\ req'[r].todo = <<Close(a, found)>>)
             /\ \E new : req' = [req EXCEPT ![r].todo = new]
             /\ UNCHANGED <<tables, writeSets>>
  <1> DEFINE T     == req[r].todo
             a     == req[r].app
             found == OthersToClose(r, Head(T).app)
             U     == (IF found = {} THEN <<>> ELSE <<Close(Head(T).app, found)>>) \o Tail(T)
  <1>0. TypeOK /\ Open(r) /\ ListOK(r) /\ a \in Apps
    BY DEF TxInv, FinalInv, TInv, FindOthers, Running, Open, TypeOK, Request
  <1>1. T # <<>> /\ Head(T).op = "sweep"
    BY DEF FindOthers, Running
  <1>2. Head(T) = T[1] /\ 1 \in DOMAIN T
    BY <1>0, <1>1, Rest
  <1>3. /\ T[1].app = a /\ 1 = Len(T) /\ wapp[r][a] # NoApp
        /\ \A b \in Apps \ {a} : wapp[r][b] = NoApp
    BY <1>0, <1>1, <1>2 DEF ListOK, SweepLast
  <1>4. Tail(T) = <<>>
    BY <1>0, <1>1, <1>3, NothingLeft
  <1>5. req[r].handler = "accept"
    BY <1>0, <1>1, <1>2 DEF ListOK, OwnRow
  <1>6. (found = {} /\ U = <<>>) \/ (found # {} /\ U = <<Close(a, found)>>)
    <2>1. <<>> \o <<>> = <<>>
      OBVIOUS
    <2>2. Close(a, found) \in {Close(a, found)}
      OBVIOUS
    <2>3. <<Close(a, found)>> \o <<>> = <<Close(a, found)>>
      BY <2>2, Joined
    <2> HIDE DEF found
    <2> QED BY <1>2, <1>3, <1>4, <2>1, <2>3
  <1>7. req' = [req EXCEPT ![r].todo = U] /\ UNCHANGED <<tables, writeSets>>
    BY DEF FindOthers
  <1> HIDE DEF U
  <1>8. req'[r].todo = U /\ req'[r].app = a /\ req'[r].handler = "accept"
    BY <1>0, <1>5, <1>7, ListReplaced
  <1>9. \A b \in found : b \in Apps \ {a} /\ Candidate[b] = Candidate[a]
    BY <1>2, <1>3 DEF OthersToClose
  <1>10. ~IsMove(Head(T)) /\ found = OthersToClose(r, a)
    BY <1>1, <1>2, <1>3 DEF IsMove
  <1> HIDE DEF found
  <1> QED BY <1>0, <1>1, <1>3, <1>5, <1>6, <1>7, <1>8, <1>9, <1>10

LEMMA FindOthersKeeps ==
  ASSUME TxInv, NEW r \in Req, FindOthers(r)
  PROVE  ListOK(r)' /\ WrittenOK(r)' /\ OfferOK(r)'
  <1> DEFINE a     == req[r].app
             found == OthersToClose(r, a)
             U     == req'[r].todo
  <1>1. /\ req[r].handler = "accept" /\ Open(r) /\ req[r].todo # <<>> /\ ~IsMove(Head(req[r].todo))
        /\ a \in Apps /\ wapp[r][a] # NoApp /\ \A b \in Apps \ {a} : wapp[r][b] = NoApp
        /\ \A b \in found : b \in Apps \ {a} /\ Candidate[b] = Candidate[a]
        /\ req'[r].app = a /\ req'[r].handler = "accept"
        /\ U = <<>> \/ U = <<Close(a, found)>>
        /\ \E new : req' = [req EXCEPT ![r].todo = new]
        /\ UNCHANGED <<tables, writeSets>>
    BY FoundList
  <1>2. TypeOK /\ WrittenOK(r) /\ OfferOK(r)
    BY <1>1 DEF TxInv, FinalInv, TInv
  <1>3. app' = app /\ wapp' = wapp
    BY <1>1 DEF tables, writeSets
  <1>4. ListOK(r)'
    <2> HIDE DEF found
    <2>1. \A i \in DOMAIN U : i = 1 /\ Len(U) = 1 /\ U[i] = Close(a, found)
      <3> HIDE DEF U, a
      <3> QED BY <1>1
    <2>2. /\ Close(a, found).op = "close" /\ Close(a, found).app = a /\ Close(a, found).rest = found
      BY StatementFields
    <2>3. DecisionThenMove(r)' /\ WordsFirst(r)' /\ MovesToCome(r)' /\ OneMoveLeft(r)'
      BY <1>1, <2>1, <2>2 DEF DecisionThenMove, WordsFirst, MovesToCome, OneMoveLeft, IsMove
    <2>4. OwnRow(r)' /\ HireMoves(r)' /\ SweepLast(r)'
      BY <1>1, <2>1, <2>2 DEF OwnRow, HireMoves, SweepLast, IsMove
    <2>5. CloseLast(r)'
      BY <1>1, <1>3, <2>1, <2>2 DEF CloseLast, IsMove
    <2> QED BY <2>3, <2>4, <2>5 DEF ListOK
  <1>5. WrittenOK(r)'
    BY <1>1, <1>2, <1>3, WrittenStays
  <1>6. OfferOK(r)'
    BY <1>1, <1>2, OffersStay
  <1> QED BY <1>4, <1>5, <1>6

\* What closing one of the offers found leaves to do.
LEMMA ClosingList ==
  ASSUME TxInv, NEW r \in Req, CloseAnother(r)
  PROVE  LET T    == req[r].todo
             a    == req[r].app
             rest == T[1].rest
             U    == req'[r].todo
         IN  /\ req[r].handler = "accept" /\ Open(r) /\ T # <<>> /\ T[1].op = "close" /\ Head(T) = T[1]
             /\ DOMAIN T = {1}
             /\ a \in Apps /\ wapp[r][a] # NoApp
             /\ \A c \in rest : c \in Apps /\ c # a /\ Candidate[c] = Candidate[a] /\ wapp[r][c] = NoApp
             /\ req'[r].app = a /\ req'[r].handler = "accept"
             /\ \E b \in rest :
                  \/ /\ rest = {b}
                     /\ U = <<PutOffer(b, "WITHDRAWN", NoTerms), Move(b, "WITHDRAWN", "CANDIDATE")>>
                  \/ U = <<PutOffer(b, "WITHDRAWN", NoTerms), Move(b, "WITHDRAWN", "CANDIDATE"),
                           Close(a, rest \ {b})>>
             /\ \E new : req' = [req EXCEPT ![r].todo = new]
             /\ UNCHANGED <<tables, writeSets>>
  <1> DEFINE T == req[r].todo
             a == req[r].app
  <1>0. TypeOK /\ Open(r) /\ ListOK(r) /\ a \in Apps
    BY DEF TxInv, FinalInv, TInv, CloseAnother, Running, Open, TypeOK, Request
  <1>1. T # <<>> /\ Head(T).op = "close"
    BY DEF CloseAnother, Running
  <1>2. Head(T) = T[1] /\ 1 \in DOMAIN T /\ T[1] \in Stmt /\ DOMAIN T = 1..Len(T)
    BY <1>0, <1>1, Rest
  <1>3. /\ T[1].app = a /\ 1 = Len(T) /\ wapp[r][a] # NoApp
        /\ \A b \in T[1].rest : b # a /\ Candidate[b] = Candidate[a] /\ wapp[r][b] = NoApp
    BY <1>0, <1>1, <1>2 DEF ListOK, CloseLast
  <1>4. Tail(T) = <<>> /\ T[1].rest \subseteq Apps /\ DOMAIN T = {1}
    <2>1. Tail(T) = <<>>
      BY <1>0, <1>1, <1>3, NothingLeft
    <2> HIDE DEF T
    <2>2. T[1].rest \subseteq Apps
      BY <1>2 DEF Stmt, Call
    <2>3. DOMAIN T = {1}
      <3>1. 1..1 = {1}
        OBVIOUS
      <3>2. Len(T) = 1 /\ DOMAIN T = 1..Len(T)
        BY <1>2, <1>3
      <3> QED BY <3>1, <3>2
    <2> QED BY <2>1, <2>2, <2>3
  <1>5. req[r].handler = "accept"
    BY <1>0, <1>1, <1>2 DEF ListOK, OwnRow
  <1> DEFINE Closed(c) ==
        req' = [req EXCEPT ![r].todo =
                  <<PutOffer(c, "WITHDRAWN", NoTerms), Move(c, "WITHDRAWN", "CANDIDATE")>>
                  \o (IF Head(T).rest = {c} THEN <<>> ELSE <<Close(Head(T).app, Head(T).rest \ {c})>>)
                  \o Tail(T)]
  <1> PICK b \in Head(T).rest : Closed(b)
    BY DEF CloseAnother
  <1> DEFINE put  == PutOffer(b, "WITHDRAWN", NoTerms)
             move == Move(b, "WITHDRAWN", "CANDIDATE")
             more == Close(a, T[1].rest \ {b})
             U    == <<put, move>> \o (IF T[1].rest = {b} THEN <<>> ELSE <<more>>) \o <<>>
  <1>6. req' = [req EXCEPT ![r].todo = U] /\ UNCHANGED <<tables, writeSets>>
    BY <1>2, <1>3, <1>4 DEF CloseAnother
  <1>7. (T[1].rest = {b} /\ U = <<put, move>>) \/ U = <<put, move, more>>
    <2>1. put \in {put, move, more} /\ move \in {put, move, more} /\ more \in {put, move, more}
      OBVIOUS
    <2> HIDE DEF put, move, more
    <2>2. <<put, move>> \o <<>> = <<put, move>> /\ <<put, move>> \o <<more>> = <<put, move, more>>
      BY <2>1, Joined
    <2>3. <<put, move, more>> \o <<>> = <<put, move, more>>
      BY <2>1, Joined
    <2> HIDE DEF T
    <2> QED BY <2>2, <2>3
  <1> HIDE DEF U, Closed
  <1>8. req'[r].todo = U /\ req'[r].app = a /\ req'[r].handler = "accept"
    BY <1>0, <1>5, <1>6, ListReplaced
  <1>9. b \in T[1].rest
    BY <1>2
  <1> HIDE DEF put, move, more
  <1>10. \E c \in T[1].rest :
           \/ /\ T[1].rest = {c}
              /\ U = <<PutOffer(c, "WITHDRAWN", NoTerms), Move(c, "WITHDRAWN", "CANDIDATE")>>
           \/ U = <<PutOffer(c, "WITHDRAWN", NoTerms), Move(c, "WITHDRAWN", "CANDIDATE"),
                    Close(a, T[1].rest \ {c})>>
    BY <1>7, <1>9 DEF put, move, more
  <1> QED BY <1>0, <1>1, <1>2, <1>3, <1>4, <1>5, <1>6, <1>8, <1>10

LEMMA CloseAnotherKeeps ==
  ASSUME TxInv, NEW r \in Req, CloseAnother(r)
  PROVE  ListOK(r)' /\ WrittenOK(r)' /\ OfferOK(r)'
  <1> DEFINE a    == req[r].app
             rest == req[r].todo[1].rest
             U    == req'[r].todo
  <1>1. /\ req[r].handler = "accept" /\ Open(r) /\ req[r].todo # <<>> /\ ~IsMove(Head(req[r].todo))
        /\ wapp[r][a] # NoApp
        /\ \A c \in rest : c \in Apps /\ c # a /\ Candidate[c] = Candidate[a] /\ wapp[r][c] = NoApp
        /\ req'[r].app = a /\ req'[r].handler = "accept"
        /\ \E new : req' = [req EXCEPT ![r].todo = new]
        /\ UNCHANGED <<tables, writeSets>>
    BY ClosingList DEF IsMove
  <1> PICK b \in rest :
        \/ U = <<PutOffer(b, "WITHDRAWN", NoTerms), Move(b, "WITHDRAWN", "CANDIDATE")>>
        \/ U = <<PutOffer(b, "WITHDRAWN", NoTerms), Move(b, "WITHDRAWN", "CANDIDATE"),
                 Close(a, rest \ {b})>>
    BY ClosingList
  <1> DEFINE put  == PutOffer(b, "WITHDRAWN", NoTerms)
             move == Move(b, "WITHDRAWN", "CANDIDATE")
             left == rest \ {b}
             more == Close(a, left)
  <1>2. TypeOK /\ WrittenOK(r) /\ OfferOK(r)
    BY <1>1 DEF TxInv, FinalInv, TInv
  <1>3. app' = app /\ wapp' = wapp
    BY <1>1 DEF tables, writeSets
  <1>4. U = <<put, move>> \/ U = <<put, move, more>>
    OBVIOUS
  <1>5. /\ put.op = "offer" /\ put.app = b /\ put.status = "WITHDRAWN"
        /\ move.op = "move" /\ move.app = b /\ move.status = "WITHDRAWN" /\ move.by = "CANDIDATE"
        /\ more.op = "close" /\ more.app = a /\ more.rest = left
    BY DEF PutOffer, Move, Close
  <1>6. /\ b \in Apps /\ b # a /\ Candidate[b] = Candidate[a]
        /\ \A c \in left : c # b /\ c # a /\ Candidate[c] = Candidate[a]
        /\ wapp'[r][b] = NoApp /\ wapp'[r][a] # NoApp /\ \A c \in left : wapp'[r][c] = NoApp
    BY <1>1, <1>3
  <1>7. move = Move(b, "WITHDRAWN", "CANDIDATE")
    OBVIOUS
  <1>8. req'[r].todo = U /\ req'[r].app = a /\ req'[r].handler = "accept"
    BY <1>1
  <1> HIDE DEF U, a, rest, put, move, more, left
  <1>9. /\ U[1] = put /\ U[2] = move
        /\ \/ DOMAIN U = {1, 2}
           \/ DOMAIN U = {1, 2, 3} /\ U[3] = more /\ Len(U) = 3
    <2>1. CASE U = <<put, move>>
      BY <2>1
    <2>2. CASE U = <<put, move, more>>
      BY <2>2
    <2> QED BY <1>4, <2>1, <2>2
  <1>10. DecisionThenMove(r)' /\ WordsFirst(r)'
    <2>1. put.status # "NEGOTIATING" /\ <<move.status, move.by>> \in RecordedAs(put.status)
      BY <1>5, Statuses
    <2>2. DecisionThenMove(r)'
      <3> SUFFICES ASSUME NEW i \in DOMAIN U, U[i].op = "offer"
                   PROVE  /\ i + 1 \in DOMAIN U /\ Records(U[i + 1], U[i].app, U[i].status)
                          /\ wapp'[r][U[i].app] = NoApp
        BY <1>8 DEF DecisionThenMove
      <3>1. i = 1 /\ U[i] = put
        BY <1>5, <1>9
      <3>2. i + 1 = 2 /\ i + 1 \in DOMAIN U /\ U[i + 1] = move
        BY <1>9, <3>1
      <3>3. Records(move, b, put.status)
        BY <1>5, <2>1 DEF Records
      <3> QED BY <1>5, <1>6, <3>1, <3>2, <3>3
    <2>3. WordsFirst(r)'
      BY <1>5, <1>8, <1>9, <2>1 DEF WordsFirst
    <2> QED BY <2>2, <2>3
  <1>11. MovesToCome(r)' /\ OneMoveLeft(r)' /\ OwnRow(r)' /\ HireMoves(r)'
    <2>1. \A i \in DOMAIN U : IsMove(U[i]) => i = 2 /\ U[i] = move
      BY <1>5, <1>9 DEF IsMove
    <2>2. /\ \A i \in DOMAIN U : IsMove(U[i]) => wapp'[r][U[i].app] = NoApp
          /\ \A i, j \in DOMAIN U : ~(i < j /\ IsMove(U[i]) /\ IsMove(U[j]))
      BY <1>5, <1>6, <2>1
    <2>3. MovesToCome(r)' /\ OneMoveLeft(r)' /\ OwnRow(r)'
      BY <1>8, <2>2 DEF MovesToCome, OneMoveLeft, OwnRow
    <2>4. HireMoves(r)'
      BY <1>5, <1>6, <1>7, <1>8, <2>1 DEF HireMoves
    <2> QED BY <2>3, <2>4
  <1>12. SweepLast(r)' /\ CloseLast(r)'
    <2>1. \A i \in DOMAIN U : IsMove(U[i]) => U[i] = move
      BY <1>5, <1>9 DEF IsMove
    <2>2. \A i \in DOMAIN U : U[i].op # "sweep" /\ (U[i].op = "close" => i = 3 /\ U[i] = more /\ i = Len(U))
      BY <1>5, <1>9
    <2>3. CloseLast(r)'
      <3>1. \A i \in DOMAIN U : U[i].op = "close" => U[i].app = a /\ i = Len(U) /\ U[i].rest = left
        BY <1>5, <2>2
      <3>2. \A c \in left : \A j \in DOMAIN U : IsMove(U[j]) => U[j].app # c
        BY <1>5, <1>6, <2>1
      <3>3. \A i \in DOMAIN U : U[i].op = "close" =>
              /\ U[i].app = a /\ i = Len(U)
              /\ wapp'[r][a] # NoApp
              /\ \A c \in U[i].rest :
                   /\ c # a /\ Candidate[c] = Candidate[a] /\ wapp'[r][c] = NoApp
                   /\ \A k \in DOMAIN U : IsMove(U[k]) => U[k].app # c
        BY <1>6, <1>6, <3>1, <3>2
      <3> QED BY <1>8, <3>3 DEF CloseLast
    <2>4. SweepLast(r)'
      BY <1>8, <2>2 DEF SweepLast
    <2> QED BY <2>3, <2>4
  <1>13. ListOK(r)'
    BY <1>10, <1>11, <1>12 DEF ListOK
  <1>14. WrittenOK(r)'
    BY <1>1, <1>2, <1>3, WrittenStays DEF a
  <1>15. OfferOK(r)'
    BY <1>1, <1>2, OffersStay
  <1> QED BY <1>13, <1>14, <1>15

LEMMA RecordScreeningKeeps ==
  ASSUME TxInv, NEW r \in Req, RecordScreening(r), Open(r)'
  PROVE  ListOK(r)' /\ WrittenOK(r)' /\ OfferOK(r)'
  <1> DEFINE a == req[r].app
             s == Move(a, "SCREENING", "SYSTEM")
  <1>0. TypeOK /\ RowsInv /\ req[r].pc = "assess" /\ req[r] \in Request /\ a \in Apps
    BY DEF TxInv, FinalInv, TInv, TypeOK, Request, RecordScreening
  <1>1. wapp' = wapp /\ woffer' = woffer /\ wmsg' = wmsg
    BY DEF RecordScreening, writeSets
  <1>2. \A b \in Apps : wapp'[r][b] = NoApp /\ woffer'[r][b] = NoOffer
    BY <1>0, <1>1 DEF RowsInv, Open
  <1>3. req[r].handler = "screen"
    BY <1>0 DEF RowsInv
  <1>4. req'[r] = IF req[r].saw = "SUBMITTED"
                  THEN [req[r] EXCEPT !.pc = "tx", !.todo = <<s>>] ELSE Idle
    BY <1>0 DEF RecordScreening, TypeOK
  <1>5. req'[r].todo = <<s>> /\ req'[r].app = a /\ req'[r].handler = "screen"
    <2>1. Idle.pc \notin {"tx", "cas"}
      BY DEF Idle
    <2>2. req'[r] = [req[r] EXCEPT !.pc = "tx", !.todo = <<s>>]
      BY <1>4, <2>1 DEF Open
    <2> HIDE DEF s
    <2> QED BY <1>0, <1>3, <2>2 DEF Request
  <1>6. s.app = a /\ s.op = "move"
    BY StatementFields
  <1> HIDE DEF s
  <1>7. DOMAIN <<s>> = {1} /\ <<s>>[1] = s
    OBVIOUS
  <1>8. ListOK(r)'
    <2>1. /\ \A i \in DOMAIN req'[r].todo :
               /\ req'[r].todo[i].app = a /\ req'[r].todo[i].op \in {"offer", "message", "move"}
               /\ req'[r].todo[i].op = "offer" => req'[r].todo[i].status \notin Decisive
          /\ \A i, j \in DOMAIN req'[r].todo :
               IsMove(req'[r].todo[i]) /\ IsMove(req'[r].todo[j]) => i = j
          /\ DOMAIN req'[r].todo \subseteq Nat
      BY <1>5, <1>6, <1>7
    <2> HIDE DEF a
    <2> QED BY <1>0, <1>2, <1>5, <2>1, PlainList
  <1>9. WrittenOK(r)' /\ OfferOK(r)'
    BY <1>2, Statuses DEF WrittenOK, OfferOK, NoOffer
  <1> QED BY <1>8, <1>9

\* What a request does outside its transaction leaves nothing wrong in it: a new one has the
\* list its handler starts with, and has written nothing.
LEMMA OutsideKeeps ==
  ASSUME TxInv, NEW r \in Req, Outside(r), Open(r)'
  PROVE  ListOK(r)' /\ WrittenOK(r)' /\ OfferOK(r)'
  <1>1. TypeOK /\ RowsInv
    BY DEF TxInv, FinalInv, TInv
  <1>2. req'[r].pc = "tx" /\ Arrival(r)
    BY DEF Outside, Open
  <1>3. ListOK(r)' /\ \A b \in Apps : wapp'[r][b] = NoApp /\ woffer'[r][b] = NoOffer
    BY <1>1, <1>2, ArrivalLists
  <1>4. WrittenOK(r)' /\ OfferOK(r)'
    BY <1>3, Statuses DEF WrittenOK, OfferOK, NoOffer
  <1> QED BY <1>3, <1>4

LEMMA OwnStays ==
  ASSUME TxInv, NEW r \in Req, Step(r), Open(r)'
  PROVE  ListOK(r)' /\ WrittenOK(r)' /\ OfferOK(r)'
  <1>1. TypeOK
    BY DEF TxInv, FinalInv, TInv
  <1>2. ~GiveUp(r)
    BY <1>1, OwnAfter DEF Open, Idle
  <1>3. ~Commit(r)
    <2>1. AfterCommit(r).pc \notin {"tx", "cas"}
      BY <1>1 DEF AfterCommit, Idle, TypeOK, Request
    <2> QED BY <1>1, <2>1, OwnAfter DEF Open
  <1>4. ~InsertApplication(r)
    BY <1>1 DEF InsertApplication, GoTo, Idle, Open, TypeOK, Request
  <1> QED BY <1>2, <1>3, <1>4, OutsideKeeps, RecordScreeningKeeps, WriteOfferKeeps, WriteMessageKeeps,
             CheckedKeeps, CompareAndSwapKeeps, FindOthersKeeps, CloseAnotherKeeps DEF Step

LEMMA TxInvInit == Init => TxInv
  <1> SUFFICES ASSUME Init PROVE TxInv
    OBVIOUS
  <1>1. \A r \in Req : req[r] = Idle /\ \A a \in Apps : wapp[r][a] = NoApp /\ woffer[r][a] = NoOffer /\ wmsg[r][a] = <<>>
    BY DEF Init
  <1>2. \A r \in Req : ~Open(r) /\ req[r].pc # "assess" /\ req[r].pc # "cas"
    BY <1>1 DEF Open, Idle
  <1>3. \A a \in Apps : app[a].status # "DRAFT" /\ (app[a].status = None => app[a].trail = <<>>)
    BY DEF Init, AtOffer, NoApp, None
  <1>4. RowsInv
    BY <1>1, <1>2, <1>3 DEF RowsInv
  <1> QED BY <1>2, <1>4, FinalInit DEF TxInv

LEMMA TxInvNext == TxInv /\ [Next]_vars => TxInv'
  <1> SUFFICES ASSUME TxInv, [Next]_vars PROVE TxInv'
    OBVIOUS
  <1>0. FinalInv /\ TypeOK /\ FinalInv'
    BY FinalNext DEF TxInv, FinalInv, TInv
  <1>1. CASE Next
    <2> PICK r \in Req : Arrival(r) \/ Serve(r) \/ Die(r)
      BY <1>1 DEF Next
    <2>1. Step(r)
      BY <1>0, Kinds DEF Step
    <2>2. RowsInv'
      BY <2>1, RowsNext
    <2>3. ASSUME NEW q \in Req, Open(q)'
          PROVE  ListOK(q)' /\ WrittenOK(q)' /\ OfferOK(q)'
      <3>1. CASE q = r
        BY <2>1, <2>3, <3>1, OwnStays
      <3>2. CASE q # r
        <4>1. Open(q)
          BY <1>0, <2>1, <2>3, <3>2, OthersKeepTheirs DEF Open
        <4> QED BY <2>1, <3>2, <4>1, OthersStay
      <3> QED BY <3>1, <3>2
    <2> QED BY <1>0, <2>2, <2>3 DEF TxInv
  <1>2. CASE UNCHANGED vars
    <2>1. /\ app' = app /\ offer' = offer /\ req' = req
          /\ wapp' = wapp /\ woffer' = woffer /\ wmsg' = wmsg
      BY <1>2 DEF vars, tables, writeSets
    <2>2. RowsInv'
      BY <2>1 DEF TxInv, RowsInv, Open
    <2>3. ASSUME NEW q \in Req, Open(q)'
          PROVE  ListOK(q)' /\ WrittenOK(q)' /\ OfferOK(q)'
      <3>1. ListOK(q) /\ WrittenOK(q) /\ OfferOK(q)
        BY <2>1, <2>3 DEF TxInv, Open
      <3>2. ListOK(q)'
        BY <2>1, <3>1 DEF ListOK, DecisionThenMove, WordsFirst, MovesToCome, OneMoveLeft, OwnRow,
                          HireMoves, SweepLast, CloseLast
      <3> QED BY <2>1, <3>1, <3>2 DEF WrittenOK, OfferOK
    <2> QED BY <1>0, <2>2, <2>3 DEF TxInv
  <1> QED BY <1>1, <1>2

\* Whatever the requests, rows and lists: every open transaction is one of those its handler
\* can have left to do, over rows it alone has written.
THEOREM TransactionsFit == Spec => []TxInv
  BY TxInvInit, TxInvNext, PTL DEF Spec

-----------------------------------------------------------------------------
(* The decisions. *)

\* Only a commit changes an offer that others see.
LEMMA OffersChangeOnCommit ==
  ASSUME NEW r \in Req, Step(r), ~Commit(r)
  PROVE  offer' = offer
  BY DEF Step, Outside, GiveUp, InsertApplication, RecordScreening, WriteOffer, WriteMessage, Checked,
         CompareAndSwap, FindOthers, CloseAnother, tables

\* A committed decision commits its move, and what was said when it opens a negotiation.
LEMMA DecisionCommits ==
  ASSUME TxInv, NEW r \in Req, Commit(r), NEW a \in Apps,
         offer'[a].status # offer[a].status, offer'[a].status \in Decisive
  PROVE  /\ \E to \in Status, actor \in Actor :
              /\ <<to, actor>> \in RecordedAs(offer'[a].status)
              /\ OneMove(app[a], app'[a], to, actor)
         /\ offer'[a].status = "NEGOTIATING" =>
              \E i \in DOMAIN thread'[a] : thread'[a][i].by = "CANDIDATE"
  <1>1. TInv /\ req[r].todo = <<>> /\ OfferOK(r)
    BY DEF TxInv, FinalInv, Commit, Open
  <1>2. offer'[a] = woffer[r][a]
    BY DEF Commit, OfferSeenBy
  <1>3. /\ wapp[r][a] # NoApp
        /\ \E to \in Status, actor \in Actor :
             /\ <<to, actor>> \in RecordedAs(woffer[r][a].status)
             /\ OneMove(app[a], wapp[r][a], to, actor)
        /\ woffer[r][a].status = "NEGOTIATING" =>
             \E k \in DOMAIN wmsg[r][a] : wmsg[r][a][k] = "CANDIDATE"
    BY <1>1, <1>2 DEF OfferOK
  <1>4. app'[a] = wapp[r][a]
    BY <1>3 DEF Commit, AppSeenBy
  <1>5. \A k \in DOMAIN wmsg[r][a] : \E i \in DOMAIN thread'[a] : thread'[a][i] = Unread(wmsg[r][a][k])
    BY <1>1, CommitAppends
  <1>6. \A x : Unread(x).by = x
    BY DEF Unread
  <1>7. offer'[a].status = "NEGOTIATING" => \E i \in DOMAIN thread'[a] : thread'[a][i].by = "CANDIDATE"
    BY <1>2, <1>3, <1>5, <1>6
  <1> QED BY <1>2, <1>3, <1>4, <1>7

AnswersInv == TxInv /\ AnswersAgree

LEMMA AnswersNext == AnswersInv /\ [Next]_vars => AnswersInv'
  <1> SUFFICES ASSUME AnswersInv, [Next]_vars PROVE AnswersInv'
    OBVIOUS
  <1>0. TxInv /\ TxInv' /\ FinalInv /\ TypeOK /\ AnswersAgree
    BY TxInvNext DEF AnswersInv, TxInv, FinalInv, TInv
  <1> SUFFICES ASSUME NEW a \in Apps
               PROVE  /\ offer'[a].status = "ACCEPTED" => app'[a].status = "ACCEPTED"
                      /\ offer'[a].status = "DECLINED" => app'[a].status = "WITHDRAWN"
    BY <1>0 DEF AnswersInv, AnswersAgree
  <1>1. CASE offer'[a].status = offer[a].status
    <2>1. app[a].status \in Finished => app'[a].status = app[a].status
      BY <1>0, FinalStep
    <2> QED BY <1>0, <1>1, <2>1 DEF AnswersAgree, Finished
  <1>2. CASE offer'[a].status # offer[a].status
    <2>1. Next
      BY <1>2 DEF vars, tables
    <2> PICK r \in Req : Step(r)
      BY <1>0, <2>1, Kinds DEF Next, Step
    <2>2. Commit(r)
      BY <1>2, OffersChangeOnCommit
    <2> SUFFICES ASSUME offer'[a].status \in {"ACCEPTED", "DECLINED"}
                 PROVE  app'[a].status = IF offer'[a].status = "ACCEPTED" THEN "ACCEPTED" ELSE "WITHDRAWN"
      OBVIOUS
    <2>3. offer'[a].status \in Decisive
      BY DEF Decisive, OfferStatus
    <2>4. PICK to \in Status, actor \in Actor :
            <<to, actor>> \in RecordedAs(offer'[a].status) /\ OneMove(app[a], app'[a], to, actor)
      BY <1>0, <1>2, <2>2, <2>3, DecisionCommits
    <2>5. app'[a].status = to
      BY <2>4 DEF OneMove
    <2>6. RecordedAs("ACCEPTED") = {<<"ACCEPTED", "CANDIDATE">>} /\ RecordedAs("DECLINED") = {<<"WITHDRAWN", "CANDIDATE">>}
      BY DEF RecordedAs
    <2> QED BY <2>4, <2>5, <2>6
  <1> QED BY <1>1, <1>2

LEMMA AnswersInit == Init => AnswersInv
  <1> SUFFICES ASSUME Init PROVE AnswersInv
    OBVIOUS
  <1>1. \A a \in Apps : offer[a].status \notin {"ACCEPTED", "DECLINED"}
    BY DEF Init, NoOffer, None
  <1> QED BY <1>1, TxInvInit DEF AnswersInv, AnswersAgree

\* However requests interleave, roll back or die, no offer reads accepted on an application
\* that is not, nor declined on one that was not withdrawn.
THEOREM AnswersHold == Spec => []AnswersAgree
  <1>1. AnswersInv => AnswersAgree
    BY DEF AnswersInv
  <1> QED BY <1>1, AnswersInit, AnswersNext, PTL DEF Spec

LEMMA DecisionStep ==
  ASSUME TxInv, [Next]_vars, NEW a \in Apps,
         offer'[a].status # offer[a].status, offer'[a].status \in OfferStatus \ {"EXTENDED"}
  PROVE  /\ Len(app'[a].trail) = Len(app[a].trail) + 1
         /\ LET last == app'[a].trail[Len(app'[a].trail)]
            IN  <<last.to, last.by>> \in RecordedAs(offer'[a].status)
         /\ offer'[a].status = "NEGOTIATING" =>
              \E i \in DOMAIN thread'[a] : thread'[a][i].by = "CANDIDATE"
  <1>0. TypeOK /\ app[a].trail \in Seq(HistoryRow)
    BY DEF TxInv, FinalInv, TInv, TypeOK, AppRow
  <1>1. Next
    BY DEF vars, tables
  <1> PICK r \in Req : Step(r)
    BY <1>0, <1>1, Kinds DEF Next, Step
  <1>2. Commit(r)
    BY OffersChangeOnCommit
  <1>3. offer'[a].status \in Decisive
    BY DEF Decisive
  <1>4. PICK to \in Status, actor \in Actor :
          <<to, actor>> \in RecordedAs(offer'[a].status) /\ OneMove(app[a], app'[a], to, actor)
    BY <1>2, <1>3, DecisionCommits
  <1>5. offer'[a].status = "NEGOTIATING" => \E i \in DOMAIN thread'[a] : thread'[a][i].by = "CANDIDATE"
    BY <1>2, <1>3, DecisionCommits
  <1> DEFINE old  == app[a].trail
             row  == [from |-> app[a].status, to |-> to, by |-> actor]
             new  == Append(old, row)
  <1>6. app'[a].trail = new
    BY <1>4 DEF OneMove
  <1>7. Len(new) = Len(old) + 1 /\ new[Len(old) + 1] = row
    <2> HIDE DEF old, row
    <2> QED BY <1>0 DEF old
  <1>8. row.to = to /\ row.by = actor
    OBVIOUS
  <1> HIDE DEF new, row
  <1> QED BY <1>4, <1>5, <1>6, <1>7, <1>8

\* Nobody ever sees an offer answered, negotiated or rescinded without the move that records
\* it, by the side whose decision it is.
THEOREM DecisionsRecorded == Spec => DecisionsAreRecorded
  <1>1. TxInv /\ [Next]_vars =>
          [\A a \in Apps :
             (offer'[a].status # offer[a].status /\ offer'[a].status \in OfferStatus \ {"EXTENDED"})
             => /\ Len(app'[a].trail) = Len(app[a].trail) + 1
                /\ LET last == app'[a].trail[Len(app'[a].trail)]
                   IN  <<last.to, last.by>> \in RecordedAs(offer'[a].status)
                /\ offer'[a].status = "NEGOTIATING" =>
                     \E i \in DOMAIN thread'[a] : thread'[a][i].by = "CANDIDATE"]_vars
    BY DecisionStep
  <1> QED BY <1>1, TxInvInit, TxInvNext, PTL DEF Spec, DecisionsAreRecorded

-----------------------------------------------------------------------------
(* Refinement: every step is a step of the ledger, or one it does not see. *)

\* The ledger's rules are the pipeline's.
LEMMA SameRules ==
  ASSUME NEW actor, NEW from, NEW to, mayMove(actor, from, to)
  PROVE  Ledger!mayMove(actor, from, to)
  BY DEF mayMove, isTransitionAllowed, isEntitled, TRANSITIONS, CANDIDATE_SETTABLE_STATUSES,
         EMPLOYER_SETTABLE_STATUSES, Ledger!mayMove, Ledger!isTransitionAllowed, Ledger!isEntitled,
         Ledger!TRANSITIONS, Ledger!CANDIDATE_SETTABLE_STATUSES, Ledger!EMPLOYER_SETTABLE_STATUSES

LEMMA SeenAsMove ==
  ASSUME NEW x, NEW y, NEW to, NEW actor, OneMove(x, y, to, actor)
  PROVE  Ledger!MovedTo(Entry(x), Entry(y), to, actor)
  BY SameRules DEF OneMove, Entry, None, Ledger!MovedTo

LEMMA SeenAsReopening ==
  ASSUME NEW x, NEW y, ReopenedAndOffered(x, y)
  PROVE  /\ Entry(x).status = "REJECTED"
         /\ Ledger!MovedTo(Ledger!Reopened(Entry(x)), Entry(y), "OFFER", "EMPLOYER")
  <1>1. mayMove("EMPLOYER", "SCREENING", "OFFER")
    BY DEF mayMove, isTransitionAllowed, isEntitled, TRANSITIONS, EMPLOYER_SETTABLE_STATUSES
  <1>2. Ledger!mayMove("EMPLOYER", "SCREENING", "OFFER")
    BY <1>1, SameRules
  <1> QED BY <1>2 DEF ReopenedAndOffered, Entry, Ledger!MovedTo, Ledger!Reopened

\* The ledger that others see.
Book == [a \in Apps |-> Entry(app[a])]

\* A commit publishes one application's moves, or a hire.
LEMMA CommitSeen ==
  ASSUME TxInv, NEW r \in Req, Commit(r)
  PROVE  Ledger!Next \/ Book' = Book
  <1> DEFINE W == {b \in Apps : wapp[r][b] # NoApp}
             a == req[r].app
  <1>1. \A b \in Apps : app'[b] = IF b \in W THEN wapp[r][b] ELSE app[b]
    BY DEF Commit, AppSeenBy
  <1>2. WrittenOK(r) /\ a \in Apps
    BY DEF TxInv, FinalInv, TInv, TypeOK, Request, Commit, Open
  <1>3. DOMAIN Book' = Apps
    BY DEF Book
  <1>4. \A b \in Apps : Book[b] = Entry(app[b]) /\ Book'[b] = Entry(app'[b])
    BY DEF Book
  <1>5. \A b \in Apps \ W : Book'[b] = Book[b]
    BY <1>1, <1>4
  <1>6. CASE W = {}
    <2>1. \A b \in Apps : app'[b] = app[b]
      BY <1>1, <1>6
    <2> QED BY <2>1 DEF Book
  <1>7. CASE W # {} /\ req[r].handler = "accept"
    <2>1. a \in W
      BY <1>2, <1>7 DEF WrittenOK
    <2>2. OneMove(app[a], app'[a], "ACCEPTED", "CANDIDATE")
      BY <1>1, <1>2, <1>7, <2>1 DEF WrittenOK
    <2>3. \A b \in W \ {a} : Candidate[b] = Candidate[a] /\ OneMove(app[b], app'[b], "WITHDRAWN", "CANDIDATE")
      BY <1>1, <1>2, <1>7 DEF WrittenOK
    <2>4. Ledger!MovedTo(Book[a], Book'[a], "ACCEPTED", "CANDIDATE")
      BY <1>2, <1>4, <2>2, SeenAsMove
    <2>5. \A b \in W \ {a} : /\ Candidate[b] = Candidate[a]
                             /\ Ledger!MovedTo(Book[b], Book'[b], "WITHDRAWN", "CANDIDATE")
      BY <1>4, <2>3, SeenAsMove
    <2>6. \A b \in Apps \ ({a} \cup (W \ {a})) : Book'[b] = Book[b]
      BY <1>5, <2>1
    <2>7. W \ {a} \in SUBSET (Apps \ {a})
      OBVIOUS
    <2> HIDE DEF W
    <2>8. Ledger!Hire(a, W \ {a})
      BY <2>4, <2>5, <2>6 DEF Ledger!Hire, Ledger!OthersStay, Book
    <2> QED BY <1>2, <1>3, <2>7, <2>8 DEF Ledger!Next, Book
  <1>8. CASE W # {} /\ req[r].handler # "accept"
    <2>1. W = {a}
      BY <1>2, <1>8 DEF WrittenOK
    <2>2. \A b \in Apps \ {a} : Book'[b] = Book[b]
      BY <1>5, <2>1
    <2>3. \/ \E to \in Status, actor \in Actor : OneMove(app[a], app'[a], to, actor)
          \/ ReopenedAndOffered(app[a], app'[a])
      BY <1>1, <1>2, <1>8, <2>1 DEF WrittenOK
    <2>4. Ledger!Status = Status /\ Ledger!Actor = Actor
      BY DEF Status, Actor, Ledger!Status, Ledger!Actor
    <2>5. \/ \E to \in Ledger!Status, actor \in Ledger!Actor : Ledger!MovedTo(Book[a], Book'[a], to, actor)
          \/ /\ Book[a].status = "REJECTED"
             /\ Ledger!MovedTo(Ledger!Reopened(Book[a]), Book'[a], "OFFER", "EMPLOYER")
      BY <1>2, <1>4, <2>3, <2>4, SeenAsMove, SeenAsReopening
    <2>6. Ledger!Advance(a)
      BY <2>2, <2>5 DEF Ledger!Advance, Ledger!OthersStay, Book
    <2> QED BY <1>2, <1>3, <2>6 DEF Ledger!Next, Book
  <1> QED BY <1>6, <1>7, <1>8

\* Everything else it sees is an application being filed.
LEMMA LedgerStep ==
  ASSUME TxInv, [Next]_vars
  PROVE  Ledger!Next \/ Book' = Book
  <1>0. TypeOK /\ RowsInv /\ app \in [Apps -> AppRow]
    BY DEF TxInv, FinalInv, TInv, TypeOK
  <1>1. ASSUME app' = app PROVE Book' = Book
    BY <1>1 DEF Book
  <1>2. CASE UNCHANGED vars
    BY <1>1, <1>2 DEF vars, tables
  <1>3. CASE Next
    <2> PICK r \in Req : Step(r)
      BY <1>0, <1>3, Kinds DEF Next, Step
    <2>1. CASE Commit(r)
      BY <2>1, CommitSeen
    <2>2. CASE RecordScreening(r)
      <3>1. \A a \in Apps : Entry(app'[a]) = Entry(app[a])
        BY <1>0, <2>2 DEF RecordScreening, AppRow, Entry
      <3> QED BY <3>1 DEF Book
    <2>3. CASE InsertApplication(r)
      <3> DEFINE a == req[r].app
      <3>1. CASE app[a].status # None
        BY <1>1, <2>3, <3>1 DEF InsertApplication
      <3>2. CASE app[a].status = None
        <4>1. app' = [app EXCEPT ![a] = Submitted] /\ a \in Apps
          BY <1>0, <2>3, <3>2 DEF InsertApplication, TypeOK, Request
        <4>2. app'[a] = Submitted /\ \A b \in Apps \ {a} : app'[b] = app[b]
          BY <1>0, <4>1
        <4>3. app[a].trail = <<>>
          BY <1>0, <3>2, <4>1 DEF RowsInv
        <4>4. Book[a] = Ledger!Unfiled /\ Book'[a] = Ledger!Filed
          BY <3>2, <4>1, <4>2, <4>3 DEF Book, Entry, None, Submitted, Ledger!Unfiled, Ledger!Filed
        <4>5. DOMAIN Book' = Apps /\ \A b \in Apps \ {a} : Book'[b] = Book[b]
          BY <4>2 DEF Book
        <4>6. Ledger!File(a)
          BY <4>4, <4>5 DEF Ledger!File, Ledger!OthersStay, Book
        <4> QED BY <4>1, <4>5, <4>6 DEF Ledger!Next, Book
      <3> QED BY <3>1, <3>2
    <2>4. CASE \/ Outside(r) \/ GiveUp(r) \/ WriteOffer(r) \/ WriteMessage(r) \/ Checked(r)
               \/ CompareAndSwap(r) \/ FindOthers(r) \/ CloseAnother(r)
      <3>1. app' = app
        BY <2>4 DEF Outside, GiveUp, WriteOffer, WriteMessage, Checked, CompareAndSwap, FindOthers,
                    CloseAnother, tables
      <3> QED BY <1>1, <3>1
    <2> QED BY <2>1, <2>2, <2>3, <2>4 DEF Step
  <1> QED BY <1>2, <1>3

LEMMA LedgerInit == Init => Ledger!Init
  <1> SUFFICES ASSUME Init PROVE Ledger!Init
    OBVIOUS
  <1>1. \A a \in Apps : Entry(app[a]) = IF a \in Opened THEN Entry(AtOffer) ELSE Entry(NoApp)
    BY DEF Init
  <1> QED BY <1>1 DEF Ledger!Init

\* With requests, locks, stale reads, rollbacks and crashes hidden, what the pipeline does to
\* applications is what the ledger allows: filing, one legal move, reopening with an offer, a hire.
THEOREM LedgerImplemented == Spec => ImplementsLedger
  <1>1. TxInv /\ [Next]_vars => [Ledger!Next]_([a \in Apps |-> Entry(app[a])])
    BY LedgerStep DEF Book
  <1> QED BY <1>1, LedgerInit, TxInvInit, TxInvNext, PTL DEF Spec, ImplementsLedger, Ledger!Spec

-----------------------------------------------------------------------------
(* One hire among offers that were on the table together. *)

\* Nobody puts a new offer on the table, and no rejected application is taken back.
NoReopening == "extendOffer" \notin Traffic /\ "SCREENING" \notin BoardTargets

Decided == {"ACCEPTED", "DECLINED", "WITHDRAWN"}
Ended   == {"ACCEPTED", "REJECTED", "WITHDRAWN"}
Late    == Ended \cup {"OFFER", "NEGOTIATING"}

\* Where a request is while it applies for its application, or screens it.
Applying == {"insert", "timeline", "screen", "assess"}

\* Offers are what they were to begin with, on applications that are past the offer; what ended
\* is not held by anyone, and no offer that was decided is left on an application that goes on.
OfferedRows ==
  /\ \A a \in Apps : offer[a].status # None <=> a \in Opened
  /\ \A r \in Req, a \in Apps : woffer[r][a] # NoOffer => a \in Opened /\ woffer[r][a].status # None
  /\ \A a \in Opened : app[a].status \in Late
  /\ \A r \in Req, a \in Opened : wapp[r][a] = NoApp \/ wapp[r][a].status \in Late
  /\ \A r \in Req, a \in Opened : app[a].status \in Ended => wapp[r][a] = NoApp
  /\ \A a \in Apps : offer[a].status \in Decided => app[a].status \in Ended
  /\ \A r \in Req : req[r].pc \in Applying => req[r].app \notin Opened

\* A statement of handler h: offers are written where there is one, accepted by accept only, and
\* nothing takes their applications back into screening.
Fits(s, h) ==
  /\ s.op = "offer" => s.app \in Opened /\ (s.status = "ACCEPTED" => h = "accept")
  /\ s.op = "close" => s.rest \subseteq Opened
  /\ s.op = "move" /\ s.status = "SCREENING" /\ s.by # "CANDIDATE" => s.app \notin Opened

ListFits(r) == \A i \in DOMAIN req[r].todo : Fits(req[r].todo[i], req[r].handler)

\* Only accept has written ACCEPTED where it did not stand.
AcceptedBy(r) ==
  \A b \in Apps : woffer[r][b].status = "ACCEPTED" /\ offer[b].status # "ACCEPTED" =>
    req[r].handler = "accept"

\* Once accept has searched for the candidate's other offers, each that can still be answered
\* is written or still on its list.
Swept(r) ==
  LET T == req[r].todo
      a == req[r].app
  IN  req[r].handler = "accept" /\ (\A i \in DOMAIN T : T[i].op # "sweep") =>
        \A b \in Apps \ {a} : Candidate[b] = Candidate[a] /\ assertActionable(b) =>
          \/ wapp[r][b] # NoApp
          \/ \E i \in DOMAIN T : T[i].op = "close" /\ b \in T[i].rest
          \/ \E i \in DOMAIN T : IsMove(T[i]) /\ T[i].app = b

HireInv ==
  /\ AnswersInv
  /\ OfferedRows
  /\ \A r \in Req : Open(r) => ListFits(r) /\ AcceptedBy(r) /\ Swept(r)
  /\ HireClosesTheRest

LEMMA HireFacts ==
  ASSUME HireInv
  PROVE  /\ TxInv /\ AnswersAgree /\ FinalInv /\ TInv /\ TypeOK /\ RowsInv /\ OfferedRows /\ HireClosesTheRest
         /\ Opened \subseteq Apps
         /\ app \in [Apps -> AppRow] /\ offer \in [Apps -> OfferRow] /\ req \in [Req -> Request]
         /\ \A a \in Opened : app[a].status # None
  BY OpenedAssumption DEF HireInv, AnswersInv, TxInv, FinalInv, TInv, TypeOK, OfferedRows, Late, Ended, None

LEMMA StatusSets ==
  /\ ACCEPTABLE_FROM = {"OFFER", "NEGOTIATING"}
  /\ ACCEPTABLE_FROM \subseteq WITHDRAWABLE_FROM
  /\ Late = Ended \cup ACCEPTABLE_FROM /\ Ended \cap ACCEPTABLE_FROM = {}
  /\ None \notin Late /\ None \notin DECIDABLE /\ None \notin Decided
  /\ OfferStatus = Decided \cup DECIDABLE /\ Decided \cap DECIDABLE = {}
  /\ Decided \subseteq Decisive /\ Decisive \cap DECIDABLE \subseteq DECIDABLE
  BY DEF ACCEPTABLE_FROM, WITHDRAWABLE_FROM, Status, TRANSITIONS, Late, Ended, None, DECIDABLE, Decided,
         OfferStatus, Decisive

\* Where a legal move can lead from a status past the offer.
LEMMA LateMoves ==
  ASSUME NEW from \in Late, NEW to, NEW actor, mayMove(actor, from, to),
         ~(to = "SCREENING" /\ actor # "CANDIDATE")
  PROVE  to \in Late /\ from \notin Ended
  BY DEF Late, Ended, mayMove, isTransitionAllowed, isEntitled, TRANSITIONS, CANDIDATE_SETTABLE_STATUSES

\* A row that has ended, and had an offer, stays as it is.
LEMMA EndedStays ==
  ASSUME HireInv, NEW r \in Req, Step(r), NEW b \in Opened, app[b].status \in Ended
  PROVE  app'[b].status = app[b].status
  <1>0. b \in Apps /\ app[b].status # None /\ app \in [Apps -> AppRow]
    BY HireFacts
  <1>1. CASE InsertApplication(r)
    BY <1>0, <1>1 DEF InsertApplication
  <1>2. CASE RecordScreening(r)
    BY <1>0, <1>2 DEF RecordScreening, AppRow
  <1>3. CASE Commit(r)
    <2>1. wapp[r][b] = NoApp
      BY HireFacts DEF OfferedRows
    <2> QED BY <1>0, <1>3, <2>1 DEF Commit, AppSeenBy
  <1>4. CASE \/ Outside(r) \/ GiveUp(r) \/ WriteOffer(r) \/ WriteMessage(r) \/ Checked(r)
             \/ CompareAndSwap(r) \/ FindOthers(r) \/ CloseAnother(r)
    BY <1>4 DEF Outside, GiveUp, WriteOffer, WriteMessage, Checked, CompareAndSwap, FindOthers,
                CloseAnother, tables
  <1> QED BY <1>1, <1>2, <1>3, <1>4 DEF Step

\* An offer that exists after a step existed before it.
LEMMA OffersPersist ==
  ASSUME HireInv, NEW r \in Req, Step(r), NEW b \in Apps
  PROVE  offer'[b].status # None <=> b \in Opened
  <1>1. CASE Commit(r)
    BY <1>1, HireFacts DEF Commit, OfferSeenBy, OfferedRows
  <1>2. CASE ~Commit(r)
    BY <1>2, OffersChangeOnCommit, HireFacts DEF OfferedRows
  <1> QED BY <1>1, <1>2

\* An offer that can be answered after a step could be answered before it.
LEMMA StillActionable ==
  ASSUME HireInv, NEW r \in Req, Step(r), NEW b \in Apps, assertActionable(b)'
  PROVE  assertActionable(b) /\ b \in Opened
  <1>1. app'[b].status \in ACCEPTABLE_FROM /\ offer'[b].status \in DECIDABLE
    BY DEF assertActionable
  <1>2. b \in Opened
    BY <1>1, OffersPersist, StatusSets
  <1>3. app[b].status \notin Ended
    BY <1>1, <1>2, EndedStays, StatusSets
  <1>4. app[b].status \in ACCEPTABLE_FROM
    BY <1>2, <1>3, HireFacts, StatusSets DEF OfferedRows
  <1>5. offer[b].status \in OfferStatus
    BY <1>2, HireFacts DEF OfferedRows, OfferRow
  <1>6. offer[b].status \in DECIDABLE
    BY <1>3, <1>5, HireFacts, StatusSets DEF OfferedRows
  <1> QED BY <1>2, <1>4, <1>6 DEF assertActionable

\* A request applies for what was not there before, or went on applying.
LEMMA ApplyingFrom ==
  ASSUME TypeOK, NEW r \in Req, Arrival(r) \/ Serve(r) \/ Die(r), req'[r].pc \in Applying
  PROVE  \/ req[r].pc \in Applying /\ req'[r].app = req[r].app
         \/ req'[r].app \in Apps /\ app[req'[r].app].status = None
  <1>0. req \in [Req -> Request] /\ req[r] \in Request
    BY DEF TypeOK
  <1>1. ASSUME NEW h, NEW a, NEW pc \in {"tx", "load", "mark"}, NEW todo, Arrive(r, h, a, pc, todo)
        PROVE  FALSE
    <2>1. req'[r] = Taken(h, a, pc, todo)
      BY <1>1, ArriveFacts
    <2> QED BY <2>1 DEF Taken, Applying
  <1>2. CASE Arrival(r)
    <2> PICK a \in Apps :
          \/ SubmitApplication(r, a)
          \/ \E to \in PatchTargets : UpdateStatus(r, a, to)
          \/ \E to \in BoardTargets : BoardMove(r, a, to)
          \/ \E t \in Terms, note \in BOOLEAN : ExtendOffer(r, a, t, note)
          \/ \E t \in Terms : UpdateOffer(r, a, t)
          \/ WithdrawOffer(r, a)
          \/ PostEmployerMessage(r, a)
          \/ GetOfferForEmployer(r, a)
          \/ GetMyOffer(r, a)
          \/ Accept(r, a)
          \/ Decline(r, a)
          \/ PostCandidateMessage(r, a)
      BY <1>2 DEF Arrival
    <2>1. "tx" \in {"tx", "load", "mark"} /\ "load" \in {"tx", "load", "mark"} /\ "mark" \in {"tx", "load", "mark"}
      OBVIOUS
    <2>2. CASE SubmitApplication(r, a)
      BY <1>0, <2>2 DEF SubmitApplication, Taken
    <2>3. CASE \E to \in PatchTargets : UpdateStatus(r, a, to)
      BY <1>1, <2>1, <2>3, Zenon DEF UpdateStatus
    <2>4. CASE \E to \in BoardTargets : BoardMove(r, a, to)
      BY <1>1, <2>1, <2>4, Zenon DEF BoardMove
    <2>5. CASE \E t \in Terms, note \in BOOLEAN : ExtendOffer(r, a, t, note)
      BY <1>1, <2>1, <2>5, Zenon DEF ExtendOffer
    <2>6. CASE \E t \in Terms : UpdateOffer(r, a, t)
      BY <1>1, <2>1, <2>6, Zenon DEF UpdateOffer
    <2>7. CASE WithdrawOffer(r, a) \/ PostEmployerMessage(r, a) \/ GetOfferForEmployer(r, a)
      BY <1>1, <2>1, <2>7, Zenon DEF WithdrawOffer, PostEmployerMessage, GetOfferForEmployer
    <2>8. CASE GetMyOffer(r, a) \/ Accept(r, a) \/ Decline(r, a) \/ PostCandidateMessage(r, a)
      BY <1>1, <2>1, <2>8, Zenon DEF GetMyOffer, Accept, Decline, PostCandidateMessage
    <2> QED BY <2>2, <2>3, <2>4, <2>5, <2>6, <2>7, <2>8
  <1>3. CASE GiveUp(r)
    BY <1>0, <1>3 DEF GiveUp, Idle, Applying
  <1>4. CASE InsertApplication(r) \/ AddSubmittedEvent(r)
    <2>1. req[r].pc \in Applying
      BY <1>4 DEF InsertApplication, AddSubmittedEvent, Applying
    <2>2. req'[r] = Idle \/ \E pc : req' = [req EXCEPT ![r].pc = pc]
      BY <1>0, <1>4 DEF InsertApplication, AddSubmittedEvent, GoTo
    <2>3. Idle.pc \notin Applying
      BY DEF Idle, Applying
    <2>4. ASSUME NEW pc, req' = [req EXCEPT ![r].pc = pc]
          PROVE  req'[r].app = req[r].app
      BY <1>0, <2>4 DEF Request
    <2> QED BY <2>1, <2>2, <2>3, <2>4
  <1>14. CASE ReadForScreening(r)
    <2>1. req[r].pc \in Applying
      BY <1>14 DEF ReadForScreening, Applying
    <2> DEFINE next == [req[r] EXCEPT !.handler = "screen", !.pc = "assess", !.saw = app[req[r].app].status]
    <2>2. req'[r] = Idle \/ req'[r] = next
      BY <1>0, <1>14 DEF ReadForScreening
    <2>3. next.app = req[r].app /\ Idle.pc \notin Applying
      BY <1>0 DEF Request, Idle, Applying
    <2> HIDE DEF next
    <2> QED BY <2>1, <2>2, <2>3
  <1>5. CASE RecordScreening(r)
    BY <1>0, <1>5 DEF RecordScreening, Idle, Applying, Request
  <1>6. CASE WriteOffer(r) \/ WriteMessage(r) \/ CompareAndSwap(r)
    <2>1. req'[r] = Advanced(r)
      BY <1>6, OwnAfter
    <2> QED BY <1>0, <2>1 DEF Advanced, Applying, Request
  <1>7. CASE CheckMove(r)
    BY <1>0, <1>3, <1>7 DEF CheckMove, Applying, Request
  <1>8. CASE FindOthers(r) \/ CloseAnother(r)
    <2>1. \E new : req' = [req EXCEPT ![r].todo = new]
      BY <1>8 DEF FindOthers, CloseAnother
    <2>2. req'[r].pc = "tx"
      BY <1>8, <2>1, ListReplaced DEF FindOthers, CloseAnother, Running
    <2> QED BY <2>2 DEF Applying
  <1>9. CASE Commit(r)
    <2>1. req'[r] = AfterCommit(r)
      BY <1>9, OwnAfter
    <2> QED BY <1>0, <2>1 DEF AfterCommit, Idle, Applying, Request
  <1>10. CASE LoadThread(r)
    BY <1>0, <1>10 DEF LoadThread, Applying, Request
  <1>11. CASE MarkThreadRead(r)
    BY <1>0, <1>11 DEF MarkThreadRead, Idle, Applying, Request
  <1>12. CASE RespondToEmployer(r)
    BY <1>0, <1>12 DEF RespondToEmployer, Idle, Applying
  <1>13. CASE LoseTheRace(r) \/ Expire(r) \/ Die(r)
    BY <1>3, <1>13 DEF LoseTheRace, Expire, Die
  <1> QED BY <1>2, <1>4, <1>5, <1>6, <1>7, <1>8, <1>9, <1>10, <1>11, <1>12, <1>13,
             <1>14 DEF Serve

-----------------------------------------------------------------------------
(* What the lists of statements can hold. *)

LEMMA StatementsFit ==
  ASSUME NEW a, NEW h
  PROVE  /\ \A st, t : a \in Opened /\ (st = "ACCEPTED" => h = "accept") => Fits(PutOffer(a, st, t), h)
         /\ \A who : Fits(Say(a, who), h)
         /\ \A to, actor : to # "SCREENING" \/ actor = "CANDIDATE" \/ a \notin Opened => Fits(Move(a, to, actor), h)
         /\ Fits(Sweep(a), h)
         /\ \A found \in SUBSET Opened : Fits(Close(a, found), h)
  BY DEF Fits, PutOffer, Say, Move, Sweep, Close

LEMMA ArrivalFits ==
  ASSUME NoReopening, HireInv, NEW r \in Req, Arrival(r), req'[r].pc = "tx"
  PROVE  /\ ListFits(r)'
         /\ req'[r].handler = "accept" => \E i \in DOMAIN req'[r].todo : req'[r].todo[i].op = "sweep"
  <1>0. TypeOK /\ OfferedRows
    BY HireFacts
  <1>1. ASSUME NEW h, NEW a \in Apps, NEW pc, NEW todo, Arrive(r, h, a, pc, todo)
        PROVE  req'[r].handler = h /\ req'[r].todo = todo /\ req'[r].pc = pc
    <2>1. req'[r] = Taken(h, a, pc, todo)
      BY <1>0, <1>1, ArriveFacts
    <2> QED BY <2>1 DEF Taken
  <1> PICK a \in Apps :
        \/ SubmitApplication(r, a)
        \/ \E to \in PatchTargets : UpdateStatus(r, a, to)
        \/ \E to \in BoardTargets : BoardMove(r, a, to)
        \/ \E t \in Terms, note \in BOOLEAN : ExtendOffer(r, a, t, note)
        \/ \E t \in Terms : UpdateOffer(r, a, t)
        \/ WithdrawOffer(r, a)
        \/ PostEmployerMessage(r, a)
        \/ GetOfferForEmployer(r, a)
        \/ GetMyOffer(r, a)
        \/ Accept(r, a)
        \/ Decline(r, a)
        \/ PostCandidateMessage(r, a)
    BY DEF Arrival
  <1>2. ASSUME NEW h, NEW todo, h # "accept", Arrive(r, h, a, "tx", todo),
               \A i \in DOMAIN todo : Fits(todo[i], h)
        PROVE  ListFits(r)' /\ req'[r].handler # "accept"
    BY <1>1, <1>2 DEF ListFits, Fits
  <1>3. offer[a].status # None => a \in Opened
    BY <1>0 DEF OfferedRows
  <1>4. assertActionable(a) => a \in Opened
    BY <1>3, StatusSets DEF assertActionable
  <1>5. CASE SubmitApplication(r, a)
    BY <1>0, <1>5 DEF SubmitApplication, Taken, TypeOK
  <1>6. CASE \E to \in PatchTargets : UpdateStatus(r, a, to)
    <2> PICK to \in PatchTargets : UpdateStatus(r, a, to)
      BY <1>6
    <2>1. Arrive(r, "updateStatus", a, "tx", <<Move(a, to, "CANDIDATE")>>)
      BY DEF UpdateStatus
    <2>2. "updateStatus" # "accept" /\ Fits(Move(a, to, "CANDIDATE"), "updateStatus")
      BY StatementsFit
    <2> QED BY <1>2, <2>1, <2>2
  <1>7. CASE \E to \in BoardTargets : BoardMove(r, a, to)
    <2> PICK to \in BoardTargets : BoardMove(r, a, to)
      BY <1>7
    <2>1. Arrive(r, "boardMove", a, "tx", <<Move(a, to, "EMPLOYER")>>)
      BY DEF BoardMove
    <2>2. "boardMove" # "accept" /\ Fits(Move(a, to, "EMPLOYER"), "boardMove")
      BY StatementsFit DEF NoReopening
    <2> QED BY <1>2, <2>1, <2>2
  <1>8. CASE \E t \in Terms : UpdateOffer(r, a, t)
    <2> PICK t \in Terms : UpdateOffer(r, a, t)
      BY <1>8
    <2>1. Arrive(r, "updateOffer", a, "tx", <<PutOffer(a, None, t)>>) /\ a \in Opened
      BY <1>3, StatusSets DEF UpdateOffer
    <2>2. "updateOffer" # "accept" /\ Fits(PutOffer(a, None, t), "updateOffer")
      BY <2>1, StatementsFit DEF None
    <2> QED BY <1>2, <2>1, <2>2
  <1>9. CASE PostEmployerMessage(r, a)
    <2>1. Arrive(r, "postEmployerMessage", a, "tx", <<Say(a, "EMPLOYER")>>)
      BY <1>9 DEF PostEmployerMessage
    <2>2. "postEmployerMessage" # "accept" /\ Fits(Say(a, "EMPLOYER"), "postEmployerMessage")
      BY StatementsFit
    <2> QED BY <1>2, <2>1, <2>2
  <1>10. CASE GetOfferForEmployer(r, a)
    <2>1. Arrive(r, "getOfferForEmployer", a, "mark", <<>>)
      BY <1>10 DEF GetOfferForEmployer
    <2> QED BY <1>1, <2>1
  <1>11. CASE GetMyOffer(r, a)
    <2>1. Arrive(r, "getMyOffer", a, "load", <<>>)
      BY <1>11 DEF GetMyOffer
    <2> QED BY <1>1, <2>1
  <1>12. CASE WithdrawOffer(r, a)
    <2>1. /\ Arrive(r, "withdrawOffer", a, "tx",
                    <<PutOffer(a, "WITHDRAWN", NoTerms), Move(a, "REJECTED", "EMPLOYER")>>)
          /\ a \in Opened
      BY <1>3, <1>12 DEF WithdrawOffer
    <2>2. /\ "withdrawOffer" # "accept"
          /\ Fits(PutOffer(a, "WITHDRAWN", NoTerms), "withdrawOffer")
          /\ Fits(Move(a, "REJECTED", "EMPLOYER"), "withdrawOffer")
      BY <2>1, StatementsFit
    <2> QED BY <1>2, <2>1, <2>2
  <1>13. CASE Decline(r, a)
    <2>1. /\ Arrive(r, "decline", a, "tx",
                    <<PutOffer(a, "DECLINED", NoTerms), Move(a, "WITHDRAWN", "CANDIDATE")>>)
          /\ a \in Opened
      BY <1>4, <1>13 DEF Decline
    <2>2. /\ "decline" # "accept"
          /\ Fits(PutOffer(a, "DECLINED", NoTerms), "decline")
          /\ Fits(Move(a, "WITHDRAWN", "CANDIDATE"), "decline")
      BY <2>1, StatementsFit
    <2> QED BY <1>2, <2>1, <2>2
  <1>14. CASE Accept(r, a)
    <2> DEFINE T == <<PutOffer(a, "ACCEPTED", NoTerms), Move(a, "ACCEPTED", "CANDIDATE"), Sweep(a)>>
    <2>1. Arrive(r, "accept", a, "tx", T) /\ a \in Opened
      BY <1>4, <1>14 DEF Accept
    <2>2. /\ Fits(PutOffer(a, "ACCEPTED", NoTerms), "accept")
          /\ Fits(Move(a, "ACCEPTED", "CANDIDATE"), "accept")
          /\ Fits(Sweep(a), "accept")
      BY <2>1, StatementsFit
    <2>3. \A i \in DOMAIN T : Fits(T[i], "accept")
      BY <2>2
    <2>4. 3 \in DOMAIN T /\ T[3].op = "sweep"
      BY DEF Sweep
    <2> HIDE DEF T
    <2>5. req'[r].handler = "accept" /\ req'[r].todo = T
      BY <1>1, <2>1
    <2> QED BY <2>3, <2>4, <2>5 DEF ListFits, Fits
  <1>15. CASE PostCandidateMessage(r, a)
    <2> DEFINE say  == Say(a, "CANDIDATE")
               put  == PutOffer(a, "NEGOTIATING", NoTerms)
               move == Move(a, "NEGOTIATING", "CANDIDATE")
               T    == <<say>> \o IF offer[a].status = "NEGOTIATING" THEN <<>> ELSE <<put, move>>
    <2>1. Arrive(r, "postCandidateMessage", a, "tx", T) /\ a \in Opened
      BY <1>4, <1>15 DEF PostCandidateMessage
    <2>2. Fits(say, "postCandidateMessage") /\ Fits(put, "postCandidateMessage") /\ Fits(move, "postCandidateMessage")
      BY <2>1, StatementsFit
    <2>3. say \in Stmt /\ put \in Stmt /\ move \in Stmt
      BY StatementTypes DEF Author, OfferStatus, Status, Actor
    <2> HIDE DEF say, put, move
    <2>4. T = <<say>> \/ T = <<say, put, move>>
      BY <2>3, Joined
    <2> HIDE DEF T
    <2>5. \A i \in DOMAIN T : T[i] \in {say, put, move}
      BY <2>4
    <2> QED BY <1>2, <2>1, <2>2, <2>5
  <1>16. CASE \E t \in Terms, note \in BOOLEAN : ExtendOffer(r, a, t, note)
    BY <1>16 DEF ExtendOffer, Arrive, NoReopening
  <1> QED BY <1>5, <1>6, <1>7, <1>8, <1>9, <1>10, <1>11, <1>12, <1>13, <1>14, <1>15, <1>16

LEMMA ListFitsNext ==
  ASSUME NoReopening, HireInv, NEW r \in Req, Step(r), Open(r)'
  PROVE  ListFits(r)'
  <1>0. TypeOK /\ TxInv /\ OfferedRows /\ req[r] \in Request
    BY HireFacts DEF TypeOK
  <1>1. CASE Outside(r)
    <2>1. req'[r].pc = "tx" /\ Arrival(r)
      BY <1>1 DEF Outside, Open
    <2> QED BY <2>1, ArrivalFits
  <1>2. CASE RecordScreening(r)
    <2> DEFINE a    == req[r].app
               next == [req[r] EXCEPT !.pc = "tx", !.todo = <<Move(a, "SCREENING", "SYSTEM")>>]
    <2>1. req'[r] = Idle \/ req'[r] = next
      BY <1>0, <1>2 DEF RecordScreening, TypeOK
    <2>2. next.todo = <<Move(a, "SCREENING", "SYSTEM")>> /\ Idle.pc = "idle"
      BY <1>0 DEF Request, Idle
    <2> HIDE DEF next
    <2>3. req'[r].todo = <<Move(a, "SCREENING", "SYSTEM")>>
      BY <2>1, <2>2 DEF Open
    <2>4. a \notin Opened
      BY <1>0, <1>2 DEF OfferedRows, Applying, RecordScreening
    <2>5. Fits(Move(a, "SCREENING", "SYSTEM"), req'[r].handler)
      BY <2>4, StatementsFit
    <2> QED BY <2>3, <2>5 DEF ListFits, Fits
  <1>3. CASE WriteOffer(r) \/ WriteMessage(r) \/ CompareAndSwap(r)
    <2>1. Open(r) /\ req[r].todo # <<>>
      BY <1>0, <1>3, SwapOwn DEF WriteOffer, WriteMessage, CompareAndSwap, Running, Open
    <2>2. ListFits(r)
      BY <2>1 DEF HireInv
    <2>3. req'[r].todo = Tail(req[r].todo) /\ req'[r].handler = req[r].handler
      BY <1>0, <1>3, OwnAfter DEF Advanced, Request
    <2> DEFINE T == req[r].todo
    <2>4. \A i \in DOMAIN Tail(T) : Tail(T)[i] = T[i + 1] /\ i + 1 \in DOMAIN T
      BY <1>0, <2>1, Rest
    <2> QED BY <2>2, <2>3, <2>4 DEF ListFits, Fits
  <1>4. CASE Checked(r)
    <2>1. Open(r) /\ req'[r].todo = req[r].todo /\ req'[r].handler = req[r].handler
      BY <1>0, <1>4 DEF Checked, Open, TypeOK, Request
    <2>2. ListFits(r)
      BY <2>1 DEF HireInv
    <2> QED BY <2>1, <2>2 DEF ListFits, Fits
  <1>5. CASE FindOthers(r)
    <2> DEFINE a     == req[r].app
               found == OthersToClose(r, a)
    <2>1. req'[r].todo = <<>> \/ req'[r].todo = <<Close(a, found)>>
      BY <1>0, <1>5, FoundList
    <2>2. found \subseteq Opened
      <3> SUFFICES ASSUME NEW b \in found PROVE b \in Opened
        OBVIOUS
      <3>1. b \in Apps /\ OfferSeenBy(r, b).status # None
        BY StatusSets DEF OthersToClose
      <3> QED BY <1>0, <3>1 DEF OfferSeenBy, OfferedRows
    <2> HIDE DEF found
    <2>3. Fits(Close(a, found), req'[r].handler)
      BY <2>2, StatementsFit
    <2> QED BY <2>1, <2>3 DEF ListFits, Fits
  <1>6. CASE CloseAnother(r)
    <2> DEFINE a    == req[r].app
               rest == req[r].todo[1].rest
               U    == req'[r].todo
               h    == req'[r].handler
    <2>1. /\ Open(r) /\ req[r].todo[1].op = "close" /\ DOMAIN req[r].todo = {1}
          /\ \E b \in rest :
                  \/ U = <<PutOffer(b, "WITHDRAWN", NoTerms), Move(b, "WITHDRAWN", "CANDIDATE")>>
                  \/ U = <<PutOffer(b, "WITHDRAWN", NoTerms), Move(b, "WITHDRAWN", "CANDIDATE"),
                           Close(a, rest \ {b})>>
      BY <1>0, <1>6, ClosingList
    <2>2. rest \subseteq Opened
      BY <2>1 DEF HireInv, ListFits, Fits
    <2> PICK b \in rest :
                  \/ U = <<PutOffer(b, "WITHDRAWN", NoTerms), Move(b, "WITHDRAWN", "CANDIDATE")>>
                  \/ U = <<PutOffer(b, "WITHDRAWN", NoTerms), Move(b, "WITHDRAWN", "CANDIDATE"),
                           Close(a, rest \ {b})>>
      BY <2>1
    <2> DEFINE put  == PutOffer(b, "WITHDRAWN", NoTerms)
               move == Move(b, "WITHDRAWN", "CANDIDATE")
               more == Close(a, rest \ {b})
    <2>3. Fits(put, h) /\ Fits(move, h) /\ Fits(more, h)
      BY <2>2, StatementsFit
    <2> HIDE DEF rest, put, move, more, h, U
    <2>4. \A i \in DOMAIN U : U[i] \in {put, move, more}
      BY DEF put, move, more
    <2>5. \A i \in DOMAIN U : Fits(U[i], h)
      BY <2>3, <2>4
    <2> QED BY <2>5 DEF ListFits, Fits, U, h
  <1>7. CASE GiveUp(r)
    BY <1>0, <1>7, OwnAfter DEF Open, Idle
  <1>8. CASE InsertApplication(r)
    BY <1>0, <1>8 DEF InsertApplication, GoTo, Idle, Open, TypeOK, Request
  <1>9. CASE Commit(r)
    <2>1. AfterCommit(r).pc \notin {"tx", "cas"}
      BY <1>0 DEF AfterCommit, Idle, Request
    <2> QED BY <1>0, <1>9, <2>1, OwnAfter DEF Open
  <1> QED BY <1>1, <1>2, <1>3, <1>4, <1>5, <1>6, <1>7, <1>8, <1>9 DEF Step

-----------------------------------------------------------------------------
(* The rows of applications that were past the offer. *)

\* Which of its rows a request's step writes.
LEMMA OwnRowsWritten ==
  ASSUME HireInv, NEW r \in Req, Step(r), NEW b \in Apps
  PROVE  /\ wapp'[r][b] = wapp[r][b] \/ wapp'[r][b] = NoApp \/ (CompareAndSwap(r) /\ b = Head(req[r].todo).app)
         /\ \/ woffer'[r][b] = woffer[r][b] \/ woffer'[r][b] = NoOffer
            \/ WriteOffer(r) /\ b = Head(req[r].todo).app /\ offer' = offer
  <1>0. TypeOK /\ TxInv /\ wapp \in [Req -> [Apps -> AppRow]] /\ woffer \in [Req -> [Apps -> OfferRow]]
    BY HireFacts DEF TypeOK
  <1>1. CASE Outside(r) \/ InsertApplication(r) \/ RecordScreening(r) \/ WriteMessage(r) \/ Checked(r)
             \/ FindOthers(r) \/ CloseAnother(r)
    BY <1>1 DEF Outside, InsertApplication, RecordScreening, WriteMessage, Checked, FindOthers, CloseAnother,
                writeSets
  <1>2. CASE GiveUp(r) \/ Commit(r)
    BY <1>0, <1>2, OwnAfter
  <1>3. CASE CompareAndSwap(r)
    BY <1>0, <1>3, SwapOwn
  <1>4. CASE WriteOffer(r)
    BY <1>0, <1>4 DEF WriteOffer, tables
  <1> QED BY <1>1, <1>2, <1>3, <1>4 DEF Step

\* The statement at the head of an open request's list fits.
LEMMA HeadFits ==
  ASSUME HireInv, NEW r \in Req, Open(r), req[r].todo # <<>>
  PROVE  Fits(Head(req[r].todo), req[r].handler) /\ Head(req[r].todo) \in Stmt
  <1>1. TypeOK /\ ListFits(r)
    BY HireFacts DEF HireInv
  <1>2. Head(req[r].todo) = req[r].todo[1] /\ 1 \in DOMAIN req[r].todo /\ Head(req[r].todo) \in Stmt
    BY <1>1, Rest
  <1> QED BY <1>1, <1>2 DEF ListFits

\* A row that is written was not over, and stays past the offer.
LEMMA LateSwap ==
  ASSUME HireInv, NEW r \in Req, CompareAndSwap(r), NEW b \in Opened, b = Head(req[r].todo).app
  PROVE  wapp'[r][b].status \in Late /\ app[b].status \notin Ended
  <1>0. TxInv /\ OfferedRows /\ b \in Apps
    BY HireFacts
  <1> DEFINE s   == Head(req[r].todo)
             row == AppSeenBy(r, b)
  <1>1. Open(r) /\ req[r].todo # <<>> /\ s.op = "move" /\ OneMove(row, wapp'[r][b], s.status, s.by)
    BY <1>0, SwapOwn DEF IsMove, Open, CompareAndSwap
  <1>2. ~(s.status = "SCREENING" /\ s.by # "CANDIDATE")
    BY <1>1, HeadFits DEF Fits
  <1>3. row.status \in Late
    BY <1>0 DEF AppSeenBy, OfferedRows
  <1> HIDE DEF row, s
  <1>4. wapp'[r][b].status \in Late /\ row.status \notin Ended
    BY <1>1, <1>2, <1>3, LateMoves DEF OneMove
  <1>5. app[b].status \in Ended => row.status = app[b].status
    BY <1>0 DEF AppSeenBy, OfferedRows, row
  <1> QED BY <1>4, <1>5

LEMMA OfferedRowsNext ==
  ASSUME NoReopening, HireInv, NEW r \in Req, Arrival(r) \/ Serve(r) \/ Die(r), Step(r)
  PROVE  OfferedRows'
  <1>0. TypeOK /\ TxInv /\ FinalInv /\ OfferedRows /\ Opened \subseteq Apps /\ app \in [Apps -> AppRow]
        /\ \A a \in Opened : app[a].status # None
    BY HireFacts
  <1>1. \A q \in Req \ {r} : req'[q] = req[q] /\ wapp'[q] = wapp[q] /\ woffer'[q] = woffer[q]
    BY <1>0, OthersKeepTheirs
  <1>2. \A a \in Apps : offer'[a].status # None <=> a \in Opened
    BY OffersPersist
  <1>3. \A q \in Req, a \in Apps : woffer'[q][a] # NoOffer => a \in Opened /\ woffer'[q][a].status # None
    <2> SUFFICES ASSUME NEW a \in Apps, woffer'[r][a] # NoOffer, woffer'[r][a] # woffer[r][a]
                 PROVE  a \in Opened /\ woffer'[r][a].status # None
      BY <1>0, <1>1 DEF OfferedRows
    <2>1. WriteOffer(r) /\ a = Head(req[r].todo).app
      BY OwnRowsWritten
    <2>2. Open(r) /\ req[r].todo # <<>> /\ Head(req[r].todo).op = "offer"
      BY <2>1 DEF WriteOffer, Running, Open
    <2>3. a \in Opened
      BY <2>1, <2>2, HeadFits DEF Fits
    <2>4. OfferSeenBy(r, a).status # None
      BY <1>0, <2>3 DEF OfferSeenBy, OfferedRows
    <2>5. woffer'[r][a].status \in {OfferSeenBy(r, a).status} \cup {Head(req[r].todo).status}
          /\ (Head(req[r].todo).status = None => woffer'[r][a].status = OfferSeenBy(r, a).status)
      BY <1>0, <2>1 DEF WriteOffer, TypeOK
    <2> QED BY <2>3, <2>4, <2>5
  <1>4. \A a \in Opened : app'[a].status \in Late
    <2> SUFFICES ASSUME NEW a \in Opened, app'[a].status # app[a].status PROVE app'[a].status \in Late
      BY <1>0 DEF OfferedRows
    <2>1. Commit(r)
      <3>1. ~InsertApplication(r)
        BY <1>0 DEF InsertApplication
      <3>2. ~RecordScreening(r)
        BY <1>0 DEF RecordScreening, AppRow
      <3>3. ~(\/ Outside(r) \/ GiveUp(r) \/ WriteOffer(r) \/ WriteMessage(r) \/ Checked(r)
              \/ CompareAndSwap(r) \/ FindOthers(r) \/ CloseAnother(r))
        BY DEF Outside, GiveUp, WriteOffer, WriteMessage, Checked, CompareAndSwap, FindOthers,
               CloseAnother, tables
      <3> QED BY <3>1, <3>2, <3>3 DEF Step
    <2> QED BY <1>0, <2>1 DEF Commit, AppSeenBy, OfferedRows
  <1>5. \A q \in Req, a \in Opened : wapp'[q][a] = NoApp \/ wapp'[q][a].status \in Late
    BY <1>0, <1>1, OwnRowsWritten, LateSwap DEF OfferedRows
  <1>6. \A q \in Req, a \in Opened : app'[a].status \in Ended => wapp'[q][a] = NoApp
    <2> SUFFICES ASSUME NEW q \in Req, NEW a \in Opened, app'[a].status \in Ended PROVE wapp'[q][a] = NoApp
      OBVIOUS
    <2>1. CASE Commit(r)
      <3>1. wapp'[r][a] = NoApp
        BY <1>0, <2>1, OwnAfter
      <3>2. CASE wapp[r][a] = NoApp
        BY <1>0, <1>1, <2>1, <3>1, <3>2 DEF Commit, AppSeenBy, OfferedRows
      <3>3. CASE wapp[r][a] # NoApp
        BY <1>0, <1>1, <3>1, <3>3 DEF FinalInv
      <3> QED BY <3>2, <3>3
    <2>2. CASE ~Commit(r)
      <3>1. app[a].status \in Ended
        <4>1. CASE InsertApplication(r)
          BY <1>0, <4>1 DEF InsertApplication
        <4>2. CASE RecordScreening(r)
          BY <1>0, <4>2 DEF RecordScreening, AppRow
        <4>3. CASE \/ Outside(r) \/ GiveUp(r) \/ WriteOffer(r) \/ WriteMessage(r) \/ Checked(r)
                   \/ CompareAndSwap(r) \/ FindOthers(r) \/ CloseAnother(r)
          BY <4>3 DEF Outside, GiveUp, WriteOffer, WriteMessage, Checked, CompareAndSwap, FindOthers,
                      CloseAnother, tables
        <4> QED BY <2>2, <4>1, <4>2, <4>3 DEF Step
      <3>2. wapp[q][a] = NoApp
        BY <1>0, <3>1 DEF OfferedRows
      <3> QED BY <1>0, <1>1, <3>1, <3>2, OwnRowsWritten, LateSwap
    <2> QED BY <2>1, <2>2
  <1>7. \A a \in Apps : offer'[a].status \in Decided => app'[a].status \in Ended
    <2> SUFFICES ASSUME NEW a \in Apps, offer'[a].status \in Decided PROVE app'[a].status \in Ended
      OBVIOUS
    <2>1. a \in Opened
      BY <1>2, StatusSets
    <2>2. CASE offer'[a].status = offer[a].status
      BY <1>0, <2>1, <2>2, EndedStays DEF OfferedRows
    <2>3. CASE offer'[a].status # offer[a].status
      <3>1. Commit(r) /\ offer'[a].status \in Decisive
        BY <2>3, OffersChangeOnCommit, StatusSets
      <3>2. PICK to \in Status, actor \in Actor :
              <<to, actor>> \in RecordedAs(offer'[a].status) /\ OneMove(app[a], app'[a], to, actor)
        BY <1>0, <2>3, <3>1, DecisionCommits
      <3>3. to \in Ended
        BY <3>2 DEF RecordedAs, Decided, Ended
      <3> QED BY <3>2, <3>3 DEF OneMove
    <2> QED BY <2>2, <2>3
  <1>8. \A q \in Req : req'[q].pc \in Applying => req'[q].app \notin Opened
    BY <1>0, <1>1, ApplyingFrom DEF OfferedRows
  <1> QED BY <1>2, <1>3, <1>4, <1>5, <1>6, <1>7, <1>8 DEF OfferedRows

-----------------------------------------------------------------------------
(* Who has accepted, and what a hire sweeps. *)

LEMMA AcceptedByNext ==
  ASSUME HireInv, NEW r \in Req, Step(r), Open(r)'
  PROVE  AcceptedBy(r)'
  <1>0. TypeOK /\ TxInv /\ RowsInv /\ req[r] \in Request
    BY HireFacts DEF TypeOK
  <1> SUFFICES ASSUME NEW b \in Apps, woffer'[r][b].status = "ACCEPTED", offer'[b].status # "ACCEPTED"
               PROVE  req'[r].handler = "accept"
    BY DEF AcceptedBy
  <1>1. woffer'[r][b] # NoOffer
    BY DEF NoOffer, None
  <1>2. offer' = offer
    <2>1. ~Commit(r)
      BY <1>0, <1>1, OwnAfter
    <2> QED BY <2>1, OffersChangeOnCommit
  <1>3. Open(r) /\ req'[r].handler = req[r].handler
    <2>1. CASE Outside(r) \/ RecordScreening(r) \/ InsertApplication(r)
      <3>1. ~Open(r) /\ woffer' = woffer
        BY <2>1 DEF Outside, RecordScreening, InsertApplication, Open, writeSets
      <3> QED BY <1>0, <1>1, <3>1 DEF RowsInv
    <2>2. CASE GiveUp(r) \/ Commit(r)
      BY <1>0, <1>1, <2>2, OwnAfter
    <2>3. CASE WriteOffer(r) \/ WriteMessage(r) \/ CompareAndSwap(r)
      <3>1. Open(r)
        BY <2>3 DEF WriteOffer, WriteMessage, CompareAndSwap, Running, Open
      <3>2. req'[r] = Advanced(r)
        BY <1>0, <2>3, OwnAfter
      <3> QED BY <1>0, <3>1, <3>2 DEF Advanced, Request
    <2>4. CASE Checked(r)
      BY <1>0, <2>4 DEF Checked, Open, TypeOK, Request
    <2>5. CASE FindOthers(r) \/ CloseAnother(r)
      BY <1>0, <2>5, FoundList, ClosingList
    <2> QED BY <2>1, <2>2, <2>3, <2>4, <2>5 DEF Step
  <1>4. AcceptedBy(r)
    BY <1>3 DEF HireInv
  <1>5. CASE woffer'[r][b] = woffer[r][b]
    BY <1>2, <1>3, <1>4, <1>5 DEF AcceptedBy
  <1>6. CASE WriteOffer(r) /\ b = Head(req[r].todo).app
    <2> DEFINE s == Head(req[r].todo)
    <2>1. woffer'[r][b].status = IF s.status = None THEN OfferSeenBy(r, b).status ELSE s.status
      BY <1>0, <1>6 DEF WriteOffer, TypeOK
    <2>2. CASE s.status = "ACCEPTED"
      <3>1. req[r].todo # <<>> /\ s.op = "offer"
        BY <1>6 DEF WriteOffer, Running
      <3> QED BY <1>3, <2>2, <3>1, HeadFits DEF Fits
    <2>3. CASE s.status # "ACCEPTED"
      <3>1. OfferSeenBy(r, b).status = "ACCEPTED"
        BY <2>1, <2>3
      <3> QED BY <1>2, <1>3, <1>4, <3>1 DEF AcceptedBy, OfferSeenBy
    <2> QED BY <2>2, <2>3
  <1> QED BY <1>1, <1>5, <1>6, OwnRowsWritten

LEMMA SweptAdvance ==
  ASSUME HireInv, NEW r \in Req, Step(r), WriteOffer(r) \/ WriteMessage(r) \/ CompareAndSwap(r)
  PROVE  Swept(r)'
  <1>0. TypeOK /\ TxInv /\ RowsInv /\ req[r] \in Request
    BY HireFacts DEF TypeOK
  <1> DEFINE T == req[r].todo
             U == req'[r].todo
             a == req[r].app
             s == Head(T)
  <1>1. Open(r) /\ T # <<>> /\ s.op \notin {"sweep", "close"}
    BY <1>0, SwapOwn DEF WriteOffer, WriteMessage, CompareAndSwap, Running, Open, IsMove
  <1>2. U = Tail(T) /\ req'[r].handler = req[r].handler /\ req'[r].app = a
    <2>1. req'[r] = Advanced(r)
      BY <1>0, OwnAfter
    <2> QED BY <1>0, <2>1 DEF Advanced, Request
  <1>3. \A b \in Apps : /\ wapp[r][b] # NoApp => wapp'[r][b] # NoApp
                        /\ IsMove(s) /\ b = s.app => wapp'[r][b] # NoApp
    <2>1. CASE WriteOffer(r) \/ WriteMessage(r)
      BY <2>1 DEF WriteOffer, WriteMessage, Running, IsMove
    <2>2. CASE CompareAndSwap(r)
      BY <1>0, <2>2, SwapOwn
    <2> QED BY <2>1, <2>2
  <1>4. /\ DOMAIN T = 1..Len(T) /\ Len(T) \in Nat /\ DOMAIN U = 1..(Len(T) - 1)
        /\ T[1] = s /\ \A i \in DOMAIN U : U[i] = T[i + 1]
    BY <1>0, <1>1, <1>2, Rest
  <1> HIDE DEF T, U
  <1>5. \A i \in DOMAIN T : T[i] = s \/ (i - 1 \in DOMAIN U /\ U[i - 1] = T[i])
    <2> SUFFICES ASSUME NEW i \in DOMAIN T, i # 1
                 PROVE  i - 1 \in DOMAIN U /\ U[i - 1] = T[i]
      BY <1>4
    <2>1. i - 1 \in DOMAIN U /\ (i - 1) + 1 = i
      BY <1>4
    <2> QED BY <1>4, <2>1
  <1> SUFFICES ASSUME req[r].handler = "accept", \A i \in DOMAIN U : U[i].op # "sweep",
                      NEW b \in Apps \ {a}, Candidate[b] = Candidate[a], assertActionable(b)'
               PROVE  \/ wapp'[r][b] # NoApp
                      \/ \E i \in DOMAIN U : U[i].op = "close" /\ b \in U[i].rest
                      \/ \E i \in DOMAIN U : IsMove(U[i]) /\ U[i].app = b
    BY <1>2 DEF Swept, U
  <1>6. \A i \in DOMAIN T : T[i].op # "sweep"
    BY <1>1, <1>5
  <1>7. assertActionable(b)
    BY StillActionable
  <1>8. Swept(r)
    BY <1>1 DEF HireInv
  <1>9. \/ wapp[r][b] # NoApp
        \/ \E i \in DOMAIN T : T[i].op = "close" /\ b \in T[i].rest
        \/ \E i \in DOMAIN T : IsMove(T[i]) /\ T[i].app = b
    BY <1>6, <1>7, <1>8 DEF Swept, T
  <1> QED BY <1>1, <1>3, <1>5, <1>9

\* What r's transaction sees of an offer it has not closed can still be answered if others see so.
LEMMA StillSeen ==
  ASSUME HireInv, NEW r \in Req, Open(r), req[r].todo # <<>>, ~IsMove(Head(req[r].todo)),
         NEW b \in Apps, wapp[r][b] = NoApp, assertActionable(b)
  PROVE  OfferSeenBy(r, b).status \in DECIDABLE /\ AppSeenBy(r, b).status \in WITHDRAWABLE_FROM
  <1>0. OfferedRows /\ OfferOK(r) /\ woffer[r][b] \in OfferRow
    BY HireFacts DEF HireInv, AnswersInv, TxInv, TypeOK
  <1>1. AppSeenBy(r, b).status \in WITHDRAWABLE_FROM
    BY StatusSets DEF AppSeenBy, assertActionable
  <1>2. woffer[r][b].status \notin Decisive \/ woffer[r][b].status = offer[b].status
    BY <1>0, RecordedAlready
  <1>3. woffer[r][b] # NoOffer => woffer[r][b].status \in DECIDABLE
    <2>1. woffer[r][b] # NoOffer => woffer[r][b].status \in OfferStatus
      BY <1>0 DEF OfferedRows, OfferRow
    <2> QED BY <1>2, <2>1 DEF assertActionable, Decisive, DECIDABLE
  <1> QED BY <1>1, <1>3 DEF OfferSeenBy, assertActionable

LEMMA SweptNext ==
  ASSUME NoReopening, HireInv, NEW r \in Req, Step(r), Open(r)'
  PROVE  Swept(r)'
  <1>0. TypeOK /\ TxInv /\ RowsInv /\ req[r] \in Request
    BY HireFacts DEF TypeOK
  <1>1. CASE Outside(r)
    <2>1. Arrival(r) /\ req'[r].pc = "tx"
      BY <1>1 DEF Outside, Open
    <2> QED BY <2>1, ArrivalFits DEF Swept
  <1>2. CASE RecordScreening(r)
    <2>1. req[r].handler = "screen"
      BY <1>0, <1>2 DEF RecordScreening, RowsInv
    <2> DEFINE next == [req[r] EXCEPT !.pc = "tx", !.todo = <<Move(req[r].app, "SCREENING", "SYSTEM")>>]
    <2>2. req'[r] = Idle \/ req'[r] = next
      BY <1>0, <1>2 DEF RecordScreening, TypeOK
    <2>3. next.handler = "screen" /\ Idle.handler # "accept"
      BY <1>0, <2>1 DEF Request, Idle, None
    <2> HIDE DEF next
    <2> QED BY <2>2, <2>3 DEF Swept
  <1>3. CASE WriteOffer(r) \/ WriteMessage(r) \/ CompareAndSwap(r)
    BY <1>3, SweptAdvance
  <1>4. CASE Checked(r)
    <2>1. /\ req'[r].todo = req[r].todo /\ req'[r].handler = req[r].handler /\ req'[r].app = req[r].app
          /\ wapp' = wapp /\ Open(r)
      BY <1>0, <1>4 DEF Checked, Open, TypeOK, Request, writeSets
    <2>2. Swept(r)
      BY <2>1 DEF HireInv
    <2>3. \A b \in Apps : assertActionable(b)' => assertActionable(b)
      BY StillActionable
    <2> QED BY <2>1, <2>2, <2>3 DEF Swept
  <1>5. CASE FindOthers(r)
    <2> DEFINE a     == req[r].app
               found == OthersToClose(r, a)
               U     == req'[r].todo
    <2>1. /\ Open(r) /\ req[r].todo # <<>> /\ ~IsMove(Head(req[r].todo))
          /\ \A b \in Apps \ {a} : wapp[r][b] = NoApp
          /\ req'[r].app = a
          /\ (found = {} /\ U = <<>>) \/ (found # {} /\ U = <<Close(a, found)>>)
      BY <1>0, <1>5, FoundList
    <2>2. \A b \in Apps \ {a} : Candidate[b] = Candidate[a] /\ assertActionable(b)' => b \in found
      <3> SUFFICES ASSUME NEW b \in Apps \ {a}, Candidate[b] = Candidate[a], assertActionable(b)'
                   PROVE  b \in found
        OBVIOUS
      <3>1. assertActionable(b)
        BY StillActionable
      <3>2. OfferSeenBy(r, b).status \in DECIDABLE /\ AppSeenBy(r, b).status \in WITHDRAWABLE_FROM
        BY <2>1, <3>1, StillSeen
      <3> QED BY <3>2 DEF OthersToClose
    <2>3. Close(a, found).op = "close" /\ Close(a, found).rest = found
      BY StatementFields
    <2> HIDE DEF found, U
    <2>4. found # {} => 1 \in DOMAIN U /\ U[1] = Close(a, found)
      BY <2>1
    <2> QED BY <2>1, <2>2, <2>3, <2>4 DEF Swept, U
  <1>6. CASE CloseAnother(r)
    <2> DEFINE T    == req[r].todo
               a    == req[r].app
               rest == T[1].rest
               U    == req'[r].todo
    <2>1. /\ req[r].handler = "accept" /\ Open(r) /\ T[1].op = "close" /\ DOMAIN T = {1}
          /\ req'[r].app = a /\ UNCHANGED <<tables, writeSets>>
          /\ \E b \in rest :
                  \/ /\ rest = {b}
                     /\ U = <<PutOffer(b, "WITHDRAWN", NoTerms), Move(b, "WITHDRAWN", "CANDIDATE")>>
                  \/ U = <<PutOffer(b, "WITHDRAWN", NoTerms), Move(b, "WITHDRAWN", "CANDIDATE"),
                           Close(a, rest \ {b})>>
      BY <1>0, <1>6, ClosingList
    <2> PICK b \in rest :
                  \/ /\ rest = {b}
                     /\ U = <<PutOffer(b, "WITHDRAWN", NoTerms), Move(b, "WITHDRAWN", "CANDIDATE")>>
                  \/ U = <<PutOffer(b, "WITHDRAWN", NoTerms), Move(b, "WITHDRAWN", "CANDIDATE"),
                           Close(a, rest \ {b})>>
      BY <2>1
    <2> DEFINE move == Move(b, "WITHDRAWN", "CANDIDATE")
               more == Close(a, rest \ {b})
    <2>2. move.op = "move" /\ move.app = b /\ more.op = "close" /\ more.rest = rest \ {b}
      BY StatementFields
    <2>3. 2 \in DOMAIN U /\ U[2] = move /\ (rest = {b} \/ (3 \in DOMAIN U /\ U[3] = more))
      <3> DEFINE put == PutOffer(b, "WITHDRAWN", NoTerms)
      <3>1. CASE rest = {b} /\ U = <<put, move>>
        <4> HIDE DEF put, move, more, rest, T, a
        <4> QED BY <3>1
      <3>2. CASE U = <<put, move, more>>
        <4> HIDE DEF put, move, more, rest, T, a
        <4> QED BY <3>2
      <3> QED BY <3>1, <3>2
    <2>4. Swept(r) /\ \A c \in Apps : assertActionable(c)' => assertActionable(c)
      BY <2>1, StillActionable DEF HireInv
    <2>5. \A c \in Apps \ {a} : Candidate[c] = Candidate[a] /\ assertActionable(c)' =>
            wapp[r][c] # NoApp \/ c \in rest
      BY <2>1, <2>4 DEF Swept, IsMove
    <2>6. wapp' = wapp
      BY <2>1 DEF writeSets
    <2> HIDE DEF move, more, rest, T, a, U
    <2>7. \A c \in rest : \/ \E i \in DOMAIN U : U[i].op = "close" /\ c \in U[i].rest
                          \/ \E i \in DOMAIN U : IsMove(U[i]) /\ U[i].app = c
      BY <2>2, <2>3 DEF IsMove
    <2> QED BY <2>1, <2>5, <2>6, <2>7 DEF Swept, U, a
  <1>7. CASE GiveUp(r)
    BY <1>0, <1>7, OwnAfter DEF Open, Idle
  <1>8. CASE InsertApplication(r)
    BY <1>0, <1>8 DEF InsertApplication, GoTo, Idle, Open, TypeOK, Request
  <1>9. CASE Commit(r)
    <2>1. AfterCommit(r).pc \notin {"tx", "cas"}
      BY <1>0 DEF AfterCommit, Idle, Request
    <2> QED BY <1>0, <1>9, <2>1, OwnAfter DEF Open
  <1> QED BY <1>1, <1>2, <1>3, <1>4, <1>5, <1>6, <1>7, <1>8, <1>9 DEF Step

\* Nor does a step of another request disturb them.
LEMMA OthersFit ==
  ASSUME HireInv, NEW r \in Req, Step(r), NEW q \in Req \ {r}, Open(q)
  PROVE  ListFits(q)' /\ AcceptedBy(q)' /\ Swept(q)'
  <1>0. TypeOK /\ TxInv /\ ListFits(q) /\ AcceptedBy(q) /\ Swept(q)
    BY HireFacts DEF HireInv
  <1>1. req'[q] = req[q] /\ wapp'[q] = wapp[q] /\ woffer'[q] = woffer[q]
    BY <1>0, OthersKeepTheirs
  <1>2. ListFits(q)'
    BY <1>0, <1>1 DEF ListFits, Fits
  <1>3. AcceptedBy(q)'
    <2> SUFFICES ASSUME NEW b \in Apps, woffer'[q][b].status = "ACCEPTED", offer'[b].status # "ACCEPTED"
                 PROVE  req'[q].handler = "accept"
      BY DEF AcceptedBy
    <2>1. woffer[q][b] # NoOffer
      BY <1>1 DEF NoOffer, None
    <2>2. offer'[b] = offer[b]
      BY <1>0, <2>1, CommittedStay
    <2> QED BY <1>0, <1>1, <2>2 DEF AcceptedBy
  <1>4. Swept(q)'
    <2>1. \A b \in Apps : assertActionable(b)' => assertActionable(b)
      BY StillActionable
    <2> QED BY <1>0, <1>1, <2>1 DEF Swept
  <1> QED BY <1>2, <1>3, <1>4

-----------------------------------------------------------------------------
(* The hire. *)

\* An offer becomes ACCEPTED for others when the accept of its own application commits, and it
\* could be answered until then.
LEMMA NewlyAccepted ==
  ASSUME HireInv, NEW r \in Req, Step(r), NEW a \in Apps,
         offer'[a].status = "ACCEPTED", offer[a].status # "ACCEPTED"
  PROVE  Commit(r) /\ req[r].handler = "accept" /\ a = req[r].app /\ assertActionable(a)
  <1>0. TxInv /\ TypeOK /\ OfferedRows
    BY HireFacts
  <1>1. Commit(r)
    BY OffersChangeOnCommit
  <1>2. req[r].todo = <<>> /\ Open(r)
    BY <1>1 DEF Commit, Open
  <1>3. AcceptedBy(r) /\ WrittenOK(r) /\ OfferOK(r)
    BY <1>0, <1>2 DEF HireInv, TxInv
  <1>4. offer'[a] = woffer[r][a]
    BY <1>1 DEF Commit, OfferSeenBy
  <1>5. req[r].handler = "accept"
    BY <1>3, <1>4 DEF AcceptedBy
  <1>6. PICK to \in Status, actor \in Actor :
          <<to, actor>> \in RecordedAs("ACCEPTED") /\ OneMove(app[a], wapp[r][a], to, actor)
    <2>1. "ACCEPTED" \in Decisive
      BY DEF Decisive, OfferStatus
    <2> QED BY <1>2, <1>3, <1>4, <2>1 DEF OfferOK
  <1>7. to = "ACCEPTED" /\ actor = "CANDIDATE" /\ wapp[r][a] # NoApp
    BY <1>2, <1>3, <1>4, <1>6 DEF RecordedAs, OfferOK, Decisive, OfferStatus
  <1>8. a = req[r].app
    <2> SUFFICES ASSUME a # req[r].app PROVE FALSE
      OBVIOUS
    <2>1. OneMove(app[a], wapp[r][a], "WITHDRAWN", "CANDIDATE")
      BY <1>3, <1>5, <1>7 DEF WrittenOK
    <2> QED BY <1>6, <1>7, <2>1 DEF OneMove
  <1>9. a \in Opened
    BY OffersPersist DEF None
  <1>10. app[a].status \in Late /\ app[a].status \notin Ended
    <2>1. app[a].status \in Late
      BY <1>0, <1>9 DEF OfferedRows
    <2>2. mayMove("CANDIDATE", app[a].status, "ACCEPTED")
      BY <1>6, <1>7 DEF OneMove
    <2> QED BY <2>1, <2>2, LateMoves
  <1>11. offer[a].status \in DECIDABLE
    <2>1. offer[a].status \in OfferStatus
      BY <1>0, <1>9 DEF OfferedRows, TypeOK, OfferRow
    <2> QED BY <1>0, <1>10, <2>1, StatusSets DEF OfferedRows
  <1> QED BY <1>1, <1>5, <1>8, <1>10, <1>11, StatusSets DEF assertActionable

LEMMA HireStep ==
  ASSUME HireInv, NEW r \in Req, Step(r)
  PROVE  HireClosesTheRest'
  <1>0. TxInv /\ HireClosesTheRest
    BY HireFacts
  <1> SUFFICES ASSUME NEW a \in Apps, NEW b \in Apps, a # b, Candidate[a] = Candidate[b],
                      offer'[a].status = "ACCEPTED"
               PROVE  offer'[b].status # "ACCEPTED" /\ ~(assertActionable(b)')
    BY DEF HireClosesTheRest, assertActionable
  <1>1. CASE offer[a].status = "ACCEPTED"
    <2>1. offer[b].status # "ACCEPTED" /\ ~assertActionable(b)
      BY <1>0, <1>1 DEF HireClosesTheRest
    <2> QED BY <2>1, NewlyAccepted, StillActionable
  <1>2. CASE offer[a].status # "ACCEPTED"
    <2>1. Commit(r) /\ req[r].handler = "accept" /\ a = req[r].app /\ assertActionable(a)
      BY <1>2, NewlyAccepted
    <2>2. offer'[b].status # "ACCEPTED"
      <3>1. CASE offer[b].status = "ACCEPTED"
        BY <1>0, <2>1, <3>1 DEF HireClosesTheRest
      <3>2. CASE offer[b].status # "ACCEPTED"
        BY <2>1, <3>2, NewlyAccepted
      <3> QED BY <3>1, <3>2
    <2>3. ~(assertActionable(b)')
      <3> SUFFICES ASSUME assertActionable(b)' PROVE FALSE
        OBVIOUS
      <3>1. assertActionable(b)
        BY StillActionable
      <3>2. req[r].todo = <<>> /\ Open(r)
        BY <2>1 DEF Commit, Open
      <3>3. Swept(r) /\ WrittenOK(r)
        BY <1>0, <3>2 DEF HireInv, TxInv
      <3>4. wapp[r][b] # NoApp
        BY <2>1, <3>1, <3>2, <3>3 DEF Swept
      <3>5. wapp[r][b].status = "WITHDRAWN"
        BY <2>1, <3>3, <3>4 DEF WrittenOK, OneMove
      <3>6. app'[b] = wapp[r][b]
        BY <2>1, <3>4 DEF Commit, AppSeenBy
      <3> QED BY <3>5, <3>6, StatusSets DEF assertActionable
    <2> QED BY <2>2, <2>3
  <1> QED BY <1>1, <1>2

LEMMA HireNext == NoReopening /\ HireInv /\ [Next]_vars => HireInv'
  <1> SUFFICES ASSUME NoReopening, HireInv, [Next]_vars PROVE HireInv'
    OBVIOUS
  <1>0. AnswersInv' /\ TypeOK
    BY AnswersNext, HireFacts DEF HireInv
  <1>1. CASE UNCHANGED vars
    <2>1. OfferedRows' /\ HireClosesTheRest'
      BY <1>1 DEF HireInv, OfferedRows, HireClosesTheRest, assertActionable, vars, tables, writeSets
    <2>2. \A r \in Req : Open(r)' => ListFits(r)' /\ AcceptedBy(r)' /\ Swept(r)'
      BY <1>1 DEF HireInv, Open, ListFits, AcceptedBy, Swept, assertActionable, vars, tables, writeSets
    <2> QED BY <1>0, <2>1, <2>2 DEF HireInv
  <1>2. CASE Next
    <2> PICK r \in Req : Arrival(r) \/ Serve(r) \/ Die(r)
      BY <1>2 DEF Next
    <2>1. Step(r)
      BY <1>0, Kinds DEF Step
    <2>2. OfferedRows' /\ HireClosesTheRest'
      BY <2>1, OfferedRowsNext, HireStep
    <2>3. Open(r)' => ListFits(r)' /\ AcceptedBy(r)' /\ Swept(r)'
      BY <2>1, ListFitsNext, AcceptedByNext, SweptNext
    <2>4. ASSUME NEW q \in Req \ {r}, Open(q)'
          PROVE  ListFits(q)' /\ AcceptedBy(q)' /\ Swept(q)'
      <3>1. Open(q)
        BY <1>0, <2>1, <2>4, OthersKeepTheirs DEF Open
      <3> QED BY <2>1, <3>1, OthersFit
    <2> QED BY <1>0, <2>2, <2>3, <2>4 DEF HireInv
  <1> QED BY <1>1, <1>2

LEMMA HireInit == Init => HireInv
  <1> SUFFICES ASSUME Init PROVE HireInv
    OBVIOUS
  <1>0. AnswersInv /\ TypeOK /\ Opened \subseteq Apps
    BY AnswersInit, OpenedAssumption DEF AnswersInv, TxInv, FinalInv, TInv
  <1>1. \A a \in Apps : offer[a].status = IF a \in Opened THEN "EXTENDED" ELSE None
    BY DEF Init, NoOffer
  <1>2. \A a \in Opened : app[a].status = "OFFER"
    BY <1>0 DEF Init, AtOffer
  <1>3. \A r \in Req : req[r].pc = "idle" /\ \A a \in Apps : wapp[r][a] = NoApp /\ woffer[r][a] = NoOffer
    BY DEF Init, Idle
  <1>4. OfferedRows
    BY <1>0, <1>1, <1>2, <1>3 DEF OfferedRows, Late, Ended, Decided, Applying, None
  <1>5. HireClosesTheRest
    BY <1>1 DEF HireClosesTheRest, None
  <1> QED BY <1>0, <1>3, <1>4, <1>5 DEF HireInv, Open

\* For any number of offers on the table together and of requests racing over them: a candidate
\* has at most one hire, and once it commits no other of the offers can be answered.
THEOREM OneHire == NoReopening => (Spec => []HireClosesTheRest)
  <1> SUFFICES ASSUME NoReopening PROVE Spec => []HireClosesTheRest
    OBVIOUS
  <1>1. HireInv => HireClosesTheRest
    BY DEF HireInv
  <1>2. HireInv /\ [Next]_vars => HireInv'
    BY HireNext
  <1> QED BY <1>1, <1>2, HireInit, PTL DEF Spec
=============================================================================
