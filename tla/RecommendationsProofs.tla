------------------------- MODULE RecommendationsProofs -------------------------
(***************************************************************************)
(* Proofs about the recommendation cache for any users, postings, requests *)
(* and bounds.                                                             *)
(***************************************************************************)
EXTENDS Recommendations, TLAPS

-----------------------------------------------------------------------------
(* What a request is follows from where it is. *)

LEMMA Kinds ==
  ASSUME TypeOK, NEW r \in Request
  PROVE  /\ req[r] \in AnyRequest
         /\ req[r].pc \in {"retrieve", "reread", "score", "write", "embed", "store", "mark"}
              => req[r].user \in User
         /\ At(r, "score") => /\ req[r].near \in SUBSET Job /\ req[r].vec \in Nat
         /\ At(r, "write") => /\ req[r].near \in SUBSET Job /\ req[r].todo \in SUBSET Job
                              /\ req[r].kept \in SUBSET Job /\ req[r].seen \in [Job -> Nat]
                              /\ req[r].vec \in Nat /\ req[r].prof \in Nat
         /\ req[r].pc \in {"embed", "store", "mark"} <=> req[r] \in Editing
         /\ req[r].pc \in {"embed", "store", "mark"} => req[r].prof \in Nat
         /\ req[r].pc \in {"save", "embedJob", "markJob", "remove"}
              => /\ req[r].job \in Job /\ req[r].ver \in Nat
                 /\ req[r].status \in {"DRAFT", "PUBLISHED", "CLOSED"}
                 /\ req[r].op \in {"publish", "update", "close"}
                 /\ req[r].op = "close" <=> req[r].status = "CLOSED"
  <1>1. req[r] \in AnyRequest
    BY DEF TypeOK
  <1>2. CASE req[r] = Idle
    BY <1>1, <1>2 DEF Idle, At, Editing
  <1>3. CASE req[r] \in Reading
    BY <1>1, <1>3 DEF Reading, At, Editing
  <1>4. CASE req[r] \in Editing
    BY <1>1, <1>4 DEF At, Editing
  <1>5. CASE req[r] \in Posting
    BY <1>1, <1>5 DEF Posting, At, Editing
  <1> QED
    BY <1>1, <1>2, <1>3, <1>4, <1>5 DEF AnyRequest

\* The requests a handler makes are requests.
LEMMA Requests ==
  /\ Idle \in AnyRequest
  /\ \A pc \in {"retrieve", "reread"}, u \in User : [pc |-> pc, user |-> u] \in AnyRequest
  /\ \A pc \in {"embed", "store", "mark"}, u \in User, v \in Nat :
       [pc |-> pc, user |-> u, prof |-> v] \in AnyRequest
  BY DEF AnyRequest, Idle, Reading, Editing

LEMMA GoOn ==
  /\ \A q \in Editing, pc \in {"embed", "store", "mark"} : [q EXCEPT !.pc = pc] \in Editing
  /\ \A q \in Posting, pc \in {"save", "embedJob", "markJob", "remove"} :
       [q EXCEPT !.pc = pc] \in Posting
  BY DEF Editing, Posting

LEMMA PostingAt ==
  ASSUME TypeOK, NEW r \in Request, req[r].pc \in {"save", "embedJob", "markJob", "remove"}
  PROVE  req[r] \in Posting
  BY DEF TypeOK, AnyRequest, Idle, Reading, Editing

LEMMA Rows ==
  /\ Stale \in Fresh \cup {Stale, Tombstone, NoRow}
  /\ Tombstone # NoRow /\ Stale # NoRow /\ Stale # Tombstone
  /\ \A row \in Fresh : row \notin {Stale, Tombstone, NoRow}
  BY DEF Fresh, Stale, Tombstone, NoRow

-----------------------------------------------------------------------------
(* Type correctness. *)

\* r moves on, or a row of rec changes, and the postings stay.
LEMMA OnlyRequestChanges ==
  ASSUME TypeOK, NEW r \in Request, NEW new \in AnyRequest,
         new.pc = "write" => new.todo \cup new.kept \subseteq new.near,
         req' = [req EXCEPT ![r] = new],
         UNCHANGED <<profile, vector, job, rec>>,
         hold' \subseteq User, missed' \subseteq User \cup Job
  PROVE  TypeOK'
  <1>1. req' \in [Request -> AnyRequest]
    BY DEF TypeOK
  <1>2. \A q \in Request : At(q, "write")' => req'[q].todo \cup req'[q].kept \subseteq req'[q].near
    BY DEF TypeOK, At
  <1> QED
    BY <1>1, <1>2 DEF TypeOK

LEMMA BeginRecomputeTypes ==
  ASSUME TypeOK, NEW r \in Request, NEW u \in User, BeginRecompute(r, u)
  PROVE  TypeOK'
  <1> DEFINE new == [pc |-> "retrieve", user |-> u]
  <1>1. new \in AnyRequest /\ new.pc # "write"
    BY Requests
  <1>2. req' = [req EXCEPT ![r] = new]
    BY DEF BeginRecompute, Ask
  <1> HIDE DEF new
  <1> QED
    BY <1>1, <1>2, OnlyRequestChanges DEF BeginRecompute, ground, TypeOK

LEMMA RetrieveTypes ==
  ASSUME TypeOK, NEW r \in Request, Retrieve(r)
  PROVE  TypeOK'
  <1>1. req[r].user \in User
    BY Kinds DEF Retrieve, At
  <1>2. PICK near \in SUBSET Published :
          IF near = {} THEN hold' = hold \cup {req[r].user} /\ Ask(r, "reread", req[r].user)
                       ELSE UNCHANGED hold /\ Ranked(r, near)
    BY DEF Retrieve
  <1>3. UNCHANGED <<profile, vector, job, rec, missed>>
    BY DEF Retrieve, ground
  <1>4. CASE near = {}
    <2> DEFINE new == [pc |-> "reread", user |-> req[r].user]
    <2>1. new \in AnyRequest /\ new.pc # "write"
      BY <1>1, Requests
    <2>2. req' = [req EXCEPT ![r] = new]
      BY <1>2, <1>4 DEF Ask
    <2> HIDE DEF new
    <2> QED
      BY <1>1, <1>2, <1>3, <1>4, <2>1, <2>2, OnlyRequestChanges DEF TypeOK
  <1>5. CASE near # {}
    <2> DEFINE new == [pc |-> "score", user |-> req[r].user, near |-> near,
                       vec |-> vector[req[r].user]]
    <2>1. new \in AnyRequest /\ new.pc # "write"
      BY <1>1 DEF AnyRequest, Reading, TypeOK, Published
    <2>2. req' = [req EXCEPT ![r] = new]
      BY <1>2, <1>5 DEF Ranked
    <2> HIDE DEF new
    <2> QED
      BY <1>2, <1>3, <1>5, <2>1, <2>2, OnlyRequestChanges DEF TypeOK
  <1> QED
    BY <1>4, <1>5

LEMMA ScoreTypes ==
  ASSUME TypeOK, NEW r \in Request, Score(r)
  PROVE  TypeOK'
  <1> DEFINE found == {j \in req[r].near : job[j].status # "GONE"}
             seen == [j \in Job |-> IF j \in found THEN job[j].ver ELSE 0]
             new == [pc |-> "write", user |-> req[r].user, near |-> req[r].near,
                     vec |-> req[r].vec, prof |-> profile[req[r].user],
                     seen |-> seen, todo |-> found, kept |-> {}]
  <1>1. /\ req[r].user \in User /\ req[r].near \in SUBSET Job /\ req[r].vec \in Nat
    BY Kinds DEF Score, At
  <1>2. found \in SUBSET Job /\ found \subseteq req[r].near
    BY <1>1
  <1>3. seen \in [Job -> Nat]
    BY DEF TypeOK
  <1>4. req' = [req EXCEPT ![r] = new]
    BY DEF Score
  <1>5. profile[req[r].user] \in Nat
    BY <1>1 DEF TypeOK
  <1> HIDE DEF found, seen
  <1>6. new \in AnyRequest /\ new.todo \cup new.kept \subseteq new.near
    BY <1>1, <1>2, <1>3, <1>5 DEF AnyRequest, Reading
  <1> HIDE DEF new
  <1> QED
    BY <1>4, <1>6, OnlyRequestChanges DEF Score, ground, TypeOK

\* The same when rows change, and none appears for a posting that is gone.
LEMMA RowsChange ==
  ASSUME TypeOK, NEW r \in Request, NEW new \in AnyRequest,
         new.pc = "write" => new.todo \cup new.kept \subseteq new.near,
         req' = [req EXCEPT ![r] = new],
         rec' \in [User -> [Job -> Fresh \cup {Stale, Tombstone, NoRow}]],
         \A u \in User, j \in Job : rec[u][j] = NoRow /\ job[j].status = "GONE" => rec'[u][j] = NoRow,
         UNCHANGED <<profile, vector, job>>,
         hold' \subseteq User, missed' \subseteq User \cup Job
  PROVE  TypeOK'
  <1>1. req' \in [Request -> AnyRequest]
    BY DEF TypeOK
  <1>2. \A q \in Request : At(q, "write")' => req'[q].todo \cup req'[q].kept \subseteq req'[q].near
    BY DEF TypeOK, At
  <1>3. \A u \in User, j \in Job : job[j].status = "GONE" => rec'[u][j] = NoRow
    BY DEF TypeOK
  <1> QED
    BY <1>1, <1>2, <1>3 DEF TypeOK

LEMMA ScoredTypes ==
  ASSUME TypeOK, NEW r \in Request, At(r, "write"), NEW u \in User, NEW j \in Job
  PROVE  Scored(r, u, j) \in Fresh
  <1>1. req[r].prof \in Nat /\ req[r].vec \in Nat /\ req[r].seen[j] \in Nat
    BY Kinds
  <1>2. Outrun(r, u, j) \in SUBSET {"profile", "job"}
    BY DEF Outrun
  <1> QED
    BY <1>1, <1>2 DEF Scored, Fresh

LEMMA WriteOneTypes ==
  ASSUME TypeOK, NEW r \in Request, NEW j \in Job, WriteOne(r, j)
  PROVE  TypeOK'
  <1> DEFINE u == req[r].user
             row == Upsert(r, u, j)
             new == [req[r] EXCEPT !.todo = req[r].todo \ {j}, !.kept = req[r].kept \cup {j}]
  <1>1. /\ At(r, "write") /\ j \in req[r].todo /\ job[j].status # "GONE"
        /\ rec' = [rec EXCEPT ![u][j] = row] /\ req' = [req EXCEPT ![r] = new]
        /\ UNCHANGED <<profile, vector, job, hold, missed>>
    BY DEF WriteOne, ground
  <1>2. u \in User
    BY <1>1, Kinds DEF At
  <1>3. row \in Fresh \cup {Stale, Tombstone, NoRow}
    BY <1>1, <1>2, ScoredTypes DEF Upsert
  <1>4. new \in AnyRequest /\ new.todo \cup new.kept \subseteq new.near
    <2>1. req[r] \in Reading
      BY <1>1 DEF TypeOK, AnyRequest, Idle, Editing, Posting, At
    <2>2. req[r].todo \cup req[r].kept \subseteq req[r].near
      BY <1>1 DEF TypeOK
    <2> QED
      BY <1>1, <2>1, <2>2 DEF AnyRequest, Reading, At
  <1> HIDE DEF u, row, new
  <1>5. /\ rec' \in [User -> [Job -> Fresh \cup {Stale, Tombstone, NoRow}]]
        /\ \A v \in User, k \in Job :
             rec[v][k] = NoRow /\ job[k].status = "GONE" => rec'[v][k] = NoRow
    BY <1>1, <1>2, <1>3 DEF TypeOK
  <1> QED
    BY <1>1, <1>4, <1>5, RowsChange DEF TypeOK

LEMMA DropTypes ==
  ASSUME TypeOK, NEW r \in Request, Drop(r)
  PROVE  TypeOK'
  <1> DEFINE u == req[r].user
             rows == [j \in Job |-> IF Live(u, j) /\ j \notin req[r].kept THEN NoRow ELSE rec[u][j]]
             new == [pc |-> "reread", user |-> u]
  <1>1. /\ rec' = [rec EXCEPT ![u] = rows] /\ req' = [req EXCEPT ![r] = new]
        /\ UNCHANGED <<profile, vector, job, missed>>
    BY DEF Drop, ground, Ask
  <1>2. u \in User
    BY Kinds DEF At, Drop
  <1>3. hold' \subseteq User
    BY <1>2 DEF Drop, TypeOK
  <1>4. rows \in [Job -> Fresh \cup {Stale, Tombstone, NoRow}]
        /\ \A j \in Job : rows[j] \in {rec[u][j], NoRow}
    BY <1>2 DEF TypeOK
  <1>5. new \in AnyRequest /\ new.pc # "write"
    BY <1>2, Requests
  <1> HIDE DEF u, rows, new
  <1>6. /\ rec' \in [User -> [Job -> Fresh \cup {Stale, Tombstone, NoRow}]]
        /\ \A v \in User, k \in Job :
             rec[v][k] = NoRow /\ job[k].status = "GONE" => rec'[v][k] = NoRow
    BY <1>1, <1>2, <1>4 DEF TypeOK
  <1> QED
    BY <1>1, <1>3, <1>5, <1>6, RowsChange DEF TypeOK

\* Which rows a recompute drops.
LEMMA DropRows ==
  ASSUME TypeOK, NEW r \in Request, Drop(r), NEW v \in User, NEW k \in Job
  PROVE  rec'[v][k] = rec[v][k] \/ (rec'[v][k] = NoRow /\ Live(v, k))
  <1> DEFINE u == req[r].user
             rows == [j \in Job |-> IF Live(u, j) /\ j \notin req[r].kept THEN NoRow ELSE rec[u][j]]
  <1>1. rec' = [rec EXCEPT ![u] = rows]
    BY DEF Drop
  <1>2. u \in User
    BY Kinds DEF At, Drop
  <1>3. rows[k] = rec[u][k] \/ (rows[k] = NoRow /\ rec[u][k] \notin {NoRow, Tombstone})
    BY DEF Live
  <1> HIDE DEF u, rows
  <1>4. rec'[u] = rows /\ (v # u => rec'[v] = rec[v])
    BY <1>1, <1>2 DEF TypeOK
  <1>5. CASE v = u
    BY <1>3, <1>4, <1>5 DEF Live
  <1> QED
    BY <1>4, <1>5

LEMMA AnsweredTypes ==
  ASSUME TypeOK, NEW r \in Request, Answered(r), UNCHANGED <<profile, vector, job, rec>>,
         hold' \subseteq User, missed' \subseteq User \cup Job
  PROVE  TypeOK'
  <1>1. Idle \in AnyRequest /\ Idle.pc # "write"
    BY Requests DEF Idle
  <1> QED
    BY <1>1, OnlyRequestChanges DEF Answered

LEMMA MarkRowsTypes ==
  ASSUME TypeOK, NEW users, NEW jobs, MarkRows(users, jobs)
  PROVE  /\ rec' \in [User -> [Job -> Fresh \cup {Stale, Tombstone, NoRow}]]
         /\ \A u \in User, j \in Job : rec[u][j] = NoRow => rec'[u][j] = NoRow
  BY DEF MarkRows, TypeOK, Live

LEMMA MarkTypes ==
  ASSUME TypeOK, NEW r \in Request, NEW users, NEW jobs, MarkRows(users, jobs), Answered(r),
         UNCHANGED <<profile, vector, job, hold>>, missed' \subseteq User \cup Job
  PROVE  TypeOK'
  <1>1. Idle \in AnyRequest /\ Idle.pc # "write"
    BY Requests DEF Idle
  <1> QED
    BY <1>1, RowsChange, MarkRowsTypes DEF Answered, TypeOK

LEMMA GroundChanges ==
  ASSUME TypeOK, NEW r \in Request, NEW new \in AnyRequest, new.pc # "write",
         req' = [req EXCEPT ![r] = new],
         profile' \in [User -> Nat], vector' \in [User -> Nat],
         job' \in [Job -> [status : Status, ver : Nat, last : Nat]],
         \A j \in Job : job'[j].status = "GONE" => job[j].status = "GONE",
         UNCHANGED <<rec, hold, missed>>
  PROVE  TypeOK'
  <1>1. req' \in [Request -> AnyRequest]
    BY DEF TypeOK
  <1>2. \A q \in Request : At(q, "write")' => req'[q].todo \cup req'[q].kept \subseteq req'[q].near
    BY DEF TypeOK, At
  <1>3. \A u \in User, j \in Job : job'[j].status = "GONE" => rec'[u][j] = NoRow
    BY DEF TypeOK
  <1> QED
    BY <1>1, <1>2, <1>3 DEF TypeOK

LEMMA EditTypes ==
  ASSUME TypeOK, NEW r \in Request, NEW u \in User, Edit(r, u)
  PROVE  TypeOK'
  <1> DEFINE new == [pc |-> "embed", user |-> u, prof |-> 0]
  <1>1. new \in AnyRequest /\ new.pc # "write"
    BY Requests
  <1>2. req' = [req EXCEPT ![r] = new]
    BY DEF Edit
  <1>3. profile' \in [User -> Nat]
    BY DEF Edit, TypeOK
  <1> HIDE DEF new
  <1> QED
    BY <1>1, <1>2, <1>3, GroundChanges DEF Edit, TypeOK

LEMMA EmbedTypes ==
  ASSUME TypeOK, NEW r \in Request, Embed(r)
  PROVE  TypeOK'
  <1> DEFINE new == [req[r] EXCEPT !.pc = "store", !.prof = profile[req[r].user]]
  <1>1. req[r] \in Editing
    BY Kinds DEF Embed, At
  <1>2. new \in AnyRequest /\ new.pc # "write"
    BY <1>1 DEF AnyRequest, Editing, TypeOK
  <1>3. req' = [req EXCEPT ![r] = new]
    BY DEF Embed
  <1> HIDE DEF new
  <1> QED
    BY <1>2, <1>3, OnlyRequestChanges DEF Embed, ground, TypeOK

LEMMA StoreTypes ==
  ASSUME TypeOK, NEW r \in Request, StoreVector(r) \/ EmbedFails(r)
  PROVE  TypeOK'
  <1> DEFINE new == [req[r] EXCEPT !.pc = "mark"]
  <1>1. req[r] \in Editing /\ req[r].prof \in Nat
    BY Kinds DEF StoreVector, EmbedFails, At
  <1>2. new \in AnyRequest /\ new.pc # "write"
    BY <1>1 DEF AnyRequest, Editing
  <1>3. req' = [req EXCEPT ![r] = new]
    BY DEF StoreVector, EmbedFails, GoTo
  <1>4. vector' \in [User -> Nat] /\ UNCHANGED <<profile, job, rec, hold, missed>>
    BY <1>1 DEF StoreVector, EmbedFails, TypeOK, ground
  <1> HIDE DEF new
  <1> QED
    BY <1>2, <1>3, <1>4, GroundChanges DEF TypeOK

LEMMA LoadJobTypes ==
  ASSUME TypeOK, NEW r \in Request, NEW j \in Job, NEW op \in {"publish", "update", "close"},
         LoadJob(r, j, op)
  PROVE  TypeOK'
  <1>1. PICK status \in After(op, job[j].status) :
          req' = [req EXCEPT ![r] = [pc |-> "save", job |-> j, op |-> op, status |-> status,
                                     ver |-> job[j].ver]]
    BY DEF LoadJob
  <1> DEFINE new == [pc |-> "save", job |-> j, op |-> op, status |-> status, ver |-> job[j].ver]
  <1>2. status \in {"DRAFT", "PUBLISHED", "CLOSED"} /\ (op = "close" <=> status = "CLOSED")
    BY DEF After
  <1>3. new \in AnyRequest /\ new.pc # "write"
    BY <1>2 DEF AnyRequest, Posting, TypeOK
  <1>4. req' = [req EXCEPT ![r] = new]
    BY <1>1
  <1> HIDE DEF new
  <1> QED
    BY <1>3, <1>4, OnlyRequestChanges DEF LoadJob, ground, TypeOK

LEMMA SaveJobTypes ==
  ASSUME TypeOK, NEW r \in Request, SaveJob(r)
  PROVE  TypeOK'
  <1> DEFINE pc == IF req[r].op = "close" THEN "remove" ELSE "embedJob"
             new == [req[r] EXCEPT !.pc = pc]
             row == IF req[r].op = "update"
                      THEN [status |-> req[r].status, ver |-> job[req[r].job].last + 1,
                            last |-> job[req[r].job].last + 1]
                      ELSE [job[req[r].job] EXCEPT !.status = req[r].status, !.ver = req[r].ver]
  <1>1. At(r, "save") /\ req' = [req EXCEPT ![r] = new] /\ job' = [job EXCEPT ![req[r].job] = row]
        /\ UNCHANGED <<profile, vector, rec, hold, missed>>
    BY DEF SaveJob, SaveJob_Then, GoTo
  <1>2. req[r] \in Posting /\ req[r].job \in Job /\ req[r].ver \in Nat
        /\ req[r].status \in {"DRAFT", "PUBLISHED", "CLOSED"}
    BY <1>1, Kinds, PostingAt DEF At
  <1>3. new \in AnyRequest /\ new.pc # "write"
    <2>1. pc \in {"save", "embedJob", "markJob", "remove"} /\ pc # "write"
      OBVIOUS
    <2> HIDE DEF pc
    <2>2. new \in Posting /\ new.pc = pc
      BY <1>2, <2>1, GoOn DEF Posting
    <2> QED
      BY <2>1, <2>2 DEF AnyRequest
  <1>4. row \in [status : Status, ver : Nat, last : Nat] /\ row.status # "GONE"
    <2> DEFINE old == job[req[r].job]
    <2>1. old \in [status : Status, ver : Nat, last : Nat]
      BY <1>2 DEF TypeOK
    <2>2. req[r].status \in Status /\ req[r].status # "GONE"
      BY <1>2 DEF Status
    <2> HIDE DEF old
    <2>3. [status |-> req[r].status, ver |-> old.last + 1, last |-> old.last + 1]
             \in [status : Status, ver : Nat, last : Nat]
      BY <2>1, <2>2
    <2>4. [old EXCEPT !.status = req[r].status, !.ver = req[r].ver]
             \in [status : Status, ver : Nat, last : Nat]
      BY <1>2, <2>1, <2>2
    <2>5. [old EXCEPT !.status = req[r].status, !.ver = req[r].ver].status = req[r].status
      BY <2>1
    <2> QED
      BY <2>2, <2>3, <2>4, <2>5 DEF old
  <1> HIDE DEF new, row
  <1>5. job' \in [Job -> [status : Status, ver : Nat, last : Nat]]
        /\ \A j \in Job : job'[j].status = "GONE" => job[j].status = "GONE"
    BY <1>1, <1>2, <1>4 DEF TypeOK
  <1> QED
    BY <1>1, <1>3, <1>5, GroundChanges DEF TypeOK

LEMMA EmbedJobTypes ==
  ASSUME TypeOK, NEW r \in Request, EmbedJob(r)
  PROVE  TypeOK'
  <1> DEFINE new == [req[r] EXCEPT !.pc = "markJob"]
  <1>1. req[r] \in Posting
    BY PostingAt DEF EmbedJob, At
  <1>2. new \in AnyRequest /\ new.pc # "write"
    BY <1>1, GoOn DEF AnyRequest, Posting
  <1>3. req' = [req EXCEPT ![r] = new]
    BY DEF EmbedJob, GoTo
  <1> HIDE DEF new
  <1> QED
    BY <1>2, <1>3, OnlyRequestChanges DEF EmbedJob, ground, TypeOK

\* The rows of one posting go.
LEMMA Removed ==
  ASSUME TypeOK, NEW j \in Job, rec' = [u \in User |-> [rec[u] EXCEPT ![j] = NoRow]]
  PROVE  /\ rec' \in [User -> [Job -> Fresh \cup {Stale, Tombstone, NoRow}]]
         /\ \A u \in User, k \in Job : rec'[u][k] = IF k = j THEN NoRow ELSE rec[u][k]
  BY DEF TypeOK

LEMMA RemoveRows ==
  ASSUME TypeOK, NEW r \in Request, RemoveForClosedJob(r), NEW v \in User, NEW k \in Job
  PROVE  rec'[v][k] = IF k = req[r].job THEN NoRow ELSE rec[v][k]
  <1>1. req[r].job \in Job
    BY Kinds DEF RemoveForClosedJob, At
  <1> QED
    BY <1>1, Removed DEF RemoveForClosedJob

LEMMA RemoveTypes ==
  ASSUME TypeOK, NEW r \in Request, RemoveForClosedJob(r)
  PROVE  TypeOK'
  <1>1. req[r].job \in Job
    BY Kinds DEF RemoveForClosedJob, At
  <1>2. Idle \in AnyRequest /\ Idle.pc # "write"
    BY Requests DEF Idle
  <1>3. /\ rec' \in [User -> [Job -> Fresh \cup {Stale, Tombstone, NoRow}]]
        /\ \A u \in User, k \in Job : rec[u][k] = NoRow => rec'[u][k] = NoRow
    BY <1>1, Removed DEF RemoveForClosedJob
  <1> QED
    BY <1>2, <1>3, RowsChange DEF RemoveForClosedJob, Answered, ground, TypeOK

LEMMA DeleteJobTypes ==
  ASSUME TypeOK, NEW j \in Job, DeleteJob(j)
  PROVE  TypeOK'
  <1>1. /\ rec' \in [User -> [Job -> Fresh \cup {Stale, Tombstone, NoRow}]]
        /\ \A u \in User, k \in Job : rec'[u][k] = IF k = j THEN NoRow ELSE rec[u][k]
    BY Removed DEF DeleteJob
  <1>2. job' \in [Job -> [status : Status, ver : Nat, last : Nat]]
        /\ \A k \in Job \ {j} : job'[k] = job[k]
    BY DEF DeleteJob, TypeOK, Status
  <1>3. \A u \in User, k \in Job : job'[k].status = "GONE" => rec'[u][k] = NoRow
    BY <1>1, <1>2 DEF TypeOK
  <1> QED
    BY <1>1, <1>2, <1>3 DEF DeleteJob, TypeOK, At

LEMMA DismissTypes ==
  ASSUME TypeOK, NEW u \in User, NEW j \in Job, Dismiss(u, j)
  PROVE  TypeOK'
  <1>1. rec' \in [User -> [Job -> Fresh \cup {Stale, Tombstone, NoRow}]]
    BY DEF Dismiss, TypeOK
  <1>2. \A v \in User, k \in Job : job[k].status = "GONE" => rec'[v][k] = NoRow
    BY DEF Dismiss, TypeOK, Live
  <1> QED
    BY <1>1, <1>2 DEF Dismiss, TypeOK, At, ground

LEMMA RestartTypes ==
  ASSUME TypeOK, Restart
  PROVE  TypeOK'
  <1>1. req' \in [Request -> AnyRequest] /\ \A r \in Request : ~At(r, "write")'
    BY Requests DEF Restart, At, Idle
  <1> QED
    BY <1>1 DEF Restart, TypeOK, ground

\* Each step leaves every variable with its type, every row with its posting, and
\* the rows a recompute has to write among those it ranked.
LEMMA TypeStep ==
  ASSUME TypeOK, [Next]_vars
  PROVE  TypeOK'
  <1> USE BoundsAssumption
  <1>1. ASSUME NEW r \in Request, Serve(r)
        PROVE  TypeOK'
    <2>1. CASE Retrieve(r)
      BY <2>1, RetrieveTypes
    <2>2. CASE Score(r)
      BY <2>2, ScoreTypes
    <2>3. CASE \E j \in Job : WriteOne(r, j)
      BY <2>3, WriteOneTypes
    <2>4. CASE Drop(r)
      BY <2>4, DropTypes
    <2>5. CASE Reread(r)
      BY <2>5, AnsweredTypes DEF Reread, ground, TypeOK
    <2>6. CASE RecomputeFails(r)
      <3>1. req[r].user \in User
        BY <2>6 DEF RecomputeFails, Reading
      <3> QED
        BY <2>6, <3>1, AnsweredTypes DEF RecomputeFails, ground, TypeOK
    <2>7. CASE Embed(r)
      BY <2>7, EmbedTypes
    <2>8. CASE StoreVector(r) \/ EmbedFails(r)
      BY <2>8, StoreTypes
    <2>9. CASE MarkStale(r)
      BY <2>9, MarkTypes DEF MarkStale, ground, TypeOK
    <2>10. CASE MarkFails(r)
      <3>1. req[r].user \in User
        BY <2>10, Kinds DEF MarkFails, At
      <3> QED
        BY <2>10, <3>1, AnsweredTypes DEF MarkFails, ground, TypeOK
    <2>11. CASE SaveJob(r)
      BY <2>11, SaveJobTypes
    <2>12. CASE EmbedJob(r)
      BY <2>12, EmbedJobTypes
    <2>13. CASE EmbedJobFails(r)
      <3>1. req[r].job \in Job
        BY <2>13, Kinds DEF EmbedJobFails, At
      <3> QED
        BY <2>13, <3>1, AnsweredTypes DEF EmbedJobFails, ground, TypeOK
    <2>14. CASE MarkStaleForJob(r)
      BY <2>14, MarkTypes DEF MarkStaleForJob, ground, TypeOK
    <2>15. CASE RemoveForClosedJob(r)
      BY <2>15, RemoveTypes
    <2>16. CASE RemoveFails(r)
      BY <2>16, AnsweredTypes DEF RemoveFails, ground, TypeOK
    <2> QED
      BY <1>1, <2>1, <2>2, <2>3, <2>4, <2>5, <2>6, <2>7, <2>8, <2>9, <2>10, <2>11, <2>12,
         <2>13, <2>14, <2>15, <2>16 DEF Serve
  <1>2. ASSUME NEW r \in Request, NEW u \in User, BeginRecompute(r, u) \/ Edit(r, u)
        PROVE  TypeOK'
    BY <1>2, BeginRecomputeTypes, EditTypes
  <1>3. ASSUME NEW r \in Request, NEW j \in Managed, NEW op \in {"publish", "update", "close"},
               LoadJob(r, j, op)
        PROVE  TypeOK'
    BY <1>3, LoadJobTypes
  <1>4. ASSUME NEW u \in User, CoolDown(u)
        PROVE  TypeOK'
    BY <1>4 DEF CoolDown, TypeOK, At, ground
  <1>5. ASSUME NEW u \in User, NEW j \in Job, Dismiss(u, j)
        PROVE  TypeOK'
    BY <1>5, DismissTypes
  <1>6. ASSUME NEW j \in Managed, DeleteJob(j)
        PROVE  TypeOK'
    BY <1>6, DeleteJobTypes
  <1>7. CASE Restart
    BY <1>7, RestartTypes
  <1>8. CASE UNCHANGED vars
    BY <1>8 DEF vars, ground, TypeOK, At
  <1> QED
    BY <1>1, <1>2, <1>3, <1>4, <1>5, <1>6, <1>7, <1>8 DEF Next

\* Every variable keeps its type, no recommendation outlives its posting, and a
\* recompute has only rows to write that it ranked.
THEOREM TypeCorrect == Spec => []TypeOK
  <1>1. Init => TypeOK
    BY BoundsAssumption, Requests DEF Init, TypeOK, Status, At, Idle
  <1> QED
    BY <1>1, TypeStep, PTL DEF Spec

-----------------------------------------------------------------------------
(* No edit is lost but in the three ways EditsReachTheList names. *)

\* The property, for one row.
EditReaches(u, j) ==
  Current(u, j) /\ (rec[u][j].prof # profile[u] \/ rec[u][j].vec # vector[u])
    => EditPending(u) \/ u \in missed \/ "profile" \in rec[u][j].late

LEMMA Pointwise == EditsReachTheList <=> \A u \in User, j \in Job : EditReaches(u, j)
  BY DEF EditsReachTheList, EditReaches

\* Nothing happens to the row but that it goes or is marked, and if no edit of the
\* user is pending any more, it is written down as missed.
LEMMA RowStays ==
  ASSUME NEW u \in User, NEW j \in Job, EditReaches(u, j), UNCHANGED <<profile, vector>>,
         rec'[u][j] \in {rec[u][j], NoRow, Tombstone, Stale},
         u \in missed => u \in missed',
         EditPending(u) => EditPending(u)' \/ u \in missed'
  PROVE  EditReaches(u, j)'
  BY DEF EditReaches, Current

\* An edit's request goes on pending while another request moves.
LEMMA EditStillPending ==
  ASSUME NEW r \in Request, \A q \in Request \ {r} : req'[q] = req[q],
         NEW u \in User, EditPending(u), req[r] \notin Editing \/ req[r].user # u
  PROVE  EditPending(u)'
  BY DEF EditPending

LEMMA OtherRequestMoves ==
  ASSUME NEW r \in Request, req[r] \notin Editing, \A q \in Request \ {r} : req'[q] = req[q],
         NEW u \in User, NEW j \in Job, EditReaches(u, j), UNCHANGED <<profile, vector>>,
         rec'[u][j] \in {rec[u][j], NoRow, Tombstone, Stale},
         u \in missed => u \in missed'
  PROVE  EditReaches(u, j)'
  BY EditStillPending, RowStays

LEMMA WriteOneReaches ==
  ASSUME TypeOK, NEW r \in Request, NEW k \in Job, WriteOne(r, k),
         NEW u \in User, NEW j \in Job, EditReaches(u, j)
  PROVE  EditReaches(u, j)'
  <1>1. /\ At(r, "write") /\ rec' = [rec EXCEPT ![req[r].user][k] = Upsert(r, req[r].user, k)]
        /\ UNCHANGED <<profile, vector, job, missed>>
        /\ \A q \in Request \ {r} : req'[q] = req[q]
    BY DEF WriteOne, ground, TypeOK
  <1>2. req[r] \notin Editing /\ req[r].user \in User
    BY <1>1, Kinds DEF At
  <1>3. CASE u = req[r].user /\ j = k
    <2>1. rec'[u][j] = Upsert(r, u, j)
      BY <1>1, <1>3 DEF TypeOK
    <2>2. CASE rec[u][j] = Tombstone
      BY <1>1, <1>2, <2>1, <2>2, OtherRequestMoves DEF Upsert
    <2>3. CASE rec[u][j] # Tombstone
      <3>1. rec'[u][j] = Scored(r, u, j)
        BY <2>1, <2>3 DEF Upsert
      <3>2. /\ rec'[u][j].prof = req[r].prof /\ rec'[u][j].vec = req[r].vec
            /\ rec'[u][j].late = Outrun(r, u, j)
        BY <3>1 DEF Scored
      <3>3. req[r].prof # profile[u] \/ req[r].vec # vector[u] => "profile" \in Outrun(r, u, j)
        BY DEF Outrun
      <3> QED
        BY <1>1, <3>2, <3>3 DEF EditReaches
    <2> QED
      BY <2>2, <2>3
  <1>4. CASE u # req[r].user \/ j # k
    <2>1. rec'[u][j] = rec[u][j]
      BY <1>1, <1>2, <1>4 DEF TypeOK
    <2> QED
      BY <1>1, <1>2, <2>1, OtherRequestMoves
  <1> QED
    BY <1>3, <1>4

\* The steps of an edit.
LEMMA EditGoesOn ==
  ASSUME TypeOK, NEW r \in Request, Embed(r) \/ StoreVector(r) \/ EmbedFails(r)
  PROVE  req'[r] \in Editing /\ req'[r].user = req[r].user
  <1>1. req[r] \in Editing /\ req[r].user \in User
    BY Kinds DEF Embed, StoreVector, EmbedFails, At
  <1>2. ASSUME NEW pc \in {"embed", "store", "mark"}, GoTo(r, pc)
        PROVE  req'[r] \in Editing /\ req'[r].user = req[r].user
    <2> DEFINE new == [req[r] EXCEPT !.pc = pc]
    <2>1. new \in Editing /\ new.user = req[r].user
      BY <1>1, GoOn DEF Editing
    <2>2. req'[r] = new
      BY <1>2 DEF GoTo, TypeOK
    <2> QED
      BY <2>1, <2>2
  <1>3. CASE Embed(r)
    <2> DEFINE new == [req[r] EXCEPT !.pc = "store", !.prof = profile[req[r].user]]
    <2>1. new \in Editing /\ new.user = req[r].user
      BY <1>1 DEF Editing, TypeOK
    <2>2. req'[r] = new
      BY <1>3 DEF Embed, TypeOK
    <2> QED
      BY <2>1, <2>2
  <1> QED
    BY <1>2, <1>3 DEF StoreVector, EmbedFails

LEMMA EditingReaches ==
  ASSUME TypeOK, NEW r \in Request,
         Embed(r) \/ StoreVector(r) \/ EmbedFails(r) \/ MarkStale(r) \/ MarkFails(r),
         NEW u \in User, NEW j \in Job, EditReaches(u, j)
  PROVE  EditReaches(u, j)'
  <1>1. /\ req[r] \in Editing /\ req[r].user \in User /\ req[r].prof \in Nat
        /\ \A q \in Request \ {r} : req'[q] = req[q]
        /\ profile' = profile
    BY Kinds DEF Embed, StoreVector, EmbedFails, MarkStale, MarkFails, At, GoTo, Answered,
                 TypeOK, ground
  <1>2. CASE u # req[r].user
    <2>1. EditPending(u) => EditPending(u)'
      BY <1>1, <1>2, EditStillPending
    <2>2. vector'[u] = vector[u] /\ rec'[u][j] = rec[u][j] /\ (u \in missed <=> u \in missed')
      BY <1>1, <1>2 DEF Embed, StoreVector, EmbedFails, MarkStale, MarkFails, MarkRows, TypeOK,
                        ground
    <2> QED
      BY <1>1, <2>1, <2>2 DEF EditReaches, Current
  <1>3. CASE u = req[r].user /\ (Embed(r) \/ StoreVector(r) \/ EmbedFails(r))
    <2>1. req'[r] \in Editing /\ req'[r].user = u
      BY <1>3, EditGoesOn
    <2> QED
      BY <2>1 DEF EditReaches, EditPending
  <1>4. CASE u = req[r].user /\ MarkStale(r)
    <2>1. rec'[u][j] \in {NoRow, Tombstone, Stale}
      BY <1>4 DEF MarkStale, MarkRows, Live
    <2> QED
      BY <2>1 DEF EditReaches, Current
  <1>5. CASE u = req[r].user /\ MarkFails(r)
    BY <1>5 DEF MarkFails, EditReaches
  <1> QED
    BY <1>2, <1>3, <1>4, <1>5

\* The steps of a recompute but its upserts, and those of a posting.
LEMMA ServingReaches ==
  ASSUME TypeOK, NEW r \in Request,
         \/ Retrieve(r) \/ Score(r) \/ Drop(r) \/ Reread(r) \/ RecomputeFails(r)
         \/ SaveJob(r) \/ EmbedJob(r) \/ EmbedJobFails(r) \/ MarkStaleForJob(r)
         \/ RemoveForClosedJob(r) \/ RemoveFails(r),
         NEW u \in User, NEW j \in Job, EditReaches(u, j)
  PROVE  EditReaches(u, j)'
  <1>1. req[r] \notin Editing
    BY Kinds DEF Retrieve, Score, Drop, Reread, RecomputeFails, SaveJob, SaveJob_Then, EmbedJob,
                 EmbedJobFails, MarkStaleForJob, RemoveForClosedJob, RemoveFails, At, Reading
  <1>2. /\ \A q \in Request \ {r} : req'[q] = req[q]
        /\ UNCHANGED <<profile, vector>>
    BY DEF Retrieve, Score, Drop, Reread, RecomputeFails, SaveJob, SaveJob_Then, EmbedJob,
           EmbedJobFails, MarkStaleForJob, RemoveForClosedJob, RemoveFails,
           Ask, Answered, GoTo, Ranked, TypeOK, ground
  <1>3. u \in missed => u \in missed'
    <2>1. MarkStaleForJob(r) => req[r].job \in Job
      BY Kinds DEF MarkStaleForJob, At
    <2> QED
      BY <2>1, BoundsAssumption
         DEF Retrieve, Score, Drop, Reread, RecomputeFails, SaveJob, SaveJob_Then, EmbedJob,
             EmbedJobFails, MarkStaleForJob, RemoveForClosedJob, RemoveFails
  <1>4. rec'[u][j] \in {rec[u][j], NoRow, Tombstone, Stale}
    <2>1. CASE Drop(r)
      BY <2>1, DropRows
    <2>3. CASE MarkStaleForJob(r)
      BY <2>3 DEF MarkStaleForJob, MarkRows
    <2>4. CASE RemoveForClosedJob(r)
      BY <2>4, RemoveRows
    <2>2. CASE ~(Drop(r) \/ MarkStaleForJob(r) \/ RemoveForClosedJob(r))
      BY <2>2 DEF Retrieve, Score, Reread, RecomputeFails, SaveJob, SaveJob_Then, EmbedJob,
                  EmbedJobFails, RemoveFails, ground
    <2> QED
      BY <2>1, <2>2, <2>3, <2>4
  <1> QED
    BY <1>1, <1>2, <1>3, <1>4, OtherRequestMoves

LEMMA ArrivalReaches ==
  ASSUME TypeOK, NEW r \in Request,
         \/ \E v \in User : BeginRecompute(r, v) \/ Edit(r, v)
         \/ \E k \in Job, op \in {"publish", "update", "close"} : LoadJob(r, k, op),
         NEW u \in User, NEW j \in Job, EditReaches(u, j)
  PROVE  EditReaches(u, j)'
  <1>1. /\ req[r] \notin Editing /\ rec' = rec /\ missed' = missed /\ vector' = vector
        /\ \A q \in Request \ {r} : req'[q] = req[q]
    BY Kinds DEF BeginRecompute, Edit, LoadJob, At, Ask, TypeOK, ground
  <1>2. CASE profile' = profile
    BY <1>1, <1>2, OtherRequestMoves
  <1>3. ASSUME NEW v \in User, Edit(r, v)
        PROVE  EditReaches(u, j)'
    <2>1. req'[r] = [pc |-> "embed", user |-> v, prof |-> 0] /\ req'[r] \in Editing
      BY <1>3 DEF Edit, TypeOK, Editing
    <2>2. u = v => EditPending(u)'
      BY <2>1 DEF EditPending
    <2>3. u # v => profile'[u] = profile[u]
      BY <1>3 DEF Edit, TypeOK
    <2>4. EditPending(u) => EditPending(u)'
      BY <1>1, EditStillPending
    <2> QED
      BY <1>1, <2>2, <2>3, <2>4 DEF EditReaches, Current
  <1> QED
    BY <1>2, <1>3 DEF BeginRecompute, LoadJob, ground

LEMMA EditsReachStep ==
  ASSUME TypeOK, EditsReachTheList, [Next]_vars
  PROVE  EditsReachTheList'
  <1> SUFFICES ASSUME NEW u \in User, NEW j \in Job, EditReaches(u, j)
               PROVE  EditReaches(u, j)'
    BY Pointwise DEF EditsReachTheList, EditReaches
  <1>1. ASSUME NEW r \in Request, Serve(r)
        PROVE  EditReaches(u, j)'
    BY <1>1, WriteOneReaches, EditingReaches, ServingReaches DEF Serve
  <1>2. CASE \E r \in Request :
               \/ \E v \in User : BeginRecompute(r, v) \/ Edit(r, v)
               \/ \E k \in Managed, op \in {"publish", "update", "close"} : LoadJob(r, k, op)
    BY <1>2, ArrivalReaches, BoundsAssumption
  <1>3. CASE \/ \E v \in User : CoolDown(v)
             \/ \E v \in User, k \in Job : Dismiss(v, k)
             \/ \E k \in Managed : DeleteJob(k)
    <2>1. UNCHANGED <<profile, vector, req, missed>>
      BY <1>3 DEF CoolDown, Dismiss, DeleteJob, ground
    <2>2. rec'[u][j] \in {rec[u][j], NoRow, Tombstone, Stale}
      <3>1. CASE \E v \in User : CoolDown(v)
        BY <3>1 DEF CoolDown
      <3>2. CASE \E v \in User, k \in Job : Dismiss(v, k)
        BY <3>2 DEF Dismiss, TypeOK
      <3>3. ASSUME NEW k \in Managed, DeleteJob(k)
            PROVE  rec'[u][j] \in {rec[u][j], NoRow}
        BY <3>3, BoundsAssumption, Removed DEF DeleteJob
      <3> QED
        BY <1>3, <3>1, <3>2, <3>3
    <2> QED
      BY <2>1, <2>2, RowStays DEF EditPending
  <1>4. CASE Restart
    <2>1. UNCHANGED <<profile, vector, rec>> /\ (u \in missed => u \in missed')
          /\ (EditPending(u) => u \in missed')
      BY <1>4 DEF Restart, ground
    <2> QED
      BY <2>1, RowStays
  <1>5. CASE UNCHANGED vars
    BY <1>5 DEF vars, ground, EditReaches, Current, EditPending
  <1> QED
    BY <1>1, <1>2, <1>3, <1>4, <1>5 DEF Next

\* A row that claims to be current was scored on the profile and the vector that are
\* stored, unless the edit is still to mark it, its mark was lost, or the edit overtook
\* the recompute that wrote the row.
THEOREM EditsReach == Spec => []EditsReachTheList
  <1>1. Init => EditsReachTheList
    BY DEF Init, EditsReachTheList, Current
  <1>2. TypeOK /\ EditsReachTheList /\ [Next]_vars => EditsReachTheList'
    BY EditsReachStep
  <1> QED
    BY <1>1, <1>2, TypeCorrect, PTL DEF Spec

-----------------------------------------------------------------------------
(* Job edits reach the list. *)

JobReaches(u, j) ==
  job[j].status = "PUBLISHED" /\ Current(u, j) /\ rec[u][j].ver # job[j].ver
    => JobEditPending(j) \/ j \in missed \/ "job" \in rec[u][j].late

LEMMA JobPointwise == JobEditsReachTheList <=> \A u \in User, j \in Job : JobReaches(u, j)
  BY DEF JobEditsReachTheList, JobReaches, List, Published, Live, Current

LEMMA JobRowStays ==
  ASSUME NEW u \in User, NEW j \in Job, JobReaches(u, j), job'[j] = job[j],
         rec'[u][j] \in {rec[u][j], NoRow, Tombstone, Stale},
         j \in missed => j \in missed',
         JobEditPending(j) => JobEditPending(j)' \/ j \in missed'
  PROVE  JobReaches(u, j)'
  BY DEF JobReaches, Current

Announcing(r) == req[r].pc \in {"embedJob", "markJob"}

LEMMA JobEditStillPending ==
  ASSUME NEW r \in Request, \A q \in Request \ {r} : req'[q] = req[q],
         NEW j \in Job, JobEditPending(j), ~Announcing(r) \/ req[r].job # j
  PROVE  JobEditPending(j)'
  BY DEF JobEditPending, Announcing

LEMMA OtherThanAnnouncing ==
  ASSUME NEW r \in Request, \A q \in Request \ {r} : req'[q] = req[q], ~Announcing(r),
         NEW u \in User, NEW j \in Job, JobReaches(u, j), job'[j] = job[j],
         rec'[u][j] \in {rec[u][j], NoRow, Tombstone, Stale},
         j \in missed => j \in missed'
  PROVE  JobReaches(u, j)'
  BY JobEditStillPending, JobRowStays

LEMMA WriteOneJobReaches ==
  ASSUME TypeOK, NEW r \in Request, NEW k \in Job, WriteOne(r, k),
         NEW u \in User, NEW j \in Job, JobReaches(u, j)
  PROVE  JobReaches(u, j)'
  <1>1. /\ At(r, "write") /\ rec' = [rec EXCEPT ![req[r].user][k] = Upsert(r, req[r].user, k)]
        /\ UNCHANGED <<job, missed>>
        /\ \A q \in Request \ {r} : req'[q] = req[q]
    BY DEF WriteOne, ground, TypeOK
  <1>2. ~Announcing(r) /\ req[r].user \in User
    BY <1>1, Kinds DEF At, Announcing
  <1>3. CASE u = req[r].user /\ j = k
    <2>1. rec'[u][j] = Upsert(r, u, j)
      BY <1>1, <1>3 DEF TypeOK
    <2>2. CASE rec[u][j] = Tombstone
      BY <1>1, <1>2, <2>1, <2>2, OtherThanAnnouncing DEF Upsert
    <2>3. CASE rec[u][j] # Tombstone
      <3>1. rec'[u][j] = Scored(r, u, j)
        BY <2>1, <2>3 DEF Upsert
      <3>2. rec'[u][j].ver = req[r].seen[j] /\ rec'[u][j].late = Outrun(r, u, j)
        BY <3>1 DEF Scored
      <3>3. req[r].seen[j] # job[j].ver => "job" \in Outrun(r, u, j)
        BY DEF Outrun
      <3> QED
        BY <1>1, <3>2, <3>3 DEF JobReaches
    <2> QED
      BY <2>2, <2>3
  <1>4. CASE u # req[r].user \/ j # k
    <2>1. rec'[u][j] = rec[u][j]
      BY <1>1, <1>2, <1>4 DEF TypeOK
    <2> QED
      BY <1>1, <1>2, <2>1, OtherThanAnnouncing
  <1> QED
    BY <1>3, <1>4

\* The announced posting goes on being announced, or is closed.
LEMMA SaveJobReaches ==
  ASSUME TypeOK, NEW r \in Request, SaveJob(r),
         NEW u \in User, NEW j \in Job, JobReaches(u, j)
  PROVE  JobReaches(u, j)'
  <1>1. /\ At(r, "save") /\ UNCHANGED <<rec, missed>>
        /\ GoTo(r, IF req[r].op = "close" THEN "remove" ELSE "embedJob")
    BY DEF SaveJob, SaveJob_Then
  <1>2. /\ req[r] \in Posting /\ req[r].job \in Job
        /\ req[r].op = "close" => req[r].status = "CLOSED"
        /\ req[r].op \in {"publish", "update", "close"}
    BY <1>1, Kinds, PostingAt DEF At
  <1>3. ~Announcing(r) /\ \A q \in Request \ {r} : req'[q] = req[q]
    BY <1>1 DEF At, Announcing, GoTo, TypeOK
  <1>4. CASE j # req[r].job
    <2>1. job'[j] = job[j]
      BY <1>2, <1>4 DEF SaveJob, SaveJob_Then, TypeOK
    <2> QED
      BY <1>1, <1>3, <2>1, OtherThanAnnouncing
  <1>5. CASE j = req[r].job /\ req[r].op # "close"
    <2> DEFINE new == [req[r] EXCEPT !.pc = "embedJob"]
    <2>1. new.pc = "embedJob" /\ new.job = req[r].job
      BY <1>2 DEF Posting
    <2>2. req'[r] = new
      BY <1>1, <1>5 DEF GoTo, TypeOK
    <2> QED
      BY <1>5, <2>1, <2>2 DEF JobReaches, JobEditPending
  <1>6. CASE j = req[r].job /\ req[r].op = "close"
    <2>1. job' = [job EXCEPT ![j] = [@ EXCEPT !.status = "CLOSED", !.ver = req[r].ver]]
      BY <1>2, <1>6 DEF SaveJob, SaveJob_Then
    <2>2. job[j] \in [status : Status, ver : Nat, last : Nat] /\ DOMAIN job = Job
      BY DEF TypeOK
    <2>3. job'[j].status = "CLOSED"
      BY <2>1, <2>2
    <2> QED
      BY <2>3 DEF JobReaches
  <1> QED
    BY <1>4, <1>5, <1>6

LEMMA AnnouncingReaches ==
  ASSUME TypeOK, NEW r \in Request, EmbedJob(r) \/ EmbedJobFails(r) \/ MarkStaleForJob(r),
         NEW u \in User, NEW j \in Job, JobReaches(u, j)
  PROVE  JobReaches(u, j)'
  <1>1. req[r] \in Posting /\ req[r].job \in Job
    BY Kinds, PostingAt DEF EmbedJob, EmbedJobFails, MarkStaleForJob, At
  <1>2. UNCHANGED job /\ \A q \in Request \ {r} : req'[q] = req[q]
    BY DEF EmbedJob, EmbedJobFails, MarkStaleForJob, GoTo, Answered, TypeOK, ground
  <1>3. CASE j # req[r].job
    <2>1. (j \in missed => j \in missed') /\ rec'[u][j] = rec[u][j]
      BY <1>3 DEF EmbedJob, EmbedJobFails, MarkStaleForJob, MarkRows, ground
    <2>2. JobEditPending(j) => JobEditPending(j)'
      BY <1>2, <1>3, JobEditStillPending
    <2> QED
      BY <1>2, <2>1, <2>2, JobRowStays
  <1>4. CASE j = req[r].job /\ EmbedJob(r)
    <2> DEFINE new == [req[r] EXCEPT !.pc = "markJob"]
    <2>1. new.pc = "markJob" /\ new.job = req[r].job
      BY <1>1 DEF Posting
    <2>2. req'[r] = new
      BY <1>4 DEF EmbedJob, GoTo, TypeOK
    <2> QED
      BY <1>4, <2>1, <2>2 DEF JobReaches, JobEditPending
  <1>5. CASE j = req[r].job /\ EmbedJobFails(r)
    BY <1>5 DEF EmbedJobFails, JobReaches
  <1>6. CASE j = req[r].job /\ MarkStaleForJob(r)
    <2>1. rec'[u][j] \in {NoRow, Tombstone, Stale}
      BY <1>6 DEF MarkStaleForJob, MarkRows, Live
    <2> QED
      BY <2>1 DEF JobReaches, Current
  <1> QED
    BY <1>3, <1>4, <1>5, <1>6

\* Every other step of a request leaves the postings, and what is announced, alone.
LEMMA OthersJobReach ==
  ASSUME TypeOK, NEW r \in Request,
         \/ Retrieve(r) \/ Score(r) \/ Drop(r) \/ Reread(r) \/ RecomputeFails(r)
         \/ Embed(r) \/ StoreVector(r) \/ EmbedFails(r) \/ MarkStale(r) \/ MarkFails(r)
         \/ RemoveForClosedJob(r) \/ RemoveFails(r)
         \/ \E v \in User : BeginRecompute(r, v) \/ Edit(r, v)
         \/ \E k \in Job, op \in {"publish", "update", "close"} : LoadJob(r, k, op),
         NEW u \in User, NEW j \in Job, JobReaches(u, j)
  PROVE  JobReaches(u, j)'
  <1>1. ~Announcing(r)
    BY Kinds DEF Retrieve, Score, Drop, Reread, RecomputeFails, Embed, StoreVector, EmbedFails,
                 MarkStale, MarkFails, RemoveForClosedJob, RemoveFails, BeginRecompute, Edit,
                 LoadJob, At, Reading, Announcing
  <1>2. /\ \A q \in Request \ {r} : req'[q] = req[q]
        /\ UNCHANGED job
    BY DEF Retrieve, Score, Drop, Reread, RecomputeFails, Embed, StoreVector, EmbedFails,
           MarkStale, MarkFails, RemoveForClosedJob, RemoveFails, BeginRecompute, Edit,
           LoadJob, Ask, Answered, GoTo, Ranked, TypeOK, ground
  <1>3. j \in missed => j \in missed'
    <2>1. MarkStale(r) => req[r].user \in User
      BY Kinds DEF MarkStale, At
    <2> QED
      BY <2>1, BoundsAssumption
         DEF Retrieve, Score, Drop, Reread, RecomputeFails, Embed, StoreVector, EmbedFails,
             MarkStale, MarkFails, RemoveForClosedJob, RemoveFails, BeginRecompute, Edit, LoadJob
  <1>4. rec'[u][j] \in {rec[u][j], NoRow, Tombstone, Stale}
    <2>1. CASE Drop(r)
      BY <2>1, DropRows
    <2>2. CASE MarkStale(r)
      BY <2>2 DEF MarkStale, MarkRows
    <2>3. CASE RemoveForClosedJob(r)
      BY <2>3, RemoveRows
    <2>4. CASE ~(Drop(r) \/ MarkStale(r) \/ RemoveForClosedJob(r))
      BY <2>4 DEF Retrieve, Score, Reread, RecomputeFails, Embed, StoreVector, EmbedFails,
                  MarkFails, RemoveFails, BeginRecompute, Edit, LoadJob
    <2> QED
      BY <2>1, <2>2, <2>3, <2>4
  <1> QED
    BY <1>1, <1>2, <1>3, <1>4, OtherThanAnnouncing

LEMMA JobEditsReachStep ==
  ASSUME TypeOK, JobEditsReachTheList, [Next]_vars
  PROVE  JobEditsReachTheList'
  <1> SUFFICES ASSUME NEW u \in User, NEW j \in Job, JobReaches(u, j)
               PROVE  JobReaches(u, j)'
    BY JobPointwise DEF JobEditsReachTheList, JobReaches, List, Published, Live, Current
  <1>1. ASSUME NEW r \in Request, Serve(r)
        PROVE  JobReaches(u, j)'
    BY <1>1, WriteOneJobReaches, SaveJobReaches, AnnouncingReaches, OthersJobReach DEF Serve
  <1>2. CASE \E r \in Request :
               \/ \E v \in User : BeginRecompute(r, v) \/ Edit(r, v)
               \/ \E k \in Managed, op \in {"publish", "update", "close"} : LoadJob(r, k, op)
    BY <1>2, OthersJobReach, BoundsAssumption
  <1>3. CASE \/ \E v \in User : CoolDown(v)
             \/ \E v \in User, k \in Job : Dismiss(v, k)
    <2>1. UNCHANGED <<job, req, missed>>
      BY <1>3 DEF CoolDown, Dismiss, ground
    <2>2. rec'[u][j] \in {rec[u][j], Tombstone}
      <3>1. CASE \E v \in User : CoolDown(v)
        BY <3>1 DEF CoolDown
      <3>2. CASE \E v \in User, k \in Job : Dismiss(v, k)
        BY <3>2 DEF Dismiss, TypeOK
      <3> QED
        BY <1>3, <3>1, <3>2
    <2> QED
      BY <2>1, <2>2, JobRowStays DEF JobEditPending
  <1>4. ASSUME NEW k \in Managed, DeleteJob(k)
        PROVE  JobReaches(u, j)'
    <2>1. k \in Job /\ UNCHANGED <<req, missed>>
      BY <1>4, BoundsAssumption DEF DeleteJob
    <2>2. rec'[u][j] = IF j = k THEN NoRow ELSE rec[u][j]
      BY <1>4, <2>1, Removed DEF DeleteJob
    <2>3. j # k => job'[j] = job[j]
      BY <1>4, <2>1 DEF DeleteJob, TypeOK
    <2>4. CASE j = k
      BY <2>2, <2>4 DEF JobReaches, Current
    <2>5. CASE j # k
      BY <2>1, <2>2, <2>3, <2>5, JobRowStays DEF JobEditPending
    <2> QED
      BY <2>4, <2>5
  <1>5. CASE Restart
    <2>1. /\ UNCHANGED <<job, rec>> /\ (j \in missed => j \in missed')
          /\ JobEditPending(j) => j \in missed'
      BY <1>5 DEF Restart, ground
    <2> QED
      BY <2>1, JobRowStays
  <1>6. CASE UNCHANGED vars
    BY <1>6 DEF vars, ground, JobReaches, Current, JobEditPending
  <1> QED
    BY <1>1, <1>2, <1>3, <1>4, <1>5, <1>6 DEF Next

\* A row of a published posting that claims to be current was scored on the posting as
\* it stands, unless its edit is still to be announced, the announcement was lost, or the
\* edit overtook the recompute that wrote the row.
THEOREM JobEditsReach == Spec => []JobEditsReachTheList
  <1>1. Init => JobEditsReachTheList
    BY JobPointwise DEF Init, JobReaches, Current
  <1>2. TypeOK /\ JobEditsReachTheList /\ [Next]_vars => JobEditsReachTheList'
    BY JobEditsReachStep
  <1> QED
    BY <1>1, <1>2, TypeCorrect, PTL DEF Spec

-----------------------------------------------------------------------------
(* Dismissals survive. *)

Excused(j) == job'[j].status = "GONE" \/ \E r \in Request : At(r, "remove") /\ req[r].job = j
Survives(u, j) == rec'[u][j] = Tombstone \/ (rec'[u][j] = NoRow /\ Excused(j))

LEMMA DismissalServed ==
  ASSUME TypeOK, NEW r \in Request, Serve(r),
         NEW u \in User, NEW j \in Job, rec[u][j] = Tombstone
  PROVE  Survives(u, j)
  <1>1. ASSUME NEW k \in Job, WriteOne(r, k)
        PROVE  rec'[u][j] = Tombstone
    <2>1. req[r].user \in User
      BY <1>1, Kinds DEF WriteOne, At
    <2>2. rec' = [rec EXCEPT ![req[r].user][k] = Upsert(r, req[r].user, k)]
      BY <1>1 DEF WriteOne
    <2>3. u = req[r].user /\ j = k => Upsert(r, req[r].user, k) = Tombstone
      BY DEF Upsert
    <2> QED
      BY <2>1, <2>2, <2>3 DEF TypeOK
  <1>2. CASE Drop(r)
    BY <1>2, DropRows DEF Live, Survives
  <1>3. CASE MarkStale(r) \/ MarkStaleForJob(r)
    BY <1>3 DEF MarkStale, MarkStaleForJob, MarkRows, Live, Survives
  <1>4. CASE RemoveForClosedJob(r)
    BY <1>4, RemoveRows DEF RemoveForClosedJob, Survives, Excused
  <1>5. CASE \/ Retrieve(r) \/ Score(r) \/ Reread(r) \/ RecomputeFails(r)
             \/ Embed(r) \/ StoreVector(r) \/ EmbedFails(r) \/ MarkFails(r)
             \/ SaveJob(r) \/ EmbedJob(r) \/ EmbedJobFails(r) \/ RemoveFails(r)
    BY <1>5 DEF Retrieve, Score, Reread, RecomputeFails, Embed, StoreVector, EmbedFails,
                MarkFails, SaveJob, SaveJob_Then, EmbedJob, EmbedJobFails, RemoveFails, Survives
  <1> QED
    BY <1>1, <1>2, <1>3, <1>4, <1>5 DEF Serve, Survives

LEMMA DismissalStep ==
  ASSUME TypeOK, [Next]_vars, NEW u \in User, NEW j \in Job, rec[u][j] = Tombstone
  PROVE  Survives(u, j)
  <1>1. CASE \E r \in Request : Serve(r)
    BY <1>1, DismissalServed
  <1>2. CASE \E r \in Request :
               \/ \E v \in User : BeginRecompute(r, v) \/ Edit(r, v)
               \/ \E k \in Managed, op \in {"publish", "update", "close"} : LoadJob(r, k, op)
    BY <1>2 DEF BeginRecompute, Edit, LoadJob, Survives
  <1>3. CASE \E v \in User : CoolDown(v)
    BY <1>3 DEF CoolDown, Survives
  <1>4. CASE \E v \in User, k \in Job : Dismiss(v, k)
    BY <1>4 DEF Dismiss, Survives, TypeOK
  <1>5. ASSUME NEW k \in Managed, DeleteJob(k)
        PROVE  Survives(u, j)
    <2>1. rec'[u][j] = IF j = k THEN NoRow ELSE rec[u][j]
      BY <1>5, Removed, BoundsAssumption DEF DeleteJob
    <2>2. job'[k].status = "GONE"
      BY <1>5, BoundsAssumption DEF DeleteJob, TypeOK
    <2> QED
      BY <2>1, <2>2 DEF Survives, Excused
  <1>6. CASE Restart \/ UNCHANGED vars
    BY <1>6 DEF Restart, vars, Survives
  <1> QED
    BY <1>1, <1>2, <1>3, <1>4, <1>5, <1>6 DEF Next

\* No step of a recompute, an edit or another dismissal undoes a dismissal.
THEOREM DismissalsStay == Spec => DismissalsSurvive
  <1>1. TypeOK /\ [Next]_vars =>
          [\A u \in User, j \in Job :
             rec[u][j] = Tombstone =>
               \/ rec'[u][j] = Tombstone
               \/ rec'[u][j] = NoRow /\ (job'[j].status = "GONE" \/
                                         \E r \in Request : At(r, "remove") /\ req[r].job = j)]_vars
    BY DismissalStep DEF Survives, Excused
  <1> QED
    BY <1>1, TypeCorrect, PTL DEF Spec, DismissalsSurvive

-----------------------------------------------------------------------------
(* A failure empties no list. *)

\* What a recompute scores and writes, it ranked.
NearInv == \A r \in Request : req[r].pc \in {"score", "write"} => req[r].near # {}

LEMMA NearGoesOn ==
  ASSUME NearInv, NEW r \in Request, \A q \in Request \ {r} : req'[q] = req[q],
         req'[r].pc \in {"score", "write"} => req'[r].near # {}
  PROVE  NearInv'
  BY DEF NearInv

LEMMA NearServed ==
  ASSUME TypeOK, NearInv, NEW r \in Request, Serve(r)
  PROVE  NearInv'
  <1> USE DEF TypeOK
  <1>1. CASE \/ Drop(r) \/ Reread(r) \/ RecomputeFails(r) \/ MarkStale(r) \/ MarkFails(r)
             \/ EmbedJobFails(r) \/ MarkStaleForJob(r) \/ RemoveForClosedJob(r) \/ RemoveFails(r)
    <2>1. CASE Drop(r)
      BY <2>1, NearGoesOn DEF Drop, Ask
    <2>2. CASE ~Drop(r)
      <3>1. Answered(r)
        BY <1>1, <2>2 DEF Reread, RecomputeFails, MarkStale, MarkFails, EmbedJobFails,
                          MarkStaleForJob, RemoveForClosedJob, RemoveFails
      <3> QED
        BY <3>1, NearGoesOn DEF Answered, Idle
    <2> QED
      BY <2>1, <2>2
  <1>2. CASE Embed(r) \/ StoreVector(r) \/ EmbedFails(r)
    <2>1. req[r] \in Editing
      BY <1>2, Kinds DEF Embed, StoreVector, EmbedFails, At
    <2>2. /\ \A q \in Request \ {r} : req'[q] = req[q]
          /\ req'[r].pc \in {"store", "mark"}
      BY <1>2, <2>1 DEF Embed, StoreVector, EmbedFails, GoTo, Editing
    <2> QED
      BY <2>2, NearGoesOn
  <1>3. CASE SaveJob(r) \/ EmbedJob(r)
    <2>1. req[r] \in Posting
      BY <1>3, PostingAt DEF SaveJob, SaveJob_Then, EmbedJob, At
    <2>2. /\ \A q \in Request \ {r} : req'[q] = req[q]
          /\ req'[r].pc \in {"remove", "embedJob", "markJob"}
      BY <1>3, <2>1 DEF SaveJob, SaveJob_Then, EmbedJob, GoTo, Posting
    <2> QED
      BY <2>2, NearGoesOn
  <1>4. CASE Retrieve(r)
    <2>1. PICK near \in SUBSET Published :
            IF near = {} THEN Ask(r, "reread", req[r].user) ELSE Ranked(r, near)
      BY <1>4 DEF Retrieve
    <2>2. /\ \A q \in Request \ {r} : req'[q] = req[q]
          /\ req'[r].pc = "reread" \/ req'[r].near # {}
      BY <2>1 DEF Ranked, Ask
    <2> QED
      BY <2>2, NearGoesOn
  <1>5. CASE Score(r)
    <2>1. req[r].near # {}
      BY <1>5 DEF Score, At, NearInv
    <2>2. /\ \A q \in Request \ {r} : req'[q] = req[q]
          /\ req'[r].near = req[r].near
      BY <1>5 DEF Score
    <2> QED
      BY <2>1, <2>2, NearGoesOn
  <1>6. ASSUME NEW k \in Job, WriteOne(r, k)
        PROVE  NearInv'
    <2>1. At(r, "write") /\ req[r].near # {}
      BY <1>6 DEF WriteOne, At, NearInv
    <2>2. req[r] \in Reading
      <3>1. req[r] \in AnyRequest
        OBVIOUS
      <3> QED
        BY <2>1, <3>1 DEF At, AnyRequest, Idle, Editing, Posting
    <2>3. req' = [req EXCEPT ![r] = [req[r] EXCEPT !.todo = @ \ {k}, !.kept = @ \cup {k}]]
      BY <1>6 DEF WriteOne
    <2>4. [req[r] EXCEPT !.todo = @ \ {k}, !.kept = @ \cup {k}].near = req[r].near
      BY <2>1, <2>2 DEF Reading, At
    <2>5. /\ \A q \in Request \ {r} : req'[q] = req[q]
          /\ req'[r].near = req[r].near
      BY <2>3, <2>4
    <2> QED
      BY <2>1, <2>5, NearGoesOn
  <1> QED
    BY <1>1, <1>2, <1>3, <1>4, <1>5, <1>6 DEF Serve

LEMMA NearStep ==
  ASSUME TypeOK, NearInv, [Next]_vars
  PROVE  NearInv'
  <1>1. CASE \E r \in Request : Serve(r)
    BY <1>1, NearServed
  <1>2. ASSUME NEW r \in Request,
               \/ \E v \in User : BeginRecompute(r, v) \/ Edit(r, v)
               \/ \E k \in Managed, op \in {"publish", "update", "close"} : LoadJob(r, k, op)
        PROVE  NearInv'
    <2>1. /\ \A q \in Request \ {r} : req'[q] = req[q]
          /\ req'[r].pc \in {"retrieve", "embed", "save"}
      BY <1>2 DEF BeginRecompute, Ask, Edit, LoadJob, TypeOK
    <2> QED
      BY <2>1, NearGoesOn
  <1>3. CASE \/ \E v \in User : CoolDown(v) \/ \E k \in Job : Dismiss(v, k)
             \/ \E k \in Managed : DeleteJob(k)
             \/ UNCHANGED vars
    BY <1>3 DEF CoolDown, Dismiss, DeleteJob, vars, NearInv
  <1>4. CASE Restart
    BY <1>4 DEF Restart, NearInv, Idle
  <1> QED
    BY <1>1, <1>2, <1>3, <1>4 DEF Next

\* What can take a row from a user's list.
Taken(u) ==
  \/ \E j \in Job : rec'[u][j] = Tombstone /\ rec[u][j] # Tombstone
  \/ \E j \in Job : job'[j].status # job[j].status
  \/ \E r \in Request : At(r, "remove")
  \/ \E r \in Request : At(r, "write") /\ req[r].user = u /\ req[r].near # {}

LEMMA ListServed ==
  ASSUME TypeOK, NearInv, NEW r \in Request, Serve(r), NEW u \in User, NEW j \in Job, Live(u, j)
  PROVE  Live(u, j)' \/ Taken(u)
  <1>1. ASSUME NEW k \in Job, WriteOne(r, k)
        PROVE  Live(u, j)'
    <2>1. req[r].user \in User
      BY <1>1, Kinds DEF WriteOne, At
    <2>2. rec' = [rec EXCEPT ![req[r].user][k] = Upsert(r, req[r].user, k)]
      BY <1>1 DEF WriteOne
    <2>3. u = req[r].user /\ j = k => Upsert(r, req[r].user, k) \notin {NoRow, Tombstone}
      BY DEF Upsert, Scored, Live, NoRow, Tombstone
    <2> QED
      BY <2>1, <2>2, <2>3 DEF TypeOK, Live
  <1>2. CASE Drop(r)
    <2>1. req[r].user \in User /\ At(r, "write") /\ req[r].near # {}
      BY <1>2, Kinds DEF Drop, At, NearInv
    <2>2. CASE req[r].user = u
      BY <2>1, <2>2 DEF Taken
    <2>3. CASE req[r].user # u
      BY <1>2, <2>1, <2>3 DEF Drop, TypeOK, Live
    <2> QED
      BY <2>2, <2>3
  <1>3. CASE MarkStale(r) \/ MarkStaleForJob(r)
    <2>1. PICK users, jobs : MarkRows(users, jobs)
      BY <1>3 DEF MarkStale, MarkStaleForJob
    <2>2. rec'[u][j] \in {rec[u][j], Stale}
      BY <2>1 DEF MarkRows
    <2> QED
      BY <2>2, Rows DEF Live
  <1>4. CASE RemoveForClosedJob(r)
    BY <1>4 DEF RemoveForClosedJob, Taken
  <1>5. CASE \/ Retrieve(r) \/ Score(r) \/ Reread(r) \/ RecomputeFails(r)
             \/ Embed(r) \/ StoreVector(r) \/ EmbedFails(r) \/ MarkFails(r)
             \/ SaveJob(r) \/ EmbedJob(r) \/ EmbedJobFails(r) \/ RemoveFails(r)
    BY <1>5 DEF Retrieve, Score, Reread, RecomputeFails, Embed, StoreVector, EmbedFails,
                MarkFails, SaveJob, SaveJob_Then, EmbedJob, EmbedJobFails, RemoveFails, Live
  <1> QED
    BY <1>1, <1>2, <1>3, <1>4, <1>5 DEF Serve

LEMMA ListStep ==
  ASSUME TypeOK, NearInv, [Next]_vars, NEW u \in User, NEW j \in Job, Live(u, j)
  PROVE  Live(u, j)' \/ Taken(u)
  <1>1. CASE \E r \in Request : Serve(r)
    BY <1>1, ListServed
  <1>2. CASE \E r \in Request :
               \/ \E v \in User : BeginRecompute(r, v) \/ Edit(r, v)
               \/ \E k \in Managed, op \in {"publish", "update", "close"} : LoadJob(r, k, op)
    BY <1>2 DEF BeginRecompute, Edit, LoadJob, Live
  <1>3. CASE (\E v \in User : CoolDown(v)) \/ Restart \/ UNCHANGED vars
    BY <1>3 DEF CoolDown, Restart, vars, Live
  <1>4. ASSUME NEW v \in User, NEW k \in Job, Dismiss(v, k)
        PROVE  Live(u, j)' \/ Taken(u)
    <2>1. CASE u = v /\ j = k
      BY <1>4, <2>1 DEF Dismiss, Taken, Live, TypeOK
    <2>2. CASE ~(u = v /\ j = k)
      BY <1>4, <2>2 DEF Dismiss, Live, TypeOK
    <2> QED
      BY <2>1, <2>2
  <1>5. ASSUME NEW k \in Managed, DeleteJob(k)
        PROVE  Taken(u)
    <2>1. k \in Job /\ job'[k].status = "GONE" /\ job[k].status # "GONE"
      BY <1>5, BoundsAssumption DEF DeleteJob, TypeOK
    <2> QED
      BY <2>1 DEF Taken
  <1> QED
    BY <1>1, <1>2, <1>3, <1>4, <1>5 DEF Next

\* No failure of the AI service or of a statement, no mark and no restart takes the last row of a
\* user's list: only a dismissal, a change of a posting and a recompute that ranked something do.
THEOREM NothingIsLost == Spec => NothingIsLostToAFailure
  <1>1. Init => NearInv
    BY DEF Init, NearInv, Idle
  <1>2. TypeOK /\ NearInv /\ [Next]_vars => NearInv'
    BY NearStep
  <1>3. TypeOK /\ NearInv /\ [Next]_vars =>
          [\A u \in User :
             (\E j \in Job : Live(u, j)) /\ (\A j \in Job : ~Live(u, j)') =>
               \/ \E j \in Job : rec'[u][j] = Tombstone /\ rec[u][j] # Tombstone
               \/ \E j \in Job : job'[j].status # job[j].status
               \/ \E r \in Request : At(r, "remove")
               \/ \E r \in Request : At(r, "write") /\ req[r].user = u /\ req[r].near # {}]_vars
    BY ListStep DEF Taken
  <1> QED
    BY <1>1, <1>2, <1>3, TypeCorrect, PTL DEF Spec, NothingIsLostToAFailure
=============================================================================
