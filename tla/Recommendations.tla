---------------------------- MODULE Recommendations ----------------------------
(***************************************************************************)
(* The cache of recommended jobs: a table of scores that profile edits and *)
(* job edits mark stale, that a read recomputes when it finds it stale or  *)
(* empty, that dismissals turn into tombstones and that closed postings    *)
(* are removed from.                                                       *)
(*                                                                         *)
(* Nothing here is a transaction: each await is a step, and the requests   *)
(* of one Node process interleave at every one of them.  Which jobs are    *)
(* ranked, and in what order, is left open; what a score was computed FROM *)
(* is kept, as versions of the profile, of its vector and of the job.      *)
(*                                                                         *)
(* An operator named after another with a suffix, as Drop_Everything, is a *)
(* mutated form of it that no action uses.                                 *)
(***************************************************************************)
EXTENDS Naturals, FiniteSets

CONSTANTS
  User,        \* candidates
  Job,         \* postings
  Managed,     \* those an employer works on; the others stay as they were ingested
  Request,     \* requests in progress at a time
  Limit,       \* jobs in an answer (50 in the code)
  MaxEdits,    \* edits of a profile
  MaxJobEdits  \* edits of a posting

ASSUME BoundsAssumption ==
  /\ Limit \in Nat \ {0} /\ MaxEdits \in Nat /\ MaxJobEdits \in Nat
  /\ Managed \subseteq Job /\ User \cap Job = {}

VARIABLES
  profile,  \* the version of each user's profile
  vector,   \* the version its embedding was built from
  job,      \* rows of Job
  rec,      \* rows of Recommendation
  hold,     \* users whose recompute is held off, in the memory of the process
  req,      \* requests in progress
  missed    \* history: the users and jobs whose last change was never marked

ground == <<profile, vector, job>>
vars   == <<ground, rec, hold, req, missed>>

-----------------------------------------------------------------------------
(* Rows. *)

Status == {"DRAFT", "PUBLISHED", "CLOSED", "GONE"}

\* What a current score was computed from; `late` is history: the inputs that had
\* already changed when the row was written.  Nobody reads the inputs of a score
\* that is stale or dismissed.
Fresh == [prof : Nat, vec : Nat, ver : Nat, late : SUBSET {"profile", "job"}]
Stale     == [late |-> {"stale"}]
Tombstone == [late |-> {"dismissed"}]
NoRow     == [late |-> {"none"}]

Live(u, j) == rec[u][j] \notin {NoRow, Tombstone}
Current(u, j) == rec[u][j] \notin {NoRow, Tombstone, Stale}

Published == {j \in Job : job[j].status = "PUBLISHED"}

\* RecommendationsQueryService.read, but for its limit.
List(u) == {j \in Published : Live(u, j)}
Pages(S) == {T \in SUBSET S : \/ T = S /\ Cardinality(S) <= Limit
                              \/ Cardinality(T) = Limit}

Idle == [pc |-> "idle"]
Reading == [pc : {"retrieve", "reread"}, user : User]
             \cup [pc : {"score"}, user : User, near : SUBSET Job, vec : Nat]
             \cup [pc : {"write"}, user : User, near : SUBSET Job, vec : Nat, prof : Nat,
                   seen : [Job -> Nat], todo : SUBSET Job, kept : SUBSET Job]
Editing == [pc : {"embed", "store", "mark"}, user : User, prof : Nat]
Posting == {q \in [pc : {"save", "embedJob", "markJob", "remove"}, job : Job,
                    op : {"publish", "update", "close"},
                    status : {"DRAFT", "PUBLISHED", "CLOSED"}, ver : Nat] :
              q.op = "close" <=> q.status = "CLOSED"}
AnyRequest == {Idle} \cup Reading \cup Editing \cup Posting

At(r, pc)   == req[r].pc = pc
GoTo(r, pc) == req' = [req EXCEPT ![r].pc = pc]
Ask(r, pc, u) == req' = [req EXCEPT ![r] = [pc |-> pc, user |-> u]]
Answered(r) == req' = [req EXCEPT ![r] = Idle]

Init ==
  /\ profile = [u \in User |-> 0]
  /\ vector  = [u \in User |-> 0]
  /\ job = [j \in Job |-> [status |-> IF j \in Managed THEN "DRAFT" ELSE "PUBLISHED",
                            ver |-> 0, last |-> 0]]
  /\ rec     = [u \in User |-> [j \in Job |-> NoRow]]
  /\ hold    = {}
  /\ req     = [r \in Request |-> Idle]
  /\ missed  = {}

-----------------------------------------------------------------------------
(* GET /recommendations *)

NeedsRecompute(u, page) == page = {} \/ \E j \in page : rec[u][j] = Stale

\* A read of current rows, or of any rows while the user is held off, answers
\* with them and changes nothing.
BeginRecompute(r, u) ==
  /\ At(r, "idle")
  /\ u \notin hold
  /\ \E page \in Pages(List(u)) : NeedsRecompute(u, page)
  /\ Ask(r, "retrieve", u)
  /\ UNCHANGED <<ground, rec, hold, missed>>

\* The retrievers and the reranker return published jobs, against the stored
\* vector; with none the recompute writes nothing and the user is held off.
Ranked(r, near) ==
  req' = [req EXCEPT ![r] = [pc |-> "score", user |-> req[r].user, near |-> near,
                             vec |-> vector[req[r].user]]]
Retrieve_GoesOn(r) ==
  /\ At(r, "retrieve")
  /\ \E near \in SUBSET Published : Cardinality(near) <= Limit /\ Ranked(r, near)
  /\ UNCHANGED <<ground, rec, hold, missed>>
Retrieve(r) ==
  /\ At(r, "retrieve")
  /\ \E near \in SUBSET Published :
       /\ Cardinality(near) <= Limit
       /\ IF near = {}
            THEN hold' = hold \cup {req[r].user} /\ Ask(r, "reread", req[r].user)
            ELSE UNCHANGED hold /\ Ranked(r, near)
  /\ UNCHANGED <<ground, rec, missed>>

\* The profile and the jobs are read; a job deleted since is left out.
Score(r) ==
  LET found == {j \in req[r].near : job[j].status # "GONE"} IN
  /\ At(r, "score")
  /\ req' = [req EXCEPT ![r] =
               [pc |-> "write", user |-> req[r].user, near |-> req[r].near,
                vec |-> req[r].vec, prof |-> profile[req[r].user],
                seen |-> [j \in Job |-> IF j \in found THEN job[j].ver ELSE 0],
                todo |-> found, kept |-> {}]]
  /\ UNCHANGED <<ground, rec, hold, missed>>

\* The inputs of a score that have changed since they were read.
Outrun(r, u, j) ==
  (IF req[r].prof = profile[u] /\ req[r].vec = vector[u] THEN {} ELSE {"profile"})
  \cup (IF req[r].seen[j] = job[j].ver THEN {} ELSE {"job"})

Scored(r, u, j) ==
  [prof |-> req[r].prof, vec |-> req[r].vec, ver |-> req[r].seen[j], late |-> Outrun(r, u, j)]

\* The upsert of one row: it clears staleAt and leaves dismissedAt alone.
Upsert_Revives(r, u, j) == Scored(r, u, j)
Upsert(r, u, j) == IF rec[u][j] = Tombstone THEN Tombstone ELSE Scored(r, u, j)

WriteOne(r, j) ==
  LET u == req[r].user IN
  /\ At(r, "write") /\ j \in req[r].todo
  /\ job[j].status # "GONE"
  /\ rec' = [rec EXCEPT ![u][j] = Upsert(r, u, j)]
  /\ req' = [req EXCEPT ![r].todo = @ \ {j}, ![r].kept = @ \cup {j}]
  /\ UNCHANGED <<ground, hold, missed>>

\* Rows that did not survive the recompute go, but for the tombstones.
Drop(r) ==
  LET u == req[r].user IN
  /\ At(r, "write") /\ req[r].todo = {}
  /\ rec' = [rec EXCEPT ![u] =
               [j \in Job |-> IF Live(u, j) /\ j \notin req[r].kept THEN NoRow ELSE rec[u][j]]]
  /\ hold' = IF req[r].kept = {} THEN hold \cup {u} ELSE hold \ {u}
  /\ Ask(r, "reread", u)
  /\ UNCHANGED <<ground, missed>>

Reread(r) ==
  /\ At(r, "reread")
  /\ Answered(r)
  /\ UNCHANGED <<ground, rec, hold, missed>>

\* A statement or the AI service throws, as the upsert for a deleted job does:
\* the rows of the first read are the answer.
RecomputeFails(r) ==
  /\ req[r] \in Reading
  /\ hold' = hold \cup {req[r].user}
  /\ Answered(r)
  /\ UNCHANGED <<ground, rec, missed>>

CoolDown(u) ==
  /\ u \in hold
  /\ hold' = hold \ {u}
  /\ UNCHANGED <<ground, rec, req, missed>>

-----------------------------------------------------------------------------
(* Dismissal; of a job with no live row it is a no-op, not an error. *)

Dismiss(u, j) ==
  /\ Live(u, j)
  /\ rec' = [rec EXCEPT ![u][j] = Tombstone]
  /\ UNCHANGED <<ground, hold, req, missed>>

-----------------------------------------------------------------------------
(* A change of what a candidate is scored on: the profile, its preferences, *)
(* the parsed or the default resume.  The listener rebuilds the vector and  *)
(* then marks the user's rows, whether the vector was rebuilt or not.       *)

MarkRows(users, jobs) ==
  rec' = [u \in User |-> [j \in Job |->
            IF Live(u, j) /\ u \in users /\ j \in jobs THEN Stale ELSE rec[u][j]]]

Edit(r, u) ==
  /\ At(r, "idle") /\ profile[u] < MaxEdits
  /\ profile' = [profile EXCEPT ![u] = @ + 1]
  /\ req' = [req EXCEPT ![r] = [pc |-> "embed", user |-> u, prof |-> 0]]
  /\ UNCHANGED <<vector, job, rec, hold, missed>>

\* embedCandidate reads the profile, then waits for the AI service.
Embed(r) ==
  /\ At(r, "embed")
  /\ req' = [req EXCEPT ![r].pc = "store", ![r].prof = profile[req[r].user]]
  /\ UNCHANGED <<ground, rec, hold, missed>>

StoreVector(r) ==
  /\ At(r, "store")
  /\ vector' = [vector EXCEPT ![req[r].user] = req[r].prof]
  /\ GoTo(r, "mark")
  /\ UNCHANGED <<profile, job, rec, hold, missed>>

\* The old vector stays.
EmbedFails_Chained(r) ==
  /\ At(r, "store")
  /\ Answered(r)
  /\ UNCHANGED <<ground, rec, hold, missed>>
EmbedFails(r) ==
  /\ At(r, "store")
  /\ GoTo(r, "mark")
  /\ UNCHANGED <<ground, rec, hold, missed>>

MarkStale(r) ==
  /\ At(r, "mark")
  /\ MarkRows({req[r].user}, Job)
  /\ missed' = missed \ {req[r].user}
  /\ Answered(r)
  /\ UNCHANGED <<ground, hold>>

\* The listener swallows the error.
MarkFails(r) ==
  /\ At(r, "mark")
  /\ missed' = missed \cup {req[r].user}
  /\ Answered(r)
  /\ UNCHANGED <<ground, rec, hold>>

-----------------------------------------------------------------------------
(* Postings: publish, update and close load the whole row, decide on it and *)
(* save all of it.                                                          *)

After(op, status) ==
  CASE op = "publish" /\ status = "DRAFT"                  -> {"PUBLISHED"}
    [] op = "update"  /\ status \in {"DRAFT", "PUBLISHED"} -> {status}
    [] op = "close"   /\ status = "PUBLISHED"              -> {"CLOSED"}
    [] OTHER -> {}

LoadJob(r, j, op) ==
  /\ At(r, "idle")
  /\ op = "update" => job[j].last < MaxJobEdits
  /\ \E status \in After(op, job[j].status) :
       req' = [req EXCEPT ![r] = [pc |-> "save", job |-> j, op |-> op, status |-> status,
                                  ver |-> job[j].ver]]
  /\ UNCHANGED <<ground, rec, hold, missed>>

\* An update gives the row a content of its own; the others put back the one they
\* loaded, whatever was saved since.
SaveJob_Then(r, listener) ==
  LET q == req[r]
      new == job[q.job].last + 1
  IN
  /\ At(r, "save")
  /\ job' = [job EXCEPT ![q.job] =
               IF q.op = "update" THEN [status |-> q.status, ver |-> new, last |-> new]
                                  ELSE [@ EXCEPT !.status = q.status, !.ver = q.ver]]
  /\ listener
  /\ UNCHANGED <<profile, vector, rec, hold, missed>>

SaveJob_Quietly(r) ==
  SaveJob_Then(r, CASE req[r].op = "close"   -> GoTo(r, "remove")
                    [] req[r].op = "publish" -> GoTo(r, "embedJob")
                    [] OTHER                 -> Answered(r))
SaveJob(r) ==
  SaveJob_Then(r, GoTo(r, IF req[r].op = "close" THEN "remove" ELSE "embedJob"))

EmbedJob(r) ==
  /\ At(r, "embedJob")
  /\ GoTo(r, "markJob")
  /\ UNCHANGED <<ground, rec, hold, missed>>

\* Without a new vector the rows are not marked either.
EmbedJobFails(r) ==
  /\ req[r].pc \in {"embedJob", "markJob"}
  /\ missed' = missed \cup {req[r].job}
  /\ Answered(r)
  /\ UNCHANGED <<ground, rec, hold>>

MarkStaleForJob(r) ==
  /\ At(r, "markJob")
  /\ MarkRows(User, {req[r].job})
  /\ missed' = missed \ {req[r].job}
  /\ Answered(r)
  /\ UNCHANGED <<ground, hold>>

\* All the rows of a closed posting, the tombstones included.
RemoveForClosedJob(r) ==
  /\ At(r, "remove")
  /\ rec' = [u \in User |-> [rec[u] EXCEPT ![req[r].job] = NoRow]]
  /\ Answered(r)
  /\ UNCHANGED <<ground, hold, missed>>

RemoveFails(r) ==
  /\ At(r, "remove")
  /\ Answered(r)
  /\ UNCHANGED <<ground, rec, hold, missed>>

\* Rows of Recommendation go with the row of Job.
DeleteJob(j) ==
  /\ job[j].status # "GONE"
  /\ job' = [job EXCEPT ![j].status = "GONE"]
  /\ rec' = [u \in User |-> [rec[u] EXCEPT ![j] = NoRow]]
  /\ UNCHANGED <<profile, vector, hold, req, missed>>

-----------------------------------------------------------------------------
\* A change saved whose rows have yet to be marked.
EditPending(u)    == \E r \in Request : req[r] \in Editing /\ req[r].user = u
JobEditPending(j) == \E r \in Request : req[r].pc \in {"embedJob", "markJob"} /\ req[r].job = j

\* The process dies: every request with it, and the memory of who is held off.
Restart ==
  /\ req' = [r \in Request |-> Idle]
  /\ hold' = {}
  /\ missed' = missed \cup {u \in User : EditPending(u)} \cup {j \in Job : JobEditPending(j)}
  /\ UNCHANGED <<ground, rec>>

Serve(r) ==
  \/ Retrieve(r) \/ Score(r) \/ (\E j \in Job : WriteOne(r, j)) \/ Drop(r) \/ Reread(r)
  \/ RecomputeFails(r)
  \/ Embed(r) \/ StoreVector(r) \/ EmbedFails(r) \/ MarkStale(r) \/ MarkFails(r)
  \/ SaveJob(r) \/ EmbedJob(r) \/ EmbedJobFails(r) \/ MarkStaleForJob(r)
  \/ RemoveForClosedJob(r) \/ RemoveFails(r)

Next ==
  \/ \E r \in Request :
       \/ Serve(r)
       \/ \E u \in User : BeginRecompute(r, u) \/ Edit(r, u)
       \/ \E j \in Managed, op \in {"publish", "update", "close"} : LoadJob(r, j, op)
  \/ \E u \in User : CoolDown(u) \/ \E j \in Job : Dismiss(u, j)
  \/ \E j \in Managed : DeleteJob(j)
  \/ Restart

Spec == Init /\ [][Next]_vars

-----------------------------------------------------------------------------
(* Properties. *)

\* Every variable has its type; no row outlives its job (the foreign key), and
\* a request only has rows to write among those it ranked.
TypeOK ==
  /\ profile \in [User -> Nat] /\ vector \in [User -> Nat]
  /\ job \in [Job -> [status : Status, ver : Nat, last : Nat]]
  /\ rec \in [User -> [Job -> Fresh \cup {Stale, Tombstone, NoRow}]]
  /\ hold \subseteq User
  /\ req \in [Request -> AnyRequest]
  /\ missed \subseteq User \cup Job
  /\ \A u \in User, j \in Job : job[j].status = "GONE" => rec[u][j] = NoRow
  /\ \A r \in Request : At(r, "write") => req[r].todo \cup req[r].kept \subseteq req[r].near

\* A row that claims to be current was scored on the profile and the vector that
\* are stored, unless an edit is still on its way to mark it, the mark of the last
\* edit was lost, or the row was written by a recompute the edit had overtaken.
\* This is what UserProfileUpdatedListener's order (vector, then mark, whatever
\* became of the vector) is for.
EditsReachTheList ==
  \A u \in User, j \in Job :
    /\ Current(u, j)
    /\ rec[u][j].prof # profile[u] \/ rec[u][j].vec # vector[u]
    => EditPending(u) \/ u \in missed \/ "profile" \in rec[u][j].late

\* The same of a posting's own content, for the jobs a list can show: markStaleForJob
\* catches every row but those of an edit that could not be embedded.
JobEditsReachTheList ==
  \A u \in User : \A j \in List(u) :
    Current(u, j) /\ rec[u][j].ver # job[j].ver
    => JobEditPending(j) \/ j \in missed \/ "job" \in rec[u][j].late

\* No recompute, whatever it overlaps, undoes a dismissal: the tombstone stays
\* until its posting is closed or deleted.
DismissalsSurvive ==
  [][\A u \in User, j \in Job :
       rec[u][j] = Tombstone =>
         \/ rec'[u][j] = Tombstone
         \/ rec'[u][j] = NoRow /\ (job'[j].status = "GONE" \/
                                   \E r \in Request : At(r, "remove") /\ req[r].job = j)]_vars

\* "A failed recompute must not turn slightly old matches into no matches": a
\* user's rows run out only when the last is dismissed, closed or deleted, or when
\* a recompute that ranked something drops what it did not rank.
NothingIsLostToAFailure ==
  [][\A u \in User :
       (\E j \in Job : Live(u, j)) /\ (\A j \in Job : ~Live(u, j)') =>
         \/ \E j \in Job : rec'[u][j] = Tombstone /\ rec[u][j] # Tombstone
         \/ \E j \in Job : job'[j].status # job[j].status
         \/ \E r \in Request : At(r, "remove")
         \/ \E r \in Request : At(r, "write") /\ req[r].user = u /\ req[r].near # {}]_vars
=============================================================================
