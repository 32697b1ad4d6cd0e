-------------------------------- MODULE DeltaSync --------------------------------
(***************************************************************************)
(* GET /sync/{resource}: one user's rows of one resource, read by a client    *)
(* that pages through what changed since its watermark while others write.    *)
(*                                                                           *)
(* A write stamps updatedAt when its statement is built and is seen when it    *)
(* commits.  The envelope reads the clock, queries, and answers, in three      *)
(* steps.  Time is in milliseconds, the resolution of a column and a cursor.   *)
(* The client follows the two rules of docs/PWA_SYNC_API.md: the same since     *)
(* while it drains, and the last serverTime once nextCursor is null.           *)
(***************************************************************************)
EXTENDS Naturals, FiniteSets, FiniteSetsExt

CONSTANTS
  Id,          \* row ids: numbers, ids being ordered
  PageLimit,   \* limit
  MaxTime,     \* the last millisecond
  MaxChanges   \* how many writes there are

ASSUME SyncAssumption ==
  /\ Id \subseteq Nat /\ IsFiniteSet(Id) /\ PageLimit \in Nat \ {0} /\ MaxTime \in Nat /\ MaxChanges \in Nat

VARIABLES
  clock,      \* the server's
  row,        \* what is committed
  writing,    \* writes stamped and not yet committed, one of a row at a time
  changes,    \* writes so far
  request,    \* the client's call, as the server works on it
  local,      \* the client's copy: the change it has of each row, or Nothing
  watermark,  \* the client's since, 0 for none
  cursor,     \* the client's nextCursor
  passed,     \* history: the furthest serverTime of a query that ran
  late        \* history: rows whose last write committed behind a query

store == <<row, writing, changes, late>>
client == <<local, watermark, cursor>>
syncVars == <<clock, store, request, client, passed>>

Nothing == 0
NoVersion == [at |-> 0, change |-> Nothing, deleted |-> FALSE]
Start == [at |-> 0, id |-> 0]           \* no cursor
NoCall0 == [pc |-> "idle"]

Exists(r) == row[r].at # 0 /\ ~row[r].deleted

-----------------------------------------------------------------------------
(* The rows: created, updated, deleted softly; or, recommendations, withdrawn. *)

Write(r, deletes) ==
  /\ changes < MaxChanges /\ writing[r] = NoVersion
  /\ ~row[r].deleted /\ (deletes => Exists(r))
  /\ changes' = changes + 1
  /\ writing' = [writing EXCEPT ![r] = [at |-> clock, change |-> changes + 1, deleted |-> deletes]]
  /\ UNCHANGED <<clock, row, late, request, client, passed>>

\* (at, id) in the order of DELTA_ORDER_BY.
Position(r, v) == [at |-> v.at, id |-> r]
Before(p, q) == p.at < q.at \/ (p.at = q.at /\ p.id < q.id)

\* Behind a query that was asked, or behind the end of a page that was read.
Behind(r, v) ==
  \/ v.at <= passed
  \/ ~Before(cursor, Position(r, v))
  \/ request.pc \in {"read", "answered"} /\ ~Before(request.next, Position(r, v))

Commit(r) ==
  /\ writing[r] # NoVersion
  /\ row' = [row EXCEPT ![r] = writing[r]]
  /\ writing' = [writing EXCEPT ![r] = NoVersion]
  /\ late' = IF Behind(r, writing[r]) THEN late \cup {r} ELSE late \ {r}
  /\ UNCHANGED <<clock, changes, request, client, passed>>

RollBack(r) ==
  /\ writing[r] # NoVersion
  /\ writing' = [writing EXCEPT ![r] = NoVersion]
  /\ UNCHANGED <<clock, row, changes, late, request, client, passed>>

\* deleteMany: nothing stays that a delta could report.
Withdraw(r) ==
  /\ Exists(r) /\ writing[r] = NoVersion
  /\ row' = [row EXCEPT ![r] = NoVersion]
  /\ UNCHANGED <<clock, writing, changes, late, request, client, passed>>

-----------------------------------------------------------------------------
(* The call. *)

\* A cursor that does not decode starts the page again.
Ask ==
  /\ request.pc = "idle"
  /\ \E c \in {cursor, Start} : request' = [pc |-> "asked", serverTime |-> clock, since |-> watermark, cursor |-> c]
  /\ UNCHANGED <<clock, store, client, passed>>

\* deltaWhere: strictly after the watermark, strictly after the cursor.
After_ByTime(r, from) == row[r].at > from.at
After(r, from) == Before(from, Position(r, row[r]))
Changed(since, from) == {r \in Id : row[r].at > since /\ After(r, from)}

\* The first rows of a set, in order, at most PageLimit of them.
FirstPage(rs) == {r \in rs : Cardinality({s \in rs : Before(Position(s, row[s]), Position(r, row[r]))}) < PageLimit}
LastOf(rs) == CHOOSE r \in rs : \A s \in rs : ~Before(Position(r, row[r]), Position(s, row[s]))

\* splitDelta: one row more than the page says that there are more.
Read ==
  /\ request.pc = "asked"
  /\ LET found == Changed(request.since, request.cursor)
         page == FirstPage(found)
     IN request' = [pc |-> "read", serverTime |-> request.serverTime,
                    upserts |-> {r \in page : ~row[r].deleted}, deletes |-> {r \in page : row[r].deleted},
                    content |-> [r \in page |-> row[r].change],
                    next |-> IF found = page THEN Start ELSE Position(LastOf(page), row[LastOf(page)])]
  /\ passed' = Max({passed, request.serverTime})
  /\ UNCHANGED <<clock, store, client>>

\* serverTime is the clock before the query, whatever the clock is now.
ServerTime_AfterTheQuery == clock
ServerTime == request.serverTime

Respond ==
  /\ request.pc = "read"
  /\ request' = [request EXCEPT !.pc = "answered", !.serverTime = ServerTime]
  /\ UNCHANGED <<clock, store, client, passed>>

\* Upserts and tombstones; the watermark only when there is no next page.
Apply ==
  /\ request.pc = "answered"
  /\ local' = [r \in Id |-> IF r \in request.deletes THEN Nothing
                            ELSE IF r \in request.upserts THEN request.content[r] ELSE local[r]]
  /\ cursor' = request.next
  /\ watermark' = IF request.next = Start THEN request.serverTime ELSE watermark
  /\ request' = NoCall0
  /\ UNCHANGED <<clock, store, passed>>

\* The call or its answer is lost; the client asks again.
LoseCall ==
  /\ request # NoCall0
  /\ request' = NoCall0
  /\ UNCHANGED <<clock, store, client, passed>>

\* A fresh install: everything again, from the bootstrap.
Reinstall ==
  /\ request.pc = "idle" /\ watermark # 0
  /\ local' = [r \in Id |-> Nothing] /\ watermark' = 0 /\ cursor' = Start
  /\ UNCHANGED <<clock, store, request, passed>>

Tick ==
  /\ clock < MaxTime
  /\ clock' = clock + 1
  /\ UNCHANGED <<store, request, client, passed>>

-----------------------------------------------------------------------------
SyncInit ==
  /\ clock = 1 /\ row = [r \in Id |-> NoVersion] /\ writing = [r \in Id |-> NoVersion]
  /\ changes = 0 /\ request = NoCall0
  /\ local = [r \in Id |-> Nothing] /\ watermark = 0 /\ cursor = Start
  /\ passed = 0 /\ late = {}

SyncNext ==
  \/ \E r \in Id : \/ \E deletes \in BOOLEAN : Write(r, deletes)
                   \/ Commit(r) \/ RollBack(r) \/ Withdraw(r)
  \/ Ask \/ Read \/ Respond \/ Apply \/ LoseCall \/ Reinstall \/ Tick

SyncSpec == SyncInit /\ [][SyncNext]_syncVars

-----------------------------------------------------------------------------
(* Properties. *)

\* What a delta is for: however writes and deletions fall between the pages of a drain, at
\* whatever millisecond, a client whose watermark has passed a row has the row as it is, or
\* has it no more.  Only a write that committed behind a query is lost on it: one stamped no
\* later than the serverTime of a query that had already run, or before the end of a page.
EveryChangeArrives ==
  \A r \in Id \ late :
    row[r].at \in 1..watermark => local[r] = IF row[r].deleted THEN Nothing ELSE row[r].change
=============================================================================
