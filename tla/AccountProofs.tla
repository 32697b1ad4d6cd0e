------------------------------ MODULE AccountProofs ------------------------------
(***************************************************************************)
(* Theorems about AccountServices: for any accounts, addresses, requests,  *)
(* devices and administrators, what the rows of a user, the cache of them, *)
(* the tokens and bars of a login, a user's own sections and bookmarks and *)
(* the administrators' log promise.                                        *)
(*                                                                         *)
(* Each part is proved on its own, from the invariant of that part; the    *)
(* others rest, so that only the steps of the part exercised have to be    *)
(* looked at.                                                              *)
(***************************************************************************)
EXTENDS AccountServices, FiniteSetTheorems, TLAPS

-----------------------------------------------------------------------------
(* The rows of User and their cache. *)

\* What a call has read: enough of it to know which rows it may write, and what.
Fills == UNION {[S -> Row] : S \in SUBSET Account}
QueryState ==
  [kind : Kind, pc : {"find", "fill", "save", "drop", "write"}, n : Number,
   address : Address \cup {Released, Nobody}, id : Account \cup {Nobody}, given : Nat,
   sub : Subject \cup {Unlinked}, held : Row \cup {NoRow},
   fill : Fills, keyed : Account \cup {Nobody}]

RowTypes ==
  /\ row \in [Account -> Row \cup {NoRow}] /\ entity \in [Account -> Row \cup {NoRow}]
  /\ lookup \in [Address -> Account \cup {Nobody}]
  /\ request \in [Request -> QueryState \cup {Idle}] /\ number \in Number

\* A row whose password came with the code that verified it, or would verify it, or was taken on trust.
Owned(r) ==
  /\ r.verified => r.pw \in proven \cup onTrust \cup {0}
  /\ ~r.verified /\ r.code # 0 => <<r.code, r.pw>> \in paired \/ r.pw \in onTrust
RowsOwned ==
  /\ \A u \in Account : Owned(row[u]) /\ Owned(entity[u])
  /\ \A c \in Request : request[c] # Idle =>
       /\ Owned(request[c].held)
       /\ \A u \in DOMAIN request[c].fill : Owned(request[c].fill[u])

\* What the steps of a call rely on.
QueryOK(q) ==
  /\ q.kind \in ByRow \cup {"me"} /\ q.pc \in {"find", "write", "drop"} =>
       q.id \in Account /\ row[q.id] # NoRow
  /\ q.kind \notin ByRow \cup {"me"} => q.address \in Address
  /\ q.pc = "fill" => q.kind \notin ByRow
  /\ q.pc = "save" => q.kind \notin ByRow
  /\ q.pc \in {"fill", "save"} /\ q.id # Nobody => q.id \in Account /\ q.held \in Row /\ row[q.id] # NoRow
  /\ q.pc = "drop" => q.id \in Account
  /\ \A u \in DOMAIN q.fill : row[u] # NoRow
QueriesOK == \A c \in Request : request[c] # Idle => QueryOK(request[c])

\* A row read to be cached is the table's until somebody writes it, which is then on record.
FillsCurrent ==
  \A c \in Request : request[c].pc = "fill" =>
    \A u \in DOMAIN request[c].fill : u \in raced \/ request[c].fill[u] = row[u]

\* No row is cached that is not there.
CachedRowsExist == \A u \in Account : entity[u] # NoRow => row[u] # NoRow

ClosedRowsStay ==
  \A u \in closed : u \in Account /\ row[u] # NoRow /\ (u \notin reopened => row[u].status # "ACTIVE")

AccountsInv ==
  /\ RowTypes /\ QueriesOK /\ RowsOwned /\ FillsCurrent /\ CacheIsCurrentUnlessRaced
  /\ CachedRowsExist /\ ClosedRowsStay

-----------------------------------------------------------------------------
(* Rows. *)

LEMMA RowKinds ==
  /\ NoRow \notin Row /\ ~NoRow.verified /\ NoRow.code = 0 /\ NoRow.status = "ACTIVE"
  /\ \A a \in Address : NewRow(a) \in Row /\ ~NewRow(a).verified /\ NewRow(a).code = 0
  /\ \A r \in Row : r # NoRow
  BY AccountsAssumption DEF NoRow, NewRow, Row, Nobody, Released, Number

LEMMA IdleApart == Idle \notin QueryState /\ Idle.pc = "idle"
  <1>1. Idle.pc = "idle" /\ \A q \in QueryState : q.pc # "idle"
    BY DEF Idle, QueryState
  <1> QED BY <1>1

LEMMA FillsFit == \A f \in Fills : DOMAIN f \subseteq Account /\ \A u \in DOMAIN f : f[u] \in Row
  BY DEF Fills

LEMMA EmptyFill == Nothing \in Fills /\ DOMAIN Nothing = {}
  <1>1. Nothing \in [{} -> Row]
    BY DEF Nothing
  <1> QED BY <1>1 DEF Nothing, Fills

\* What a handler saves is a row, owned with what it mails, proves or trusts whenever what it was
\* made from was.
OwnedAfter(q, e, r) ==
  /\ r.verified => r.pw \in proven \cup onTrust \cup Proves(q) \cup Trusts(q, e) \cup {0}
  /\ ~r.verified /\ r.code # 0 =>
       <<r.code, r.pw>> \in paired \cup Mails(q, e) \/ r.pw \in onTrust \cup Trusts(q, e)

LEMMA OutcomeOwned ==
  ASSUME NEW q \in QueryState, NEW e \in Row, NEW found \in BOOLEAN, Owned(e), ~found => ~e.verified,
         Outcome(q, e, found) # Refused
  PROVE  Outcome(q, e, found) \in Row /\ OwnedAfter(q, e, Outcome(q, e, found))
  <1> DEFINE r == Outcome(q, e, found)
  <1>0. q.n \in Number /\ 0 \in Number /\ q.sub \in Subject \cup {Unlinked} /\ e.pw \in Number
    BY AccountsAssumption DEF QueryState, Number, Row
  <1>1. CASE q.kind = "register"
    <2>1. r = [e EXCEPT !.pw = q.n, !.code = q.n] /\ ~e.verified /\ Mails(q, e) = {<<q.n, q.n>>}
      BY <1>1 DEF Outcome, Register, Mails
    <2> QED BY <2>1, <1>0 DEF Row, OwnedAfter
  <1>2. CASE q.kind = "resend"
    <2>1. r = [e EXCEPT !.code = q.n] /\ ~e.verified /\ Mails(q, e) = {<<q.n, e.pw>>}
      BY <1>2 DEF Outcome, ResendVerification, Mails
    <2> QED BY <2>1, <1>0 DEF Row, OwnedAfter
  <1>3. CASE q.kind = "verify"
    <2>1. r = [e EXCEPT !.verified = TRUE, !.code = 0] /\ ~e.verified /\ e.code # 0 /\ e.code = q.given
      BY <1>3 DEF Outcome, VerifyEmail
    <2>2. <<q.given, e.pw>> \in paired => e.pw \in Proves(q)
      BY <1>0, <1>3 DEF Proves
    <2>3. e.pw \in onTrust \cup Proves(q)
      BY <2>1, <2>2 DEF Owned
    <2> QED BY <2>1, <2>3, <1>0 DEF Row, OwnedAfter
  <1>4. CASE q.kind = "login"
    <2>1. r = e
      BY <1>4 DEF Outcome, Login
    <2> QED BY <2>1 DEF Owned, OwnedAfter
  <1>5. CASE q.kind = "google"
    <2>1. r = e \/ r = [e EXCEPT !.google = q.sub, !.verified = TRUE, !.code = IF e.verified THEN @ ELSE 0]
      BY <1>5 DEF Outcome, GoogleLogin
    <2>2. e.verified \/ Trusts(q, e) = {e.pw}
      BY <1>5 DEF Trusts
    <2>3. CASE r = e
      BY <2>3 DEF Owned, OwnedAfter
    <2>4. CASE r = [e EXCEPT !.google = q.sub, !.verified = TRUE, !.code = IF e.verified THEN @ ELSE 0]
      BY <2>2, <2>4, <1>0 DEF Row, Owned, OwnedAfter
    <2> QED BY <2>1, <2>3, <2>4
  <1>6. CASE q.kind = "askReset"
    <2>1. r = [e EXCEPT !.reset = q.n]
      BY <1>6 DEF Outcome, AskReset
    <2> QED BY <2>1, <1>0 DEF Row, Owned, OwnedAfter
  <1>7. CASE q.kind = "checkReset"
    <2>1. r = [e EXCEPT !.reset = 0]
      BY <1>7 DEF Outcome, CheckReset
    <2> QED BY <2>1, <1>0 DEF Row, Owned, OwnedAfter
  <1>8. CASE q.kind = "resetPassword"
    <2>1. r = [e EXCEPT !.pw = q.n, !.reset = 0] /\ Trusts(q, e) = {q.n}
      BY <1>8 DEF Outcome, ResetPassword, Trusts
    <2> QED BY <2>1, <1>0 DEF Row, OwnedAfter
  <1>9. CASE q.kind \in ByRow \cup {"me"}
    BY <1>9 DEF Outcome, ByRow
  <1> QED BY <1>1, <1>2, <1>3, <1>4, <1>5, <1>6, <1>7, <1>8, <1>9 DEF QueryState, Kind, ByRow

-----------------------------------------------------------------------------
(* What a step leaves alone. *)

RowsKept == \A u \in Account : row[u] # NoRow => row'[u] # NoRow

\* The other calls go on as they were.
LEMMA QueryFrame ==
  ASSUME QueriesOK, NEW c \in Request, NEW k, request \in [Request -> QueryState \cup {Idle}],
         request' = [request EXCEPT ![c] = k], RowsKept, k # Idle => QueryOK(k)'
  PROVE  QueriesOK'
  <1> SUFFICES ASSUME NEW d \in Request PROVE (request[d] # Idle => QueryOK(request[d]))'
    BY DEF QueriesOK
  <1>1. CASE d = c
    BY <1>1
  <1>2. CASE d # c
    <2> SUFFICES ASSUME request[d] # Idle PROVE QueryOK(request[d])'
      BY <1>2
    <2> PICK q \in QueryState : q = request[d]
      BY <1>2
    <2>1. request'[d] = q /\ QueryOK(q)
      BY <1>2 DEF QueriesOK
    <2>2. QueryOK(q)'
      <3>1. DOMAIN q.fill \subseteq Account
        BY FillsFit DEF QueryState
      <3> QED BY <2>1, <3>1 DEF QueryOK, RowsKept, QueryState
    <2> QED BY <2>1, <2>2
  <1> QED BY <1>1, <1>2

\* So do the passwords, once paired, proved or trusted.
Further == paired \subseteq paired' /\ proven \subseteq proven' /\ onTrust \subseteq onTrust'

LEMMA OwnedFrame ==
  ASSUME RowsOwned, NEW c \in Request, NEW k, request \in [Request -> QueryState \cup {Idle}],
         request' = [request EXCEPT ![c] = k], Further,
         k # Idle => Owned(k.held)' /\ \A u \in DOMAIN k.fill : Owned(k.fill[u])',
         \A u \in Account : Owned(row[u])' /\ Owned(entity[u])'
  PROVE  RowsOwned'
  <1>1. ASSUME NEW d \in Request
        PROVE  (request[d] # Idle => /\ Owned(request[d].held)
                                     /\ \A u \in DOMAIN request[d].fill : Owned(request[d].fill[u]))'
    <2>1. CASE d = c
      BY <2>1 DEF Owned
    <2>2. CASE d # c
      <3>1. request'[d] = request[d]
        BY <2>2
      <3> QED BY <3>1 DEF RowsOwned, Owned, Further
    <2> QED BY <2>1, <2>2
  <1> QED BY <1>1 DEF RowsOwned

CallBecomes(c, k) == request' = [request EXCEPT ![c] = k]
Fresh(q) == q # Idle => /\ QueryOK(q) /\ Owned(q.held)
                        /\ \A u \in DOMAIN q.fill : Owned(q.fill[u])

\* A step that reads, arrives or gives up.
LEMMA ReadingKeeps ==
  ASSUME AccountsInv, NEW c \in Request, NEW k \in QueryState \cup {Idle}, CallBecomes(c, k),
         request[c].pc # "drop", UNCHANGED <<row, entity, lookup, accountHistory>>, number' \in Number, Fresh(k),
         k.pc = "fill" => \A u \in DOMAIN k.fill : k.fill[u] = row[u]
  PROVE  AccountsInv'
  <1> USE DEF AccountsInv, CallBecomes, accountHistory
  <1>0. request \in [Request -> QueryState \cup {Idle}]
    BY DEF RowTypes
  <1>1. RowTypes'
    BY DEF RowTypes
  <1>2. QueriesOK'
    <2>1. k # Idle => QueryOK(k)'
      BY DEF Fresh, QueryOK
    <2> QED BY <1>0, <2>1, QueryFrame DEF RowsKept
  <1>3. RowsOwned'
    <2>1. k # Idle => Owned(k.held)' /\ \A u \in DOMAIN k.fill : Owned(k.fill[u])'
      BY DEF Fresh, Owned
    <2>2. \A u \in Account : Owned(row[u])' /\ Owned(entity[u])'
      BY DEF RowsOwned, Owned
    <2> QED BY <1>0, <2>1, <2>2, OwnedFrame DEF Further
  <1>4. FillsCurrent'
    BY <1>0 DEF FillsCurrent
  <1>5. CacheIsCurrentUnlessRaced'
    <2> SUFFICES ASSUME NEW u \in Account \ (raced \cup unheard), entity[u] \notin {NoRow, row[u]}
                 PROVE  \E d \in Request : request'[d].pc = "drop" /\ request'[d].id = u
      BY DEF CacheIsCurrentUnlessRaced
    <2> PICK d \in Request : request[d].pc = "drop" /\ request[d].id = u
      BY DEF CacheIsCurrentUnlessRaced
    <2> QED BY <1>0
  <1>6. ClosedRowsStay' /\ CachedRowsExist'
    BY DEF ClosedRowsStay, CachedRowsExist
  <1> QED BY <1>1, <1>2, <1>3, <1>4, <1>5, <1>6

\* A step that writes the row u, which it drops from the cache afterwards or is known not to.
LEMMA WritingKeeps ==
  ASSUME AccountsInv, NEW c \in Request, NEW k \in QueryState \cup {Idle}, CallBecomes(c, k),
         NEW u \in Account, NEW r \in Row, row' = [row EXCEPT ![u] = r], Notes(c, u),
         UNCHANGED <<entity, lookup, number>>, request[c].pc \notin {"drop", "fill"},
         (k.pc = "drop" /\ k.id = u) \/ (k = Idle /\ u \in unheard'),
         unheard \subseteq unheard', Further, Owned(r)', Fresh(k)', ClosedRowsStay'
  PROVE  AccountsInv'
  <1> USE DEF AccountsInv, CallBecomes
  <1>0. request \in [Request -> QueryState \cup {Idle}] /\ row \in [Account -> Row \cup {NoRow}] /\ raced \subseteq raced'
    BY DEF RowTypes, Notes
  <1>1. RowTypes'
    BY DEF RowTypes
  <1>2. QueriesOK'
    <2>1. RowsKept
      BY RowKinds, <1>0 DEF RowsKept
    <2>2. k # Idle => QueryOK(k)'
      BY DEF Fresh
    <2> QED BY <1>0, <2>1, <2>2, QueryFrame
  <1>3. RowsOwned'
    <2>1. k # Idle => Owned(k.held)' /\ \A v \in DOMAIN k.fill : Owned(k.fill[v])'
      BY DEF Fresh
    <2>2. \A v \in Account : Owned(row[v])' /\ Owned(entity[v])'
      <3> TAKE v \in Account
      <3>1. Owned(entity[v])' /\ (v # u => Owned(row[v])')
        BY <1>0 DEF RowsOwned, Owned, Further
      <3>2. CASE v = u
        BY <3>1, <3>2, <1>0 DEF Owned
      <3> QED BY <3>1, <3>2
    <2> QED BY <1>0, <2>1, <2>2, OwnedFrame
  <1>4. FillsCurrent'
    <2> SUFFICES ASSUME NEW d \in Request, request'[d].pc = "fill", NEW v \in DOMAIN request'[d].fill, v \notin raced'
                 PROVE  request'[d].fill[v] = row'[v]
      BY DEF FillsCurrent
    <2>1. d # c /\ request'[d] = request[d]
      BY <1>0, IdleApart
    <2>2. v # u
      BY <2>1 DEF Notes, Holds
    <2> QED BY <2>1, <2>2, <1>0 DEF FillsCurrent
  <1>5. CacheIsCurrentUnlessRaced'
    <2> SUFFICES ASSUME NEW v \in Account, v \notin raced', v \notin unheard', entity[v] \notin {NoRow, row'[v]}
                 PROVE  \E d \in Request : request'[d].pc = "drop" /\ request'[d].id = v
      BY DEF CacheIsCurrentUnlessRaced
    <2>1. CASE v = u
      BY <2>1, <1>0
    <2>2. CASE v # u
      <3> PICK d \in Request : request[d].pc = "drop" /\ request[d].id = v
        BY <2>2, <1>0 DEF CacheIsCurrentUnlessRaced
      <3> QED BY <1>0
    <2> QED BY <2>1, <2>2
  <1>6. CachedRowsExist'
    BY <1>0, RowKinds DEF CachedRowsExist
  <1> QED BY <1>1, <1>2, <1>3, <1>4, <1>5, <1>6

-----------------------------------------------------------------------------
(* The steps of a call. *)

\* What a finder comes away with, through the cache or not.
FoundRow == [id : Account \cup {Nobody}, held : Row \cup {NoRow}, fill : SUBSET Account, keyed : Account \cup {Nobody}]
FoundOK(f) ==
  /\ f \in FoundRow
  /\ f.id # Nobody => f.id \in Account /\ f.held \in Row /\ row[f.id] # NoRow
  /\ Owned(f.held) /\ \A u \in f.fill : row[u] \in Row

LEMMA FoundFits ==
  ASSUME RowTypes, NEW u \in Account \cup {Nobody}, NEW r \in Row \cup {NoRow}, NEW S \in SUBSET Account,
         NEW m \in Account \cup {Nobody}, Owned(r), r # NoRow => u \in Account /\ row[u] # NoRow,
         \A v \in S : row[v] \in Row
  PROVE  FoundOK(Found(u, r, S, m))
  <1>1. CASE LiveOnly(r)
    <2>1. Found(u, r, S, m) = [id |-> u, held |-> r, fill |-> S, keyed |-> m] /\ r # NoRow
      BY <1>1 DEF Found, LiveOnly
    <2> QED BY <2>1 DEF FoundOK, FoundRow
  <1>2. CASE ~LiveOnly(r)
    <2>1. Found(u, r, S, m) = [id |-> Nobody, held |-> NoRow, fill |-> S, keyed |-> m]
      BY <1>2 DEF Found
    <2> QED BY <2>1, RowKinds DEF FoundOK, FoundRow, Owned
  <1> QED BY <1>1, <1>2

LEMMA NotFoundFits == ASSUME RowTypes PROVE FoundOK(NotFound)
  <1>1. Owned(NoRow) /\ NoRow \in Row \cup {NoRow} /\ Nobody \in Account \cup {Nobody} /\ {} \in SUBSET Account
    BY RowKinds DEF Owned
  <1> QED BY <1>1, FoundFits DEF NotFound

LEMMA ByIdFits ==
  ASSUME AccountsInv, NEW u \in Account, NEW hit \in BOOLEAN
  PROVE  FoundOK(ById(u, hit))
  <1> USE DEF AccountsInv
  <1>0. /\ row[u] \in Row \cup {NoRow} /\ entity[u] \in Row \cup {NoRow} /\ Nobody \in Account \cup {Nobody}
        /\ {} \in SUBSET Account /\ {u} \in SUBSET Account /\ Owned(row[u]) /\ Owned(entity[u])
    BY DEF RowTypes, RowsOwned
  <1>1. CASE hit /\ entity[u] # NoRow
    <2>1. row[u] # NoRow
      BY <1>1 DEF CachedRowsExist
    <2> QED BY <1>0, <1>1, <2>1, FoundFits DEF ById
  <1>2. CASE ~(hit /\ entity[u] # NoRow) /\ row[u] = NoRow
    BY <1>2, NotFoundFits DEF ById
  <1>3. CASE ~(hit /\ entity[u] # NoRow) /\ row[u] # NoRow
    BY <1>0, <1>3, FoundFits DEF ById
  <1> QED BY <1>1, <1>2, <1>3

LEMMA ByEmailFits ==
  ASSUME AccountsInv, NEW a \in Address, NEW hitKey \in BOOLEAN, NEW hit \in BOOLEAN
  PROVE  FoundOK(ByEmail(a, hitKey, hit))
  <1> USE DEF AccountsInv
  <1> DEFINE first == IF hitKey /\ lookup[a] # Nobody THEN ById(lookup[a], hit) ELSE NotFound
  <1>1. FoundOK(first)
    BY ByIdFits, NotFoundFits DEF RowTypes
  <1> HIDE DEF first
  <1>2. CASE first.id # Nobody \/ Holder(a) = {}
    BY <1>1, <1>2 DEF ByEmail, first
  <1>3. CASE ~(first.id # Nobody \/ Holder(a) = {})
    <2> DEFINE u == CHOOSE h \in Holder(a) : TRUE
    <2>1. u \in Holder(a)
      BY <1>3
    <2> HIDE DEF u
    <2>2. u \in Account /\ row[u] # NoRow
      BY <2>1, AccountsAssumption DEF Holder, NoRow, NewRow
    <2>3. row[u] \in Row /\ Owned(row[u]) /\ {u} \cup first.fill \in SUBSET Account
      BY <2>2, <1>1 DEF RowTypes, RowsOwned, FoundOK, FoundRow
    <2>4. \A v \in {u} \cup first.fill : row[v] \in Row
      BY <2>3, <1>1 DEF FoundOK
    <2>5. ByEmail(a, hitKey, hit) = Found(u, row[u], {u} \cup first.fill, u)
      BY <1>3 DEF ByEmail, first, u
    <2> QED BY <2>2, <2>3, <2>4, <2>5, FoundFits
  <1> QED BY <1>2, <1>3

LEMMA ByGoogleFits ==
  ASSUME AccountsInv, NEW s, NEW a \in Address, NEW hitKey \in BOOLEAN, NEW hit \in BOOLEAN
  PROVE  FoundOK(ByGoogle(s, a, hitKey, hit))
  <1> USE DEF AccountsInv
  <1> DEFINE linked == {u \in Linked(s) : LiveOnly(row[u])}
  <1>1. CASE linked = {}
    BY <1>1, ByEmailFits DEF ByGoogle
  <1>2. CASE linked # {}
    <2> DEFINE u == CHOOSE x \in linked : TRUE
    <2>1. u \in linked
      BY <1>2
    <2>2. ByGoogle(s, a, hitKey, hit) = Found(u, row[u], {}, Nobody)
      BY <1>2 DEF ByGoogle
    <2> HIDE DEF u
    <2>3. u \in Account /\ row[u] # NoRow /\ row[u] \in Row \cup {NoRow} /\ Owned(row[u])
      BY <2>1 DEF Linked, RowTypes, RowsOwned
    <2> QED BY <2>2, <2>3, FoundFits
  <1> QED BY <1>1, <1>2

\* A call keeps its type when some of its fields are replaced within theirs.
LEMMA QueryFound ==
  ASSUME NEW q \in QueryState, NEW pc \in {"fill", "save"}, NEW u \in Account \cup {Nobody},
         NEW r \in Row \cup {NoRow}, NEW rows \in Fills, NEW m \in Account \cup {Nobody}
  PROVE  [q EXCEPT !.pc = pc, !.id = u, !.held = r, !.fill = rows, !.keyed = m] \in QueryState
  <1> DEFINE Pcs == {"find", "fill", "save", "drop", "write"}
             Ids == Account \cup {Nobody}
             Helds == Row \cup {NoRow}
             Boxes == Address \cup {Released, Nobody}
             Subjects == Subject \cup {Unlinked}
             States == [kind : Kind, pc : Pcs, n : Number, address : Boxes, id : Ids, given : Nat,
                        sub : Subjects, held : Helds, fill : Fills, keyed : Ids]
  <1>1. States = QueryState
    BY DEF QueryState
  <1>2. q \in States /\ pc \in Pcs /\ u \in Ids /\ r \in Helds /\ m \in Ids
    BY <1>1
  <1> HIDE DEF Pcs, Ids, Helds, Boxes, Subjects
  <1>3. [q EXCEPT !.pc = pc, !.id = u, !.held = r, !.fill = rows, !.keyed = m] \in States
    BY <1>2
  <1> HIDE DEF States
  <1> QED BY <1>1, <1>3

LEMMA QueryFilled ==
  ASSUME NEW q \in QueryState, NEW rows \in Fills
  PROVE  [q EXCEPT !.pc = "save", !.fill = rows, !.keyed = Nobody] \in QueryState
  <1> DEFINE Pcs == {"find", "fill", "save", "drop", "write"}
             Ids == Account \cup {Nobody}
             Helds == Row \cup {NoRow}
             Boxes == Address \cup {Released, Nobody}
             Subjects == Subject \cup {Unlinked}
             States == [kind : Kind, pc : Pcs, n : Number, address : Boxes, id : Ids, given : Nat,
                        sub : Subjects, held : Helds, fill : Fills, keyed : Ids]
  <1>1. States = QueryState
    BY DEF QueryState
  <1>2. q \in States /\ "save" \in Pcs /\ Nobody \in Ids
    BY <1>1
  <1> HIDE DEF Pcs, Ids, Helds, Boxes, Subjects
  <1>3. [q EXCEPT !.pc = "save", !.fill = rows, !.keyed = Nobody] \in States
    BY <1>2
  <1> HIDE DEF States
  <1> QED BY <1>1, <1>3

LEMMA QuerySaved ==
  ASSUME NEW q \in QueryState, NEW u \in Account, NEW r \in Row
  PROVE  [q EXCEPT !.pc = "drop", !.id = u, !.held = r] \in QueryState
  <1> DEFINE Pcs == {"find", "fill", "save", "drop", "write"}
             Ids == Account \cup {Nobody}
             Helds == Row \cup {NoRow}
             Boxes == Address \cup {Released, Nobody}
             Subjects == Subject \cup {Unlinked}
             States == [kind : Kind, pc : Pcs, n : Number, address : Boxes, id : Ids, given : Nat,
                        sub : Subjects, held : Helds, fill : Fills, keyed : Ids]
  <1>1. States = QueryState
    BY DEF QueryState
  <1>2. q \in States /\ "drop" \in Pcs /\ u \in Ids /\ r \in Helds
    BY <1>1
  <1> HIDE DEF Pcs, Ids, Helds, Boxes, Subjects
  <1>3. [q EXCEPT !.pc = "drop", !.id = u, !.held = r] \in States
    BY <1>2
  <1> HIDE DEF States
  <1> QED BY <1>1, <1>3

LEMMA QuerySent ==
  ASSUME NEW q \in QueryState, NEW a \in Address \cup {Released, Nobody}
  PROVE  [q EXCEPT !.pc = "write", !.address = a] \in QueryState
  <1> DEFINE Pcs == {"find", "fill", "save", "drop", "write"}
             Ids == Account \cup {Nobody}
             Helds == Row \cup {NoRow}
             Boxes == Address \cup {Released, Nobody}
             Subjects == Subject \cup {Unlinked}
             States == [kind : Kind, pc : Pcs, n : Number, address : Boxes, id : Ids, given : Nat,
                        sub : Subjects, held : Helds, fill : Fills, keyed : Ids]
  <1>1. States = QueryState
    BY DEF QueryState
  <1>2. q \in States /\ "write" \in Pcs /\ a \in Boxes
    BY <1>1
  <1> HIDE DEF Pcs, Ids, Helds, Boxes, Subjects
  <1>3. [q EXCEPT !.pc = "write", !.address = a] \in States
    BY <1>2
  <1> HIDE DEF States
  <1> QED BY <1>1, <1>3

LEMMA QueryWritten ==
  ASSUME NEW q \in QueryState
  PROVE  [q EXCEPT !.pc = "drop"] \in QueryState
  <1> DEFINE Pcs == {"find", "fill", "save", "drop", "write"}
             Ids == Account \cup {Nobody}
             Helds == Row \cup {NoRow}
             Boxes == Address \cup {Released, Nobody}
             Subjects == Subject \cup {Unlinked}
             States == [kind : Kind, pc : Pcs, n : Number, address : Boxes, id : Ids, given : Nat,
                        sub : Subjects, held : Helds, fill : Fills, keyed : Ids]
  <1>1. States = QueryState
    BY DEF QueryState
  <1>2. q \in States /\ "drop" \in Pcs
    BY <1>1
  <1> HIDE DEF Pcs, Ids, Helds, Boxes, Subjects
  <1>3. [q EXCEPT !.pc = "drop"] \in States
    BY <1>2
  <1> HIDE DEF States
  <1> QED BY <1>1, <1>3

LEMMA FindKeeps ==
  ASSUME AccountsInv, NEW c \in Request, NEW hitKey \in BOOLEAN, NEW hit \in BOOLEAN, Find(c, hitKey, hit)
  PROVE  AccountsInv'
  <1> USE DEF AccountsInv
  <1>q. PICK q \in QueryState : q = request[c] /\ QueryOK(q)
    BY IdleApart DEF RowTypes, Find, At, QueriesOK
  <1> DEFINE f == CASE q.kind = "me"     -> ById(q.id, hit)
                    [] q.kind = "google" -> ByGoogle(q.sub, q.address, hitKey, hit)
                    [] OTHER             -> ByEmail(q.address, hitKey, hit)
  <1>1. FoundOK(f)
    <2>1. CASE q.kind = "me"
      BY <1>q, <2>1, ByIdFits DEF QueryOK, Find, At
    <2>2. CASE q.kind = "google"
      BY <1>q, <2>2, ByGoogleFits DEF QueryOK, Find, ByRow
    <2>3. CASE q.kind # "me" /\ q.kind # "google"
      BY <1>q, <2>3, ByEmailFits DEF QueryOK, Find
    <2> QED BY <2>1, <2>2, <2>3
  <1>2. /\ CallBecomes(c, [q EXCEPT !.pc = IF f.fill = {} THEN "save" ELSE "fill", !.id = f.id, !.held = f.held,
                                    !.fill = [u \in f.fill |-> row[u]], !.keyed = f.keyed])
        /\ UNCHANGED <<row, entity, lookup, number, accountHistory>> /\ q.kind \notin ByRow /\ q.pc = "find"
    BY <1>q DEF Find, CallBecomes, At
  <1> HIDE DEF f
  <1>p. PICK pc \in {"fill", "save"} : pc = IF f.fill = {} THEN "save" ELSE "fill"
    OBVIOUS
  <1>r. PICK rows \in Fills : rows = [u \in f.fill |-> row[u]]
    <2>1. [u \in f.fill |-> row[u]] \in [f.fill -> Row] /\ f.fill \in SUBSET Account
      BY <1>1 DEF FoundOK, FoundRow
    <2> QED BY <2>1 DEF Fills
  <1> DEFINE k == [q EXCEPT !.pc = pc, !.id = f.id, !.held = f.held, !.fill = rows, !.keyed = f.keyed]
  <1>3. k \in QueryState
    <2>1. f.id \in Account \cup {Nobody} /\ f.held \in Row \cup {NoRow} /\ f.keyed \in Account \cup {Nobody}
      BY <1>1 DEF FoundOK, FoundRow
    <2> HIDE DEF k
    <2>4. PICK id \in Account \cup {Nobody} : id = f.id
      BY <2>1
    <2>5. PICK held \in Row \cup {NoRow} : held = f.held
      BY <2>1
    <2>6. PICK keyed \in Account \cup {Nobody} : keyed = f.keyed
      BY <2>1
    <2>3. [q EXCEPT !.pc = pc, !.id = id, !.held = held, !.fill = rows, !.keyed = keyed] \in QueryState
      BY QueryFound
    <2> QED BY <2>3, <2>4, <2>5, <2>6 DEF k
  <1>4. /\ k.pc = pc /\ k.id = f.id /\ k.held = f.held /\ k.fill = rows /\ k.kind = q.kind /\ k.address = q.address
    BY DEF QueryState
  <1>5. CallBecomes(c, k)
    BY <1>2, <1>p, <1>r
  <1> HIDE DEF k
  <1>6. DOMAIN rows = f.fill /\ \A u \in f.fill : rows[u] = row[u] /\ row[u] \in Row /\ Owned(row[u])
    BY <1>1, <1>r DEF FoundOK, FoundRow, RowsOwned
  <1>7. QueryOK(k)
    BY <1>q, <1>p, <1>1, <1>2, <1>4, <1>6, RowKinds DEF QueryOK, FoundOK, ByRow
  <1>8. Fresh(k)
    BY <1>1, <1>4, <1>6, <1>7 DEF Fresh, FoundOK
  <1> QED BY <1>q, <1>p, <1>2, <1>3, <1>4, <1>5, <1>6, <1>8, ReadingKeeps DEF RowTypes

LEMMA IdleFresh == Idle \in QueryState \cup {Idle} /\ Fresh(Idle) /\ Idle.pc # "fill" /\ Idle.pc # "drop"
  BY IdleApart DEF Fresh

LEMMA ArriveKeeps ==
  ASSUME AccountsInv, NEW c \in Request, NEW k, NEW a, NEW u, NEW g, NEW sub, Arrive(c, k, a, u, g, sub),
         k \in Kind, a \in Address \cup {Nobody}, u \in Account \cup {Nobody}, g \in Nat, sub \in Subject \cup {Unlinked},
         IF k \in ByRow \cup {"me"} THEN u \in Account ELSE a \in Address
  PROVE  AccountsInv'
  <1> USE DEF AccountsInv
  <1> DEFINE q == Arrived(k, a, u, g, sub)
  <1>1. number \in Number /\ number + 1 \in Number
    BY AccountsAssumption DEF Arrive, RowTypes, Number
  <1>2. q \in QueryState
    BY <1>1, EmptyFill DEF Arrived, QueryState
  <1>3. CallBecomes(c, q) /\ request[c].pc # "drop" /\ number' \in Number
        /\ UNCHANGED <<row, entity, lookup, accountHistory>>
    BY <1>1, IdleApart DEF Arrive, CallBecomes
  <1>4. /\ q.pc = "find" /\ q.kind = k /\ q.address = a /\ q.id = u /\ q.fill = Nothing /\ q.held = NoRow
    BY DEF Arrived
  <1> HIDE DEF q
  <1>5. QueryOK(q)
    BY <1>4, EmptyFill DEF QueryOK, Arrive, ByRow
  <1>6. Fresh(q)
    BY <1>4, <1>5, EmptyFill, RowKinds DEF Fresh, Owned
  <1> QED BY <1>2, <1>3, <1>4, <1>6, ReadingKeeps

LEMMA AnswerKeeps == ASSUME AccountsInv, NEW c \in Request, Answer(c) PROVE AccountsInv'
  <1>1. request[c].pc # "drop" /\ number' \in Number /\ CallBecomes(c, Idle)
        /\ UNCHANGED <<row, entity, lookup, accountHistory>>
    BY DEF Answer, At, Ends, CallBecomes, AccountsInv, RowTypes
  <1> QED BY <1>1, IdleFresh, ReadingKeeps

LEMMA ReadForAdminKeeps == ASSUME AccountsInv, NEW c \in Request, ReadForAdmin(c) PROVE AccountsInv'
  <1> USE DEF AccountsInv
  <1>q. PICK q \in QueryState : q = request[c] /\ QueryOK(q) /\ Owned(q.held) /\ \A u \in DOMAIN q.fill : Owned(q.fill[u])
    BY IdleApart DEF RowTypes, ReadForAdmin, At, QueriesOK, RowsOwned
  <1>1. q.pc = "find" /\ request[c].pc # "drop" /\ number' \in Number /\ q.kind \in ByRow
        /\ UNCHANGED <<row, entity, lookup, accountHistory>>
    BY <1>q DEF ReadForAdmin, At, RowTypes
  <1>2. CASE row[q.id].deleted
    <2>1. CallBecomes(c, Idle)
      BY <1>q, <1>2 DEF ReadForAdmin, Ends, CallBecomes
    <2> QED BY <1>1, <2>1, IdleFresh, ReadingKeeps
  <1>3. CASE ~row[q.id].deleted
    <2>1. row[q.id] \in Row /\ row[q.id].address \in Address \cup {Released, Nobody}
      BY <1>q, <1>1 DEF QueryOK, RowTypes, Row
    <2>a. PICK a \in Address \cup {Released, Nobody} : a = row[q.id].address
      BY <2>1
    <2> DEFINE k == [q EXCEPT !.pc = "write", !.address = a]
    <2>2. k \in QueryState
      BY QuerySent
    <2>3. CallBecomes(c, k)
      BY <1>q, <1>3, <2>a DEF ReadForAdmin, CallBecomes
    <2>4. k.pc = "write" /\ k.kind = q.kind /\ k.id = q.id /\ k.held = q.held /\ k.fill = q.fill
      BY DEF QueryState
    <2> HIDE DEF k
    <2>5. QueryOK(k)
      BY <1>q, <1>1, <2>4 DEF QueryOK
    <2>6. Fresh(k)
      BY <1>q, <2>4, <2>5 DEF Fresh
    <2> QED BY <1>1, <2>2, <2>3, <2>4, <2>6, ReadingKeeps
  <1> QED BY <1>2, <1>3

LEMMA SetStatusKeeps == ASSUME AccountsInv, NEW c \in Request, SetStatus(c) PROVE AccountsInv'
  <1> USE DEF AccountsInv
  <1>q. PICK q \in QueryState : q = request[c] /\ QueryOK(q) /\ Owned(q.held) /\ \A u \in DOMAIN q.fill : Owned(q.fill[u])
    BY IdleApart DEF RowTypes, SetStatus, SetStatus_Then, At, QueriesOK, RowsOwned
  <1>u. PICK u \in Account : u = q.id /\ row[u] \in Row /\ q.kind \in ByRow
    BY <1>q DEF SetStatus, SetStatus_Then, At, QueryOK, ByRow, RowTypes
  <1>s. PICK st \in {"ACTIVE", "SUSPENDED"} : st = IF q.kind = "reopen" THEN "ACTIVE" ELSE "SUSPENDED"
    OBVIOUS
  <1>r. PICK r \in Row : r = [row[u] EXCEPT !.status = st]
    BY <1>u DEF Row
  <1> DEFINE k == [q EXCEPT !.pc = "drop"]
  <1>1. q.pc = "write" /\ CallBecomes(c, k) /\ Notes(c, u) /\ row' = [row EXCEPT ![u] = r]
        /\ reopened' = (IF st = "ACTIVE" /\ u \in closed THEN reopened \cup {u} ELSE reopened)
        /\ UNCHANGED <<entity, lookup, number, unheard, paired, proven, onTrust, closed>>
    BY <1>q, <1>u, <1>s, <1>r DEF SetStatus, SetStatus_Then, At, CallBecomes
  <1>2. k \in QueryState
    BY QueryWritten
  <1>3. k.pc = "drop" /\ k.kind = q.kind /\ k.id = q.id /\ k.held = q.held /\ k.fill = q.fill
    BY DEF QueryState
  <1> HIDE DEF k
  <1>4. r \in Row /\ r.pw = row[u].pw /\ r.verified = row[u].verified /\ r.code = row[u].code /\ r.status = st
    BY <1>u, <1>r DEF Row
  <1>5. Owned(r)'
    BY <1>1, <1>4 DEF RowsOwned, Owned
  <1>6. row \in [Account -> Row \cup {NoRow}] /\ RowsKept /\ row'[u] # NoRow
    BY <1>1, <1>4, RowKinds DEF RowTypes, RowsKept
  <1>7. QueryOK(k)'
    <2>1. DOMAIN q.fill \subseteq Account
      BY FillsFit DEF QueryState
    <2> QED BY <1>q, <1>u, <1>3, <1>6, <2>1 DEF QueryOK, RowsKept
  <1>8. Fresh(k)'
    BY <1>q, <1>1, <1>3, <1>7 DEF Fresh, Owned
  <1>9. ClosedRowsStay'
    BY <1>1, <1>4, <1>6 DEF ClosedRowsStay, RowsKept
  <1>10. request[c].pc \notin {"drop", "fill"}
    BY <1>q, <1>1
  <1> QED BY <1>u, <1>1, <1>2, <1>3, <1>4, <1>5, <1>8, <1>9, <1>10, WritingKeeps DEF Further

LEMMA SoftDeleteKeeps == ASSUME AccountsInv, NEW c \in Request, SoftDelete(c) PROVE AccountsInv'
  <1> USE DEF AccountsInv
  <1>q. PICK q \in QueryState : q = request[c] /\ QueryOK(q) /\ Owned(q.held) /\ \A u \in DOMAIN q.fill : Owned(q.fill[u])
    BY IdleApart DEF RowTypes, SoftDelete, At, QueriesOK, RowsOwned
  <1>u. PICK u \in Account : u = q.id /\ row[u] \in Row /\ q.kind \in ByRow /\ q.pc = "write"
    BY <1>q DEF SoftDelete, At, QueryOK, ByRow, RowTypes
  <1>a. CASE row[u].deleted
    <2>1. CallBecomes(c, Idle) /\ request[c].pc # "drop" /\ number' \in Number
          /\ UNCHANGED <<row, entity, lookup, accountHistory>>
      BY <1>a, <1>q, <1>u DEF SoftDelete, Ends, CallBecomes, RowTypes, accountHistory
    <2> QED BY <2>1, IdleFresh, ReadingKeeps
  <1>b. CASE ~row[u].deleted
    <2>r. PICK r \in Row : r = [row[u] EXCEPT !.deleted = TRUE, !.status = "DEACTIVATED", !.address = Released]
      BY <1>u DEF Row
    <2> DEFINE k == [q EXCEPT !.pc = "drop"]
    <2>1. CallBecomes(c, k) /\ Notes(c, u) /\ closed' = closed \cup {u} /\ row' = [row EXCEPT ![u] = r]
          /\ UNCHANGED <<entity, lookup, number, unheard, paired, proven, onTrust, reopened>>
      BY <1>b, <1>q, <1>u, <2>r DEF SoftDelete, At, CallBecomes
    <2>2. k \in QueryState
      BY QueryWritten
    <2>3. k.pc = "drop" /\ k.kind = q.kind /\ k.id = q.id /\ k.held = q.held /\ k.fill = q.fill
      BY DEF QueryState
    <2> HIDE DEF k
    <2>4. r \in Row /\ r.pw = row[u].pw /\ r.verified = row[u].verified /\ r.code = row[u].code /\ r.status = "DEACTIVATED"
      BY <1>u, <2>r DEF Row
    <2>5. Owned(r)'
      BY <2>1, <2>4 DEF RowsOwned, Owned
    <2>6. row \in [Account -> Row \cup {NoRow}] /\ RowsKept /\ row'[u] # NoRow
      BY <2>1, <2>4, RowKinds DEF RowTypes, RowsKept
    <2>7. QueryOK(k)'
      <3>1. DOMAIN q.fill \subseteq Account
        BY FillsFit DEF QueryState
      <3> QED BY <1>q, <1>u, <2>3, <2>6, <3>1 DEF QueryOK, RowsKept
    <2>8. Fresh(k)'
      BY <1>q, <2>1, <2>3, <2>7 DEF Fresh, Owned
    <2>9. ClosedRowsStay'
      BY <2>1, <2>4, <2>6 DEF ClosedRowsStay, RowsKept
    <2>10. request[c].pc \notin {"drop", "fill"}
      BY <1>q, <1>u
    <2> QED BY <1>u, <2>1, <2>2, <2>3, <2>4, <2>5, <2>8, <2>9, <2>10, WritingKeeps DEF Further
  <1> QED BY <1>a, <1>b

LEMMA ActivateKeeps == ASSUME AccountsInv, NEW c \in Request, Activate(c) PROVE AccountsInv'
  <1> USE DEF AccountsInv
  <1>q. PICK q \in QueryState : q = request[c] /\ QueryOK(q)
    BY IdleApart DEF RowTypes, Activate, At, QueriesOK
  <1>u. PICK u \in Account : u = q.id /\ row[u] \in Row /\ q.pc = "find" /\ q.n \in Number
    BY <1>q DEF Activate, At, QueryOK, ByRow, RowTypes, QueryState
  <1>r. PICK r \in Row : r = [row[u] EXCEPT !.pw = q.n, !.verified = TRUE]
    BY <1>u DEF Row
  <1>1. CallBecomes(c, Idle) /\ Notes(c, u) /\ unheard' = unheard \cup {u} /\ proven' = proven \cup {q.n}
        /\ row' = [row EXCEPT ![u] = r] /\ UNCHANGED <<entity, lookup, number, paired, onTrust, closed, reopened>>
    BY <1>q, <1>u, <1>r DEF Activate, Ends, CallBecomes
  <1>2. r \in Row /\ r.pw = q.n /\ r.verified /\ r.status = row[u].status
    BY <1>u, <1>r DEF Row
  <1>3. Owned(r)' /\ Fresh(Idle)'
    BY <1>1, <1>2 DEF Owned, Fresh
  <1>4. ClosedRowsStay'
    BY <1>1, <1>2, RowKinds DEF ClosedRowsStay, RowTypes
  <1>5. request[c].pc \notin {"drop", "fill"}
    BY <1>q, <1>u
  <1> QED BY IdleFresh, <1>1, <1>2, <1>3, <1>4, <1>5, WritingKeeps DEF Further

LEMMA SaveKeeps == ASSUME AccountsInv, NEW c \in Request, NEW u \in Account, Save(c, u) PROVE AccountsInv'
  <1> USE DEF AccountsInv
  <1>q. PICK q \in QueryState : q = request[c] /\ QueryOK(q) /\ Owned(q.held) /\ \A v \in DOMAIN q.fill : Owned(q.fill[v])
    BY IdleApart DEF RowTypes, Save, At, QueriesOK, RowsOwned
  <1>1. q.pc = "save" /\ q.kind \notin ByRow
    BY <1>q DEF Save, At, QueryOK
  <1>e. PICK e \in Row : e = Entity(q) /\ Owned(e) /\ (q.id = Nobody => ~e.verified)
    <2>1. CASE q.id # Nobody
      BY <1>q, <1>1, <2>1 DEF Entity, QueryOK
    <2>2. CASE q.id = Nobody
      <3>1. q.kind # "me"
        BY <1>q, <1>1 DEF Save, Outcome, ByRow
      <3> QED BY <1>q, <1>1, <2>2, <3>1, RowKinds DEF Entity, QueryOK, Owned
    <2> QED BY <2>1, <2>2
  <1>o. PICK o : o = Outcome(q, e, q.id # Nobody)
    OBVIOUS
  <1>2. o # Refused /\ o \in Row /\ OwnedAfter(q, e, o)
    BY <1>q, <1>e, <1>o, OutcomeOwned DEF Save
  <1>3. row \in [Account -> Row \cup {NoRow}] /\ request[c].pc \notin {"drop", "fill"}
    BY <1>q, <1>1 DEF RowTypes
  <1>a. CASE ~Unique(u, o)
    <2>1. CallBecomes(c, Idle) /\ number' \in Number /\ UNCHANGED <<row, entity, lookup, accountHistory>>
      BY <1>a, <1>q, <1>e, <1>o DEF Save, Ends, CallBecomes, RowTypes, accountHistory
    <2> QED BY <1>3, <2>1, IdleFresh, ReadingKeeps
  <1>b. CASE Unique(u, o)
    <2>r. PICK r \in Row : r = Saved(u, o) /\ r.verified = o.verified /\ r.pw = o.pw /\ r.code = o.code
                           /\ (row[u] # NoRow => r.status = row[u].status)
      <3>1. CASE row[u] = NoRow
        BY <1>2, <3>1 DEF Saved
      <3>2. CASE row[u] # NoRow
        <4>1. row[u] \in Row
          BY <1>3, <3>2
        <4>2. row[u].status \in {"ACTIVE", "SUSPENDED", "DEACTIVATED"}
          BY <4>1 DEF Row
        <4>3. Saved(u, o) = [o EXCEPT !.status = row[u].status]
          BY <3>2 DEF Saved
        <4>4. /\ [o EXCEPT !.status = row[u].status] \in Row
              /\ [o EXCEPT !.status = row[u].status].verified = o.verified
              /\ [o EXCEPT !.status = row[u].status].pw = o.pw
              /\ [o EXCEPT !.status = row[u].status].code = o.code
              /\ [o EXCEPT !.status = row[u].status].status = row[u].status
          BY <1>2, <4>2 DEF Row
        <4> QED BY <3>2, <4>3, <4>4
      <3> QED BY <3>1, <3>2
    <2> DEFINE k == [q EXCEPT !.pc = "drop", !.id = u, !.held = o]
    <2>1. CallBecomes(c, k) /\ Notes(c, u) /\ row' = [row EXCEPT ![u] = r]
          /\ paired' = paired \cup Mails(q, e) /\ proven' = proven \cup Proves(q)
          /\ onTrust' = onTrust \cup Trusts(q, e)
          /\ UNCHANGED <<entity, lookup, number, unheard, closed, reopened>>
      BY <1>b, <1>q, <1>e, <1>o, <2>r DEF Save, CallBecomes
    <2>2. k \in QueryState
      BY <1>2, QuerySaved
    <2>3. k.pc = "drop" /\ k.kind = q.kind /\ k.id = u /\ k.held = o /\ k.fill = q.fill /\ k.address = q.address
      BY DEF QueryState
    <2> HIDE DEF k
    <2>4. Owned(r)' /\ Owned(o)'
      BY <1>2, <2>r, <2>1 DEF Owned, OwnedAfter
    <2>5. RowsKept /\ row'[u] # NoRow
      BY <1>3, <2>1, RowKinds DEF RowsKept
    <2>6. QueryOK(k)'
      <3>1. DOMAIN q.fill \subseteq Account
        BY FillsFit DEF QueryState
      <3> QED BY <1>q, <1>1, <2>3, <2>5, <3>1 DEF QueryOK, RowsKept
    <2>7. Fresh(k)'
      <3>1. \A v \in DOMAIN k.fill : Owned(k.fill[v])'
        BY <1>q, <2>1, <2>3 DEF Owned
      <3> QED BY <2>3, <2>4, <2>6, <3>1 DEF Fresh
    <2>8. ClosedRowsStay'
      BY <1>3, <2>r, <2>1, RowKinds DEF ClosedRowsStay
    <2> QED BY <1>3, <2>1, <2>2, <2>3, <2>4, <2>7, <2>8, WritingKeeps DEF Further
  <1> QED BY <1>a, <1>b

\* A step that writes the cache.
LEMMA CachingKeeps ==
  ASSUME AccountsInv, NEW c \in Request, NEW k \in QueryState \cup {Idle}, CallBecomes(c, k), Fresh(k), k.pc # "fill",
         UNCHANGED <<row, number, raced, paired, proven, onTrust, closed, reopened>>, unheard \subseteq unheard',
         lookup' \in [Address -> Account \cup {Nobody}], entity' \in [Account -> Row \cup {NoRow}],
         \A u \in Account : entity'[u] # entity[u] => Owned(entity'[u]) /\ (entity'[u] # NoRow => row[u] # NoRow),
         \A u \in Account \ (raced \cup unheard') : \/ entity'[u] \in {NoRow, row[u]}
                                                    \/ entity'[u] = entity[u] /\ (request[c].pc = "drop" => request[c].id # u)
  PROVE  AccountsInv'
  <1> USE DEF AccountsInv, CallBecomes
  <1>0. request \in [Request -> QueryState \cup {Idle}]
    BY DEF RowTypes
  <1>1. RowTypes'
    BY DEF RowTypes
  <1>2. QueriesOK'
    <2>1. k # Idle => QueryOK(k)'
      BY DEF Fresh, QueryOK
    <2> QED BY <1>0, <2>1, QueryFrame DEF RowsKept
  <1>3. RowsOwned'
    <2>1. k # Idle => Owned(k.held)' /\ \A u \in DOMAIN k.fill : Owned(k.fill[u])'
      BY DEF Fresh, Owned
    <2>2. \A u \in Account : Owned(row[u])' /\ Owned(entity[u])'
      BY DEF RowsOwned, Owned
    <2> QED BY <1>0, <2>1, <2>2, OwnedFrame DEF Further
  <1>4. FillsCurrent'
    BY <1>0 DEF FillsCurrent
  <1>5. CacheIsCurrentUnlessRaced'
    <2> SUFFICES ASSUME NEW u \in Account, u \notin raced, u \notin unheard', entity'[u] \notin {NoRow, row[u]}
                 PROVE  \E d \in Request : request'[d].pc = "drop" /\ request'[d].id = u
      BY DEF CacheIsCurrentUnlessRaced
    <2>1. entity'[u] = entity[u] /\ (request[c].pc = "drop" => request[c].id # u)
      OBVIOUS
    <2> PICK d \in Request : request[d].pc = "drop" /\ request[d].id = u
      BY <2>1 DEF CacheIsCurrentUnlessRaced
    <2> QED BY <1>0, <2>1
  <1>6. CachedRowsExist'
    BY DEF CachedRowsExist
  <1>7. ClosedRowsStay'
    BY DEF ClosedRowsStay
  <1> QED BY <1>1, <1>2, <1>3, <1>4, <1>5, <1>6, <1>7

LEMMA FillKeeps == ASSUME AccountsInv, NEW c \in Request, Fill(c) PROVE AccountsInv'
  <1> USE DEF AccountsInv
  <1>q. PICK q \in QueryState : q = request[c] /\ QueryOK(q) /\ Owned(q.held) /\ \A u \in DOMAIN q.fill : Owned(q.fill[u])
    BY IdleApart DEF RowTypes, Fill, At, QueriesOK, RowsOwned
  <1> DEFINE k == [q EXCEPT !.pc = "save", !.fill = Nothing, !.keyed = Nobody]
  <1>1. /\ q.pc = "fill" /\ CallBecomes(c, k)
        /\ entity' = [u \in Account |-> IF u \in DOMAIN q.fill THEN q.fill[u] ELSE entity[u]]
        /\ lookup' = (IF q.keyed = Nobody THEN lookup ELSE [lookup EXCEPT ![q.address] = q.keyed])
        /\ UNCHANGED <<row, number, accountHistory>>
    BY <1>q DEF Fill, At, CallBecomes
  <1>2. k \in QueryState
    BY EmptyFill, QueryFilled
  <1>3. k.pc = "save" /\ k.kind = q.kind /\ k.id = q.id /\ k.held = q.held /\ k.fill = Nothing /\ k.address = q.address
    BY DEF QueryState
  <1> HIDE DEF k
  <1>4. DOMAIN q.fill \subseteq Account /\ \A u \in DOMAIN q.fill : q.fill[u] \in Row /\ row[u] # NoRow
    BY <1>q, FillsFit DEF QueryState, QueryOK
  <1>5. Fresh(k)
    <2>1. QueryOK(k)
      BY <1>q, <1>1, <1>3, EmptyFill DEF QueryOK
    <2> QED BY <1>q, <1>3, <2>1, EmptyFill DEF Fresh
  <1>6. lookup' \in [Address -> Account \cup {Nobody}]
    BY <1>1 DEF RowTypes, QueryState
  <1>7. entity' \in [Account -> Row \cup {NoRow}]
    BY <1>1, <1>4 DEF RowTypes
  <1>8. \A u \in Account : entity'[u] # entity[u] => Owned(entity'[u]) /\ (entity'[u] # NoRow => row[u] # NoRow)
    BY <1>q, <1>1, <1>4
  <1>9. \A u \in Account \ (raced \cup unheard') : entity'[u] \in {NoRow, row[u]} \/ entity'[u] = entity[u]
    BY <1>q, <1>1 DEF FillsCurrent, accountHistory
  <1>10. request[c].pc # "drop" /\ k.pc # "fill"
    BY <1>q, <1>1, <1>3
  <1> QED BY <1>1, <1>2, <1>5, <1>6, <1>7, <1>8, <1>9, <1>10, CachingKeeps DEF accountHistory

LEMMA DropKeeps == ASSUME AccountsInv, NEW c \in Request, Drop(c) PROVE AccountsInv'
  <1> USE DEF AccountsInv
  <1>q. PICK q \in QueryState : q = request[c] /\ QueryOK(q)
    BY IdleApart DEF RowTypes, Drop, At, QueriesOK
  <1>1. /\ q.pc = "drop" /\ CallBecomes(c, Idle) /\ q.id \in Account
        /\ entity' = [entity EXCEPT ![q.id] = NoRow] /\ UNCHANGED <<row, number, accountHistory>>
    BY <1>q DEF Drop, At, Ends, CallBecomes, QueryOK
  <1>2. lookup' \in [Address -> Account \cup {Nobody}]
    BY DEF Drop, RowTypes
  <1>3. entity' \in [Account -> Row \cup {NoRow}]
    BY <1>1 DEF RowTypes
  <1>4. \A u \in Account : entity'[u] # entity[u] => Owned(entity'[u]) /\ (entity'[u] # NoRow => row[u] # NoRow)
    BY <1>1, RowKinds DEF RowTypes, Owned
  <1>5. \A u \in Account \ (raced \cup unheard') :
          entity'[u] \in {NoRow, row[u]} \/ (entity'[u] = entity[u] /\ (request[c].pc = "drop" => request[c].id # u))
    BY <1>q, <1>1 DEF RowTypes
  <1> QED BY <1>1, <1>2, <1>3, <1>4, <1>5, IdleFresh, CachingKeeps DEF accountHistory

LEMMA DropFailsKeeps == ASSUME AccountsInv, NEW c \in Request, DropFails(c) PROVE AccountsInv'
  <1> USE DEF AccountsInv
  <1>1. /\ CallBecomes(c, Idle) /\ unheard' = unheard \cup {request[c].id}
        /\ UNCHANGED <<row, entity, lookup, number, raced, paired, proven, onTrust, closed, reopened>>
    BY DEF DropFails, Ends, CallBecomes
  <1>2. lookup' \in [Address -> Account \cup {Nobody}] /\ entity' \in [Account -> Row \cup {NoRow}]
    BY <1>1 DEF RowTypes
  <1> QED BY <1>1, <1>2, IdleFresh, CachingKeeps

LEMMA ExpireKeeps == ASSUME AccountsInv, NEW u \in Account, Expire(u) PROVE AccountsInv'
  <1> USE DEF AccountsInv
  <1>1. entity' = [entity EXCEPT ![u] = NoRow] /\ UNCHANGED <<row, lookup, request, number, accountHistory>>
    BY DEF Expire
  <1> USE <1>1 DEF accountHistory
  <1>2. RowTypes' /\ QueriesOK' /\ ClosedRowsStay' /\ FillsCurrent'
    BY DEF RowTypes, QueriesOK, QueryOK, ClosedRowsStay, FillsCurrent
  <1>3. RowsOwned'
    BY RowKinds DEF RowsOwned, Owned, RowTypes
  <1>4. CachedRowsExist' /\ CacheIsCurrentUnlessRaced'
    BY DEF CachedRowsExist, CacheIsCurrentUnlessRaced, RowTypes
  <1> QED BY <1>2, <1>3, <1>4

LEMMA AccountsStart == AccountsInit => AccountsInv
  <1> SUFFICES ASSUME AccountsInit PROVE AccountsInv
    OBVIOUS
  <1> USE DEF AccountsInit
  <1>1. 0 \in Number /\ 1 \in Number
    BY AccountsAssumption DEF Number
  <1>2. \A a \in Address : /\ ApprovedRow(a) \in Row /\ ~ApprovedRow(a).verified /\ ApprovedRow(a).code = 0
                           /\ VerifiedRow(a) \in Row /\ VerifiedRow(a).pw = 1 /\ VerifiedRow(a).verified
    BY <1>1 DEF ApprovedRow, VerifiedRow, NewRow, Row, Released
  <1>3. \A u \in Account : row[u] \in Row \cup {NoRow} /\ Owned(row[u])
    BY <1>2, RowKinds DEF Owned
  <1>4. RowTypes
    BY <1>1, <1>3 DEF RowTypes
  <1>5. \A c \in Request : request[c] = Idle
    OBVIOUS
  <1>6. RowsOwned
    BY <1>3, <1>5, RowKinds DEF RowsOwned, Owned
  <1>7. QueriesOK /\ FillsCurrent /\ ClosedRowsStay /\ CachedRowsExist /\ CacheIsCurrentUnlessRaced
    BY <1>5, IdleApart DEF QueriesOK, FillsCurrent, ClosedRowsStay, CachedRowsExist, CacheIsCurrentUnlessRaced
  <1> QED BY <1>4, <1>6, <1>7 DEF AccountsInv

LEMMA ArrivalsKeep ==
  ASSUME AccountsInv, NEW c \in Request,
         \/ \E a \in Address :
              \/ \E k \in {"register", "resend", "askReset", "resetPassword"} : Arrive(c, k, a, Nobody, 0, Unlinked)
              \/ \E k \in {"verify", "login", "checkReset"}, g \in 1..number : Arrive(c, k, a, Nobody, g, Unlinked)
              \/ \E s \in Subject : Arrive(c, "google", a, Nobody, 0, s)
         \/ \E u \in Account, k \in ByRow \cup {"me"} : Arrive(c, k, Nobody, u, 0, Unlinked)
  PROVE  AccountsInv'
  <1>1. CASE \E a \in Address, k \in {"register", "resend", "askReset", "resetPassword"} : Arrive(c, k, a, Nobody, 0, Unlinked)
    <2> PICK a \in Address, k \in {"register", "resend", "askReset", "resetPassword"} : Arrive(c, k, a, Nobody, 0, Unlinked)
      BY <1>1
    <2>1. k \in Kind /\ k \notin ByRow \cup {"me"}
      BY DEF Kind, ByRow
    <2> QED BY <2>1, ArriveKeeps
  <1>2. CASE \E a \in Address, k \in {"verify", "login", "checkReset"}, g \in 1..number : Arrive(c, k, a, Nobody, g, Unlinked)
    <2> PICK a \in Address, k \in {"verify", "login", "checkReset"}, g \in 1..number : Arrive(c, k, a, Nobody, g, Unlinked)
      BY <1>2
    <2>1. k \in Kind /\ k \notin ByRow \cup {"me"} /\ g \in Nat
      BY AccountsAssumption DEF Kind, ByRow, AccountsInv, RowTypes, Number
    <2> QED BY <2>1, ArriveKeeps
  <1>3. CASE \E a \in Address, s \in Subject : Arrive(c, "google", a, Nobody, 0, s)
    <2> PICK a \in Address, s \in Subject : Arrive(c, "google", a, Nobody, 0, s)
      BY <1>3
    <2>1. "google" \in Kind /\ "google" \notin ByRow \cup {"me"}
      BY DEF Kind, ByRow
    <2> QED BY <2>1, ArriveKeeps
  <1>4. CASE \E u \in Account, k \in ByRow \cup {"me"} : Arrive(c, k, Nobody, u, 0, Unlinked)
    <2> PICK u \in Account, k \in ByRow \cup {"me"} : Arrive(c, k, Nobody, u, 0, Unlinked)
      BY <1>4
    <2>1. k \in Kind
      BY DEF Kind, ByRow
    <2> QED BY <2>1, ArriveKeeps
  <1> QED BY <1>1, <1>2, <1>3, <1>4

LEMMA AccountsStep == ASSUME AccountsInv, AccountsNext PROVE AccountsInv'
  <1>1. CASE \E u \in Account : Expire(u)
    BY <1>1, ExpireKeeps
  <1>2. CASE \E c \in Request : \/ \E hitKey, hit \in BOOLEAN : Find(c, hitKey, hit)
                                \/ Fill(c) \/ Answer(c) \/ Drop(c) \/ DropFails(c)
    BY <1>2, FindKeeps, FillKeeps, AnswerKeeps, DropKeeps, DropFailsKeeps
  <1>3. CASE \E c \in Request : \/ ReadForAdmin(c) \/ SetStatus(c) \/ SoftDelete(c) \/ Activate(c)
                                \/ \E u \in Account : Save(c, u)
    BY <1>3, ReadForAdminKeeps, SetStatusKeeps, SoftDeleteKeeps, ActivateKeeps, SaveKeeps
  <1>4. CASE \E c \in Request :
               \/ \E a \in Address :
                    \/ \E k \in {"register", "resend", "askReset", "resetPassword"} : Arrive(c, k, a, Nobody, 0, Unlinked)
                    \/ \E k \in {"verify", "login", "checkReset"}, g \in 1..number : Arrive(c, k, a, Nobody, g, Unlinked)
                    \/ \E s \in Subject : Arrive(c, "google", a, Nobody, 0, s)
               \/ \E u \in Account, k \in ByRow \cup {"me"} : Arrive(c, k, Nobody, u, 0, Unlinked)
    BY <1>4, ArrivalsKeep
  <1> QED BY <1>1, <1>2, <1>3, <1>4 DEF AccountsNext

LEMMA AccountsRest == ASSUME AccountsInv, UNCHANGED accountVars PROVE AccountsInv'
  <1> USE DEF accountVars, accountHistory
  <1>1. RowTypes' /\ QueriesOK' /\ RowsOwned'
    BY DEF AccountsInv, RowTypes, QueriesOK, QueryOK, RowsOwned, Owned
  <1>2. FillsCurrent' /\ CacheIsCurrentUnlessRaced' /\ CachedRowsExist' /\ ClosedRowsStay'
    BY DEF AccountsInv, FillsCurrent, CacheIsCurrentUnlessRaced, CachedRowsExist, ClosedRowsStay
  <1> QED BY <1>1, <1>2 DEF AccountsInv

LEMMA AccountsHeld == Spec => [](part = "accounts" => AccountsInv)
  <1>1. Init => (part = "accounts" => AccountsInv)
    BY AccountsStart DEF Init
  <1>2. (part = "accounts" => AccountsInv) /\ [Next]_vars => (part = "accounts" => AccountsInv)'
    BY AccountsStep, AccountsRest DEF Next, vars
  <1> QED BY <1>1, <1>2, PTL DEF Spec

\* The cache of user rows differs from the table only where a race or a lost drop explains it
\* (CacheTellsTheTruth).
THEOREM CacheIsTheTable == Spec => []CacheTellsTheTruth
  <1>1. (part = "accounts" => AccountsInv) => CacheTellsTheTruth
    BY DEF AccountsInv, CacheTellsTheTruth
  <1> QED BY <1>1, AccountsHeld, PTL

\* A deleted account stays closed, and a verified row's password is the one its code was mailed with
\* or was taken on trust by a reset or a Google sign-in, through every save of a row that was loaded
\* before (AccountsHold).
THEOREM AccountsAreAccountedFor == Spec => []AccountsHold
  <1>1. AccountsInv => DeletedStaysClosed
    BY DEF AccountsInv, ClosedRowsStay, DeletedStaysClosed, LiveOnly
  <1>2. AccountsInv => VerifiedWithItsPassword
    BY DEF AccountsInv, RowsOwned, Owned, VerifiedWithItsPassword
  <1>3. (part = "accounts" => AccountsInv) => AccountsHold
    BY <1>1, <1>2 DEF AccountsHold
  <1> QED BY <1>3, AccountsHeld, PTL

-----------------------------------------------------------------------------
(* The refresh tokens. *)

TokenRow == [state : TokenState, device : Device \cup {"none"}, root : Token \cup {NoToken}]
TabState ==
  [kind : {"signIn", "refresh", "logout", "reset"},
   pc : {"answer", "claim", "commit", "judge", "successor", "purge", "purging", "find", "delete"},
   device : Device \cup {"none"}, old : Token \cup {NoToken}, new : Token \cup {NoToken},
   outcome : {"none", "rotated", "raced", "reuse", "not_found", "out"}, targets : SUBSET Token]

TokenTypes ==
  /\ token \in [Token -> TokenRow] /\ jar \in [Device -> Token \cup {NoToken}]
  /\ call \in [Tab -> TabState \cup {NoCall}] /\ signed \in 0..MaxTokens
  /\ signedIn \subseteq Device /\ ended \subseteq 1..signed /\ disturbed \subseteq Device

Signed(t) == token[t].state # "absent"
InFlight(q) == q.pc = "answer" /\ q.outcome = "rotated"

\* What a call knows of the tokens it names, by its kind.
SignInOK(q) ==
  /\ InFlight(q) /\ q.device \in Device /\ q.old = NoToken /\ q.new \in Token
  /\ token[q.new].root = q.new
RefreshOK(q) ==
  /\ q.device \in Device /\ q.old \in Token /\ q.new \in Token
  /\ q.pc \in {"claim", "commit", "judge", "successor", "purge", "purging", "answer"}
  /\ ~InFlight(q) => q.outcome # "rotated" /\ ~Signed(q.new)
  /\ q.outcome \in {"none", "rotated", "raced", "reuse", "not_found"}
  /\ InFlight(q) => token[q.new].root = token[q.old].root
  /\ q.pc = "commit" => token[q.old].state = "live"
LogoutOK(q) ==
  /\ q.device \in Device /\ q.old \in Token /\ q.new = NoToken
  /\ \/ q.pc \in {"find", "delete"} /\ q.outcome = "none"
     \/ q.pc = "answer" /\ q.outcome = "out"
ResetOK(q) ==
  /\ q.device = "none" /\ q.old = NoToken /\ q.new = NoToken
  /\ q.pc \in {"purge", "purging", "answer"} /\ q.outcome = "none"
NamesOK(q) ==
  /\ q.old # NoToken => q.old \in Token /\ Signed(q.old) /\ token[q.old].device = q.device
  /\ InFlight(q) => q.new \in Token /\ Signed(q.new) /\ token[q.new].device = q.device
  /\ q.new # NoToken => q.new \in Token /\ q.new <= signed
  /\ \A t \in q.targets : t \in Token /\ Signed(t)
TabOK(q) ==
  /\ q.kind = "signIn" => SignInOK(q)
  /\ q.kind = "refresh" => RefreshOK(q)
  /\ q.kind = "logout" => LogoutOK(q)
  /\ q.kind = "reset" => ResetOK(q)
  /\ NamesOK(q)
TabsOK == \A c \in Running : TabOK(call[c])

\* Every token has one sign-in, of one device, and each sign-in at most one live token.
TokensOK ==
  /\ \A t \in Token : Signed(t) => t <= signed /\ token[t].device \in Device /\ token[t].root \in 1..signed
  /\ \A d \in Device : jar[d] # NoToken => Signed(jar[d]) /\ token[jar[d]].device = d
OneLiveEach ==
  \A t, u \in Token : Signed(t) /\ Signed(u) /\ token[t].root = token[u].root =>
    /\ token[t].device = token[u].device
    /\ t \in Live /\ u \in Live => t = u

\* A token on its way to a jar is known to nobody else, and the only live one of its sign-in.
OnItsWay(q) ==
  /\ \A d \in Device : jar[d] # q.new
  /\ \A e \in Running : call[e].old # q.new
  /\ InFlight(q) => \A u \in Live : token[u].root = token[q.new].root => u = q.new
  /\ q.kind = "signIn" => \A u \in Token : Signed(u) /\ token[u].root = q.new => u = q.new
NewIsNews ==
  /\ \A c \in Running : call[c].new # NoToken => OnItsWay(call[c])
  /\ \A c, e \in Running : call[c].new = call[e].new /\ call[c].new # NoToken => c = e
  /\ \A c, e \in OfKind("refresh") : AtStep(c, "commit") /\ AtStep(e, "commit") /\ call[c].old = call[e].old => c = e

\* A device nothing has disturbed: its calls do not overlap, but for refreshes; the live token of
\* the session in its jar is the one it presents, or on its way; a purge sees all it has.
Orderly(d) ==
  /\ \A c, e \in On(d) : c # e => call[c].kind = "refresh" /\ call[e].kind = "refresh"
  /\ OfKind("reset") # {} => On(d) = {}
  /\ \A c \in On(d) : call[c].kind = "logout" /\ call[c].pc \in {"find", "delete"} => call[c].old = jar[d]
  /\ \A u \in Live : jar[d] # NoToken /\ token[u].root = token[jar[d]].root =>
       u = jar[d] \/ \E c \in On(d) : InFlight(call[c]) /\ call[c].new = u
  /\ \A c \in OfKind("reset") : AtStep(c, "purging") => {t \in Live : token[t].device = d} \subseteq call[c].targets
UndisturbedOrderly == \A d \in Device \ disturbed : Orderly(d)

SessionsCore == TokenTypes /\ TabsOK /\ TokensOK /\ OneLiveEach /\ NewIsNews

\* While no device was disturbed, who is signed in presents a token that is live, or was exchanged
\* for one that is on its way; whoever is not, has none or one that was deleted.
Presentable(d) ==
  \/ jar[d] \in Live
  \/ \E c \in On(d) : call[c].kind = "refresh" /\ InFlight(call[c]) /\ call[c].old = jar[d] /\ call[c].new \in Live
HonestJars ==
  /\ \A d \in signedIn : jar[d] # NoToken /\ token[jar[d]].state \in {"live", "spent"} /\ Presentable(d)
  /\ \A d \in Device \ signedIn : jar[d] # NoToken => token[jar[d]].state = "deleted"
\* No refresh of who is signed in is taken for theft, or for a token nobody knows.
HonestCall(q) ==
  /\ q.kind = "refresh" =>
       /\ q.pc \notin {"purge", "purging"} /\ q.outcome # "reuse"
       /\ q.pc # "answer" => token[q.old].state \in IF q.device \in signedIn THEN {"live", "spent"} ELSE {"deleted"}
       /\ q.pc \in {"commit", "successor"} => q.device \in signedIn
       /\ q.outcome = "rotated" => q.device \in signedIn /\ q.new \in Live
       /\ q.outcome = "not_found" => q.device \notin signedIn
       /\ q.pc \in {"judge", "successor"} => token[q.old].state # "live"
  /\ q.kind = "signIn" => q.new \in Live
  /\ q.kind = "logout" /\ q.pc = "answer" => q.device \notin signedIn
Honest == HonestJars /\ \A c \in Running : HonestCall(call[c])

SessionsBase == SessionsCore /\ UndisturbedOrderly /\ EndedSessionsStayEnded
SessionsInv == SessionsBase /\ (disturbed = {} => Honest)

-----------------------------------------------------------------------------
(* How a step changes the calls and the rows. *)

Places == {"answer", "claim", "commit", "judge", "successor", "purge", "purging", "find", "delete"}
Outcomes == {"none", "rotated", "raced", "reuse", "not_found", "out"}

\* A running call goes on.
WentOn(c, p, o, ts) ==
  /\ call' \in [Tab -> TabState \cup {NoCall}]
  /\ \A e \in Tab \ {c} : call'[e] = call[e]
  /\ call'[c] # NoCall /\ call'[c].kind = call[c].kind /\ call'[c].device = call[c].device
  /\ call'[c].old = call[c].old /\ call'[c].new = call[c].new
  /\ call'[c].pc = p /\ call'[c].outcome = o /\ call'[c].targets = ts

\* Another arrives, or one is over.
CameIn(c, q) ==
  /\ call' \in [Tab -> TabState \cup {NoCall}]
  /\ \A e \in Tab \ {c} : call'[e] = call[e]
  /\ call[c] = NoCall /\ call'[c] = q /\ q # NoCall
WentOut(c) ==
  /\ call' \in [Tab -> TabState \cup {NoCall}]
  /\ \A e \in Tab \ {c} : call'[e] = call[e]
  /\ call'[c] = NoCall

\* Rows are spent, get old or are deleted, but for those that are claimed.
Faded ==
  /\ token' \in [Token -> TokenRow]
  /\ \A t \in Token :
       /\ token'[t].device = token[t].device /\ token'[t].root = token[t].root
       /\ token'[t].state = "absent" <=> token[t].state = "absent"
       /\ token'[t].state = "live" => token[t].state = "live"
       /\ Locked(t) => token'[t] = token[t]

LEMMA TabStates == TabState \cap {NoCall} = {} /\ \A q \in TabState : q # NoCall
  BY DEF TabState, NoCall

LEMMA TabMoves ==
  ASSUME NEW q \in TabState, NEW p \in Places, NEW o \in Outcomes, NEW ts \in SUBSET Token
  PROVE  [q EXCEPT !.pc = p, !.outcome = o, !.targets = ts] \in TabState
  <1> DEFINE Kinds0 == {"signIn", "refresh", "logout", "reset"}
             Owners == Device \cup {"none"}
             Tokens == Token \cup {NoToken}
             Sets == SUBSET Token
             States == [kind : Kinds0, pc : Places, device : Owners, old : Tokens, new : Tokens,
                        outcome : Outcomes, targets : Sets]
  <1>1. TabState = States
    BY DEF TabState, Places, Outcomes
  <1>2. q \in States /\ ts \in Sets
    BY <1>1
  <1> HIDE DEF Kinds0, Owners, Tokens, Sets
  <1>3. [q EXCEPT !.pc = p, !.outcome = o, !.targets = ts] \in States
    BY <1>2
  <1> QED BY <1>1, <1>3

LEMMA Goes ==
  ASSUME TokenTypes, NEW c \in Running, NEW p \in Places, NEW o \in Outcomes, NEW ts \in SUBSET Token,
         call' = [call EXCEPT ![c] = [call[c] EXCEPT !.pc = p, !.outcome = o, !.targets = ts]]
  PROVE  WentOn(c, p, o, ts)
  <1>q. PICK q \in TabState : q = call[c]
    BY DEF TokenTypes, Running
  <1>r. PICK r \in TabState : r = [q EXCEPT !.pc = p, !.outcome = o, !.targets = ts]
    BY TabMoves
  <1>1. r # NoCall /\ r.kind = q.kind /\ r.device = q.device /\ r.old = q.old /\ r.new = q.new
        /\ r.pc = p /\ r.outcome = o /\ r.targets = ts
    <2>1. /\ r.kind = q.kind /\ r.device = q.device /\ r.old = q.old /\ r.new = q.new
          /\ r.pc = p /\ r.outcome = o /\ r.targets = ts
      BY <1>r DEF TabState
    <2> QED BY <2>1, TabStates
  <1>2. c \in Tab /\ call \in [Tab -> TabState \cup {NoCall}] /\ call' = [call EXCEPT ![c] = r]
    BY <1>q, <1>r DEF TokenTypes, Running
  <1> QED BY <1>1, <1>2, <1>q DEF WentOn

LEMMA GoesTo ==
  ASSUME TokenTypes, NEW c \in Running, NEW p \in Places, To(c, p)
  PROVE  WentOn(c, p, call[c].outcome, call[c].targets)
  <1>q. PICK q \in TabState : q = call[c]
    BY DEF TokenTypes, Running
  <1>1. q.outcome \in Outcomes /\ q.targets \in SUBSET Token
    BY DEF TabState, Outcomes
  <1>2. [q EXCEPT !.pc = p, !.outcome = q.outcome, !.targets = q.targets] = [q EXCEPT !.pc = p]
    BY DEF TabState
  <1>3. call' = [call EXCEPT ![c] = [call[c] EXCEPT !.pc = p]]
    BY DEF To
  <1> QED BY <1>1, <1>2, <1>3, <1>q, Goes

LEMMA GoesToAnswer ==
  ASSUME TokenTypes, NEW c \in Running, NEW o \in Outcomes, AnswerWith(c, o)
  PROVE  WentOn(c, "answer", o, call[c].targets)
  <1>q. PICK q \in TabState : q = call[c]
    BY DEF TokenTypes, Running
  <1>1. "answer" \in Places /\ q.targets \in SUBSET Token
    BY DEF TabState, Places
  <1>2. [q EXCEPT !.pc = "answer", !.outcome = o, !.targets = q.targets] = [q EXCEPT !.pc = "answer", !.outcome = o]
    BY DEF TabState
  <1>3. call' = [call EXCEPT ![c] = [call[c] EXCEPT !.pc = "answer", !.outcome = o]]
    BY DEF AnswerWith
  <1> QED BY <1>1, <1>2, <1>3, <1>q, Goes

\* A purge, as its DELETE starts, as it ends, and as a miss leads to one.
LEMMA GoesAtPurge ==
  ASSUME TokenTypes, NEW c \in Running, NEW ts \in SUBSET Token,
         call' = [call EXCEPT ![c].pc = "purging", ![c].targets = ts]
  PROVE  WentOn(c, "purging", call[c].outcome, ts)
  <1>q. PICK q \in TabState : q = call[c]
    BY DEF TokenTypes, Running
  <1>1. q.outcome \in Outcomes /\ "purging" \in Places
    BY DEF TabState, Outcomes, Places
  <1>2. [q EXCEPT !.pc = "purging", !.outcome = q.outcome, !.targets = ts] = [q EXCEPT !.pc = "purging", !.targets = ts]
    BY DEF TabState
  <1>3. call' = [call EXCEPT ![c] = [call[c] EXCEPT !.pc = "purging", !.targets = ts]]
    OBVIOUS
  <1> QED BY <1>1, <1>2, <1>3, <1>q, Goes

LEMMA GoesFromPurge ==
  ASSUME TokenTypes, NEW c \in Running, NEW o \in Outcomes,
         call' = [call EXCEPT ![c].pc = "answer", ![c].targets = {}, ![c].outcome = o]
  PROVE  WentOn(c, "answer", o, {})
  <1>q. PICK q \in TabState : q = call[c]
    BY DEF TokenTypes, Running
  <1>1. "answer" \in Places /\ {} \in SUBSET Token
    BY DEF Places
  <1>2. [q EXCEPT !.pc = "answer", !.outcome = o, !.targets = {}] = [q EXCEPT !.pc = "answer", !.targets = {}, !.outcome = o]
    BY DEF TabState
  <1>3. call' = [call EXCEPT ![c] = [call[c] EXCEPT !.pc = "answer", !.targets = {}, !.outcome = o]]
    OBVIOUS
  <1> QED BY <1>1, <1>2, <1>3, <1>q, Goes

LEMMA GoesToPurge ==
  ASSUME TokenTypes, NEW c \in Running, call' = [call EXCEPT ![c].pc = "purge", ![c].outcome = "reuse"]
  PROVE  WentOn(c, "purge", "reuse", call[c].targets)
  <1>q. PICK q \in TabState : q = call[c]
    BY DEF TokenTypes, Running
  <1>1. "purge" \in Places /\ "reuse" \in Outcomes /\ q.targets \in SUBSET Token
    BY DEF TabState, Outcomes, Places
  <1>2. [q EXCEPT !.pc = "purge", !.outcome = "reuse", !.targets = q.targets] = [q EXCEPT !.pc = "purge", !.outcome = "reuse"]
    BY DEF TabState
  <1>3. call' = [call EXCEPT ![c] = [call[c] EXCEPT !.pc = "purge", !.outcome = "reuse"]]
    OBVIOUS
  <1> QED BY <1>1, <1>2, <1>3, <1>q, Goes

\* A call arrives, or one is over.
LEMMA ComesIn ==
  ASSUME TokenTypes, NEW c \in Tab, call[c] = NoCall, NEW q \in TabState, call' = [call EXCEPT ![c] = q]
  PROVE  CameIn(c, q)
  BY TabStates DEF TokenTypes, CameIn
LEMMA GoesOut ==
  ASSUME TokenTypes, NEW c \in Tab, call' = [call EXCEPT ![c] = NoCall]
  PROVE  WentOut(c)
  BY DEF TokenTypes, WentOut

-----------------------------------------------------------------------------
(* The tokens, step by step. *)

\* What a resting call knows outlasts them.
Kept ==
  \A t \in Token : token[t].state # "absent" =>
    token'[t].device = token[t].device /\ token'[t].root = token[t].root /\ token'[t].state # "absent"

LEMMA TabOutlasts ==
  ASSUME NEW q, TabOK(q), Kept, signed \in Nat, signed' \in Nat, signed <= signed',
         q.kind = "refresh" /\ q.pc = "commit" => token'[q.old].state = "live",
         q.kind = "refresh" /\ ~InFlight(q) => token'[q.new].state = "absent"
  PROVE  TabOK(q)'
  <1> USE DEF Signed, InFlight
  <1>0. NamesOK(q)
    BY DEF TabOK
  <1>1. q.kind = "signIn" => SignInOK(q)'
    BY <1>0 DEF TabOK, SignInOK, Kept, NamesOK
  <1>2. q.kind = "refresh" => RefreshOK(q)'
    BY <1>0, TokensAssumption DEF TabOK, RefreshOK, Kept, NamesOK, Token, NoToken
  <1>3. (q.kind = "logout" => LogoutOK(q)') /\ (q.kind = "reset" => ResetOK(q)')
    BY DEF TabOK, LogoutOK, ResetOK
  <1>4. NamesOK(q)'
    <2>1. \A t \in q.targets : t \in Token /\ token'[t].state # "absent"
      BY <1>0 DEF NamesOK, Kept
    <2>2. q.new # NoToken => q.new \in Token /\ q.new <= signed'
      BY <1>0, TokensAssumption DEF NamesOK, Token
    <2> QED BY <1>0, <2>1, <2>2 DEF NamesOK, Kept
  <1> QED BY <1>1, <1>2, <1>3, <1>4 DEF TabOK

LEMMA FadedNames ==
  ASSUME NEW q, TabOK(q), Faded, signed \in Nat, signed' = signed,
         q.kind = "refresh" /\ q.pc = "commit" => token'[q.old].state = "live"
  PROVE  TabOK(q)'
  <1>1. Kept
    BY DEF Kept, Faded
  <1>2. q.kind = "refresh" /\ ~InFlight(q) => token'[q.new].state = "absent"
    BY DEF TabOK, RefreshOK, Faded, Signed
  <1> QED BY <1>1, <1>2, TabOutlasts

\* A step that creates no token, but takes a call on, spends, ages or deletes.
Moves(c, p, o, ts) ==
  /\ c \in Running /\ ts \in SUBSET Token /\ WentOn(c, p, o, ts) /\ Faded
  /\ UNCHANGED <<jar, signed, disturbed>> /\ signedIn' \subseteq signedIn /\ ended' \subseteq 1..signed
  /\ call[c].pc # "answer" /\ o # "rotated" /\ \A t \in ts : Signed(t)
  /\ call[c].kind = "refresh" =>
       /\ p \in {"claim", "commit", "judge", "successor", "purge", "purging", "answer"}
       /\ o \in {"none", "rotated", "raced", "reuse", "not_found"}
  /\ call[c].kind = "logout" => (p \in {"find", "delete"} /\ o = "none") \/ (p = "answer" /\ o = "out")
  /\ call[c].kind = "reset" => p \in {"purge", "purging", "answer"} /\ o = "none"
  /\ p = "commit" => token[call[c].old].state = "live" /\ token'[call[c].old].state = "live" /\ ~Locked(call[c].old)
  /\ p = "purging" => Live \subseteq ts

LEMMA MovesKeepCore ==
  ASSUME SessionsCore, NEW c, NEW p, NEW o, NEW ts, Moves(c, p, o, ts)
  PROVE  SessionsCore'
  <1>m. /\ c \in Running /\ ts \in SUBSET Token /\ WentOn(c, p, o, ts) /\ Faded
        /\ UNCHANGED <<jar, signed, disturbed>> /\ signedIn' \subseteq Device /\ ended' \subseteq 1..signed
        /\ call[c].pc # "answer" /\ o # "rotated" /\ \A t \in ts : Signed(t)
        /\ call[c].kind = "refresh" =>
             /\ p \in {"claim", "commit", "judge", "successor", "purge", "purging", "answer"}
             /\ o \in {"none", "rotated", "raced", "reuse", "not_found"}
        /\ call[c].kind = "logout" => (p \in {"find", "delete"} /\ o = "none") \/ (p = "answer" /\ o = "out")
        /\ call[c].kind = "reset" => p \in {"purge", "purging", "answer"} /\ o = "none"
        /\ p = "commit" => token[call[c].old].state = "live" /\ token'[call[c].old].state = "live" /\ ~Locked(call[c].old)
    BY DEF Moves, SessionsCore, TokenTypes
  <1> USE <1>m
  <1>0. signed \in Nat
    BY TokensAssumption DEF SessionsCore, TokenTypes
  <1>1. c \in Tab /\ \A e \in Running' : e \in Running /\ e \in Tab
    BY DEF Running, WentOn
  <1>2. TokenTypes'
    BY DEF SessionsCore, TokenTypes, WentOn, Faded
  <1>3. \A t \in Token : Signed(t)' <=> Signed(t)
    BY DEF Faded, Signed
  <1>4. \A e \in Running' : /\ call'[e].kind = call[e].kind /\ call'[e].device = call[e].device
                            /\ call'[e].old = call[e].old /\ call'[e].new = call[e].new
                            /\ InFlight(call[e])' <=> InFlight(call[e])
    BY <1>1 DEF WentOn, InFlight
  <1>5. TabsOK'
    <2> SUFFICES ASSUME NEW e \in Running' PROVE TabOK(call[e])'
      BY DEF TabsOK
    <2>1. e \in Running /\ TabOK(call[e]) /\ e \in Tab
      BY <1>1 DEF SessionsCore, TabsOK
    <2> USE DEF Signed, InFlight
    <2>2. CASE e = c
      <3> USE <2>2
      <3>0. NamesOK(call[e]) /\ WentOn(e, p, o, ts) /\ e \in Running'
        BY <2>1 DEF TabOK
      <3>1. call'[e].kind = "signIn" => SignInOK(call[e])'
        BY <2>1, <3>0 DEF TabOK, SignInOK, WentOn
      <3>2. call'[e].kind = "refresh" => RefreshOK(call[e])'
        BY <2>1, <3>0 DEF TabOK, RefreshOK, WentOn, Faded
      <3>3. call'[e].kind = "logout" => LogoutOK(call[e])'
        BY <2>1, <3>0 DEF TabOK, LogoutOK, WentOn
      <3>4. call'[e].kind = "reset" => ResetOK(call[e])'
        BY <2>1, <3>0 DEF TabOK, ResetOK, WentOn
      <3>5. NamesOK(call[e])'
        BY <3>0 DEF NamesOK, WentOn, Faded
      <3> QED BY <3>1, <3>2, <3>3, <3>4, <3>5 DEF TabOK
    <2>3. CASE e # c
      <3>1. call'[e] = call[e]
        BY <2>1, <2>3 DEF WentOn
      <3>2. call[e].kind = "refresh" /\ call[e].pc = "commit" => token'[call[e].old].state = "live"
        <4> SUFFICES ASSUME call[e].kind = "refresh", call[e].pc = "commit" PROVE token'[call[e].old].state = "live"
          OBVIOUS
        <4>1. Locked(call[e].old)
          BY <2>1 DEF Locked, OfKind, AtStep
        <4> QED BY <4>1, <2>1 DEF TabOK, RefreshOK, Faded
      <3>3. PICK q : q = call[e]
        OBVIOUS
      <3>4. TabOK(q) /\ (q.kind = "refresh" /\ q.pc = "commit" => token'[q.old].state = "live") /\ q = call'[e]
        BY <2>1, <3>1, <3>2, <3>3
      <3> QED BY <1>0, <3>4, FadedNames
    <2> QED BY <2>2, <2>3
  <1>6. TokensOK'
    BY <1>3 DEF SessionsCore, TokensOK, Faded, TokenTypes
  <1>7. OneLiveEach'
    BY <1>3 DEF SessionsCore, OneLiveEach, Faded, Live
  <1>8. NewIsNews'
    <2>1. \A e \in Running' : call'[e].new # NoToken => OnItsWay(call[e])'
      <3> SUFFICES ASSUME NEW e \in Running', call'[e].new # NoToken PROVE OnItsWay(call[e])'
        OBVIOUS
      <3>1. e \in Running /\ OnItsWay(call[e]) /\ NamesOK(call[e])
        BY <1>1, <1>4 DEF SessionsCore, NewIsNews, TabsOK, TabOK
      <3>2. call'[e].new = call[e].new /\ call[e].new \in Token
        BY <3>1, <1>4 DEF NamesOK
      <3> QED BY <3>1, <3>2, <1>1, <1>3, <1>4 DEF OnItsWay, Faded, Live
    <2>2. \A e, f \in Running' : call'[e].new = call'[f].new /\ call'[e].new # NoToken => e = f
      BY <1>1, <1>4 DEF SessionsCore, NewIsNews
    <2>3. \A e, f \in OfKind("refresh")' : AtStep(e, "commit")' /\ AtStep(f, "commit")' /\ call'[e].old = call'[f].old => e = f
      BY <1>1, <1>4 DEF SessionsCore, NewIsNews, OfKind, AtStep, Locked, WentOn
    <2> QED BY <2>1, <2>2, <2>3 DEF NewIsNews
  <1> QED BY <1>2, <1>5, <1>6, <1>7, <1>8 DEF SessionsCore

\* A grace period ends.
LEMMA GraceKeepsCore == ASSUME SessionsCore, NEW t \in Token, GraceEnds(t) PROVE SessionsCore'
  <1> USE DEF GraceEnds
  <1>0. token[t] \in TokenRow /\ [token[t] EXCEPT !.state = "old"] \in TokenRow
    BY DEF SessionsCore, TokenTypes, TokenRow, TokenState
  <1>1. Faded
    <2>1. token' = [token EXCEPT ![t] = [token[t] EXCEPT !.state = "old"]]
      OBVIOUS
    <2>2. ~Locked(t)
      BY DEF Locked, SessionsCore, TabsOK, TabOK, RefreshOK, OfKind, AtStep, Running
    <2> QED BY <1>0, <2>1, <2>2 DEF Faded, SessionsCore, TokenTypes, Signed, TokenRow
  <1>2. TokenTypes'
    <2>1. {call[c].device : c \in {x \in Running : call[x].old = t}} \subseteq Device
      <3>1. \A x \in Running : call[x].old = t => call[x].device \in Device
        BY DEF SessionsCore, TabsOK, TabOK, SignInOK, RefreshOK, LogoutOK, ResetOK, TokenTypes, TabState, Running, NoToken, Token
      <3> QED BY <3>1
    <2> QED BY <1>1, <2>1 DEF SessionsCore, TokenTypes, Faded
  <1>3. \A u \in Token : Signed(u)' <=> Signed(u)
    BY <1>1 DEF Faded, Signed
  <1>4. TabsOK'
    <2> SUFFICES ASSUME NEW e \in Running PROVE TabOK(call[e])'
      BY DEF TabsOK, Running
    <2>1. TabOK(call[e])
      BY DEF SessionsCore, TabsOK
    <2>2. call[e].kind = "refresh" /\ call[e].pc = "commit" => token'[call[e].old].state = "live"
      <3> SUFFICES ASSUME call[e].kind = "refresh", call[e].pc = "commit" PROVE token'[call[e].old].state = "live"
        OBVIOUS
      <3>1. Locked(call[e].old)
        BY DEF Locked, OfKind, AtStep
      <3> QED BY <3>1, <2>1, <1>1 DEF TabOK, RefreshOK, Faded
    <2>3. PICK q : q = call[e]
      OBVIOUS
    <2>4. TabOK(q) /\ (q.kind = "refresh" /\ q.pc = "commit" => token'[q.old].state = "live") /\ q = call'[e]
      BY <2>1, <2>2, <2>3
    <2>5. signed \in Nat
      BY TokensAssumption DEF SessionsCore, TokenTypes
    <2> QED BY <2>4, <2>5, <1>1, FadedNames
  <1>5. TokensOK' /\ OneLiveEach'
    BY <1>1, <1>3 DEF SessionsCore, TokensOK, OneLiveEach, Faded, Live, TokenTypes
  <1>6. NewIsNews'
    <2>1. \A e \in Running : call[e].new # NoToken => OnItsWay(call[e])'
      <3> SUFFICES ASSUME NEW e \in Running, call[e].new # NoToken PROVE OnItsWay(call[e])'
        OBVIOUS
      <3>1. OnItsWay(call[e]) /\ NamesOK(call[e])
        BY DEF SessionsCore, NewIsNews, TabsOK, TabOK
      <3>2. call[e].new \in Token
        BY <3>1 DEF NamesOK
      <3> QED BY <3>1, <3>2, <1>1, <1>3 DEF OnItsWay, Faded, Live, Running, InFlight
    <2> QED BY <2>1 DEF SessionsCore, NewIsNews, OfKind, AtStep, Running
  <1> QED BY <1>2, <1>4, <1>5, <1>6 DEF SessionsCore

\* A call arrives that signs nothing in: it presents what its jar holds, if anything.
LEMMA ArrivalsKeepCore ==
  ASSUME SessionsCore, NEW c \in Tab, NEW q \in TabState, CameIn(c, q), UNCHANGED <<token, jar, signedIn, ended>>,
         disturbed' \subseteq Device, q.kind # "signIn", q.pc \notin {"answer", "commit"}, TabOK(q)',
         q.old # NoToken => q.device \in Device /\ q.old = jar[q.device],
         \/ q.new = NoToken /\ signed' = signed
         \/ q.new = signed + 1 /\ signed' = signed + 1 /\ signed + 1 \in Token
  PROVE  SessionsCore'
  <1>0. signed \in Nat /\ signed' \in Nat /\ signed <= signed' /\ signed' \in 0..MaxTokens
    BY TokensAssumption DEF SessionsCore, TokenTypes, Token
  <1>1. \A e \in Running' : e = c \/ (e # c /\ e \in Running /\ e \in Tab /\ call'[e] = call[e])
    BY DEF CameIn, Running
  <1>1a. call'[c] = q /\ \A e \in Running : e # c
    BY DEF CameIn, Running
  <1>2. TokenTypes'
    <2>1. ended \subseteq 1..signed'
      BY <1>0 DEF SessionsCore, TokenTypes
    <2> QED BY <1>0, <2>1 DEF SessionsCore, TokenTypes, CameIn
  <1>3. TabsOK'
    <2> SUFFICES ASSUME NEW e \in Running' PROVE TabOK(call[e])'
      BY DEF TabsOK
    <2>1. CASE e = c
      BY <2>1, <1>1a
    <2>2. CASE e # c
      <3>1. e \in Running /\ call'[e] = call[e] /\ TabOK(call[e])
        BY <2>2, <1>1 DEF SessionsCore, TabsOK
      <3>2. PICK r : r = call[e]
        OBVIOUS
      <3>3. r = call'[e] /\ TabOK(r)
        BY <3>1, <3>2
      <3>4. r.kind = "refresh" /\ r.pc = "commit" => token'[r.old].state = "live"
        BY <3>3 DEF TabOK, RefreshOK
      <3>5. r.kind = "refresh" /\ ~InFlight(r) => token'[r.new].state = "absent"
        BY <3>3 DEF TabOK, RefreshOK, Signed
      <3> QED BY <3>3, <3>4, <3>5, <1>0, TabOutlasts DEF Kept
    <2> QED BY <2>1, <2>2
  <1>4. TokensOK'
    BY <1>0, TokensAssumption DEF SessionsCore, TokensOK, Signed, TokenTypes, TokenRow, Token, NoToken
  <1>5. OneLiveEach'
    BY DEF SessionsCore, OneLiveEach, Signed, Live
  <1>6. \A e \in Running : call[e].old # NoToken => call[e].old \in Token /\ call[e].old <= signed
    BY DEF SessionsCore, TabsOK, TabOK, NamesOK, TokensOK
  <1>7. \A e \in Running : call[e].new # NoToken => call[e].new \in Token /\ call[e].new <= signed
    BY DEF SessionsCore, TabsOK, TabOK, NamesOK
  <1>8. \A d \in Device : jar[d] # NoToken => jar[d] \in Token /\ jar[d] <= signed
    BY DEF SessionsCore, TokensOK, TokenTypes, NoToken
  <1>9. NewIsNews'
    <2>1. \A e \in Running' : call'[e].new # NoToken => OnItsWay(call[e])'
      <3> SUFFICES ASSUME NEW e \in Running', call'[e].new # NoToken PROVE OnItsWay(call[e])'
        OBVIOUS
      <3>1. CASE e = c
        <4>1. q.new = signed + 1 /\ ~InFlight(q) /\ q.kind # "signIn"
          BY <3>1, <1>1a DEF InFlight
        <4>2. \A d \in Device : jar'[d] # q.new
          BY <4>1, <1>0, <1>8 DEF NoToken
        <4>3. \A f \in Running' : call'[f].old # q.new
          BY <4>1, <1>0, <1>1, <1>1a, <1>6, <1>8 DEF NoToken
        <4> QED BY <3>1, <1>1a, <4>1, <4>2, <4>3 DEF OnItsWay
      <3>2. CASE e # c
        <4>1. e \in Running /\ call'[e] = call[e] /\ OnItsWay(call[e])
          BY <3>2, <1>1 DEF SessionsCore, NewIsNews
        <4>2. q.old # call[e].new
          BY <4>1, <3>2 DEF OnItsWay
        <4>3. \A f \in Running' : call'[f].old # call'[e].new
          BY <4>1, <4>2, <1>1, <1>1a DEF OnItsWay
        <4> QED BY <4>1, <4>3 DEF OnItsWay, Live, Signed, InFlight
      <3> QED BY <3>1, <3>2
    <2>2. \A e, f \in Running' : call'[e].new = call'[f].new /\ call'[e].new # NoToken => e = f
      <3>1. q.new # NoToken => \A e \in Running : call[e].new # q.new
        BY <1>0, <1>7 DEF NoToken
      <3> QED BY <1>1, <1>1a, <3>1 DEF SessionsCore, NewIsNews
    <2>3. \A e, f \in OfKind("refresh")' : AtStep(e, "commit")' /\ AtStep(f, "commit")' /\ call'[e].old = call'[f].old => e = f
      <3>1. \A e \in Running' : AtStep(e, "commit")' => e # c
        BY <1>1a DEF AtStep
      <3> QED BY <1>1, <3>1 DEF SessionsCore, NewIsNews, OfKind, AtStep
    <2> QED BY <2>1, <2>2, <2>3 DEF NewIsNews
  <1> QED BY <1>2, <1>3, <1>4, <1>5, <1>9 DEF SessionsCore

\* A call is over: it may have put in its jar the token it brought, or emptied it.
LEMMA LeavingKeepsCore ==
  ASSUME SessionsCore, NEW c \in Running, WentOut(c), UNCHANGED <<token, signed, ended>>,
         disturbed' \subseteq Device, signedIn' \subseteq Device, jar' \in [Device -> Token \cup {NoToken}],
         \A d \in Device : \/ jar'[d] \in {jar[d], NoToken}
                           \/ d = call[c].device /\ InFlight(call[c]) /\ jar'[d] = call[c].new
  PROVE  SessionsCore'
  <1>1. \A e \in Running' : e # c /\ e \in Running /\ e \in Tab /\ call'[e] = call[e]
    BY DEF WentOut, Running
  <1>2. signed \in Nat
    BY TokensAssumption DEF SessionsCore, TokenTypes
  <1>3. TokenTypes'
    BY DEF SessionsCore, TokenTypes, WentOut
  <1>4. TabsOK'
    <2> SUFFICES ASSUME NEW e \in Running' PROVE TabOK(call[e])'
      BY DEF TabsOK
    <2>1. e \in Running /\ call'[e] = call[e] /\ TabOK(call[e])
      BY <1>1 DEF SessionsCore, TabsOK
    <2>2. PICK r : r = call[e]
      OBVIOUS
    <2>3. r = call'[e] /\ TabOK(r)
      BY <2>1, <2>2
    <2>4. r.kind = "refresh" /\ r.pc = "commit" => token'[r.old].state = "live"
      BY <2>3 DEF TabOK, RefreshOK
    <2>5. r.kind = "refresh" /\ ~InFlight(r) => token'[r.new].state = "absent"
      BY <2>3 DEF TabOK, RefreshOK, Signed
    <2> QED BY <2>3, <2>4, <2>5, <1>2, TabOutlasts DEF Kept
  <1>5. TokensOK'
    <2>1. InFlight(call[c]) => Signed(call[c].new) /\ token[call[c].new].device = call[c].device
      BY DEF SessionsCore, TabsOK, TabOK, NamesOK
    <2> QED BY <2>1 DEF SessionsCore, TokensOK, Signed
  <1>6. OneLiveEach'
    BY DEF SessionsCore, OneLiveEach, Signed, Live
  <1>7. NewIsNews'
    <2>1. \A e \in Running' : call'[e].new # NoToken => OnItsWay(call[e])'
      <3> SUFFICES ASSUME NEW e \in Running', call'[e].new # NoToken PROVE OnItsWay(call[e])'
        OBVIOUS
      <3>1. e \in Running /\ call'[e] = call[e] /\ OnItsWay(call[e]) /\ call[c].new # call[e].new
        BY <1>1 DEF SessionsCore, NewIsNews
      <3>2. \A d \in Device : jar'[d] # call[e].new
        BY <3>1 DEF OnItsWay
      <3>3. \A f \in Running' : call'[f].old # call[e].new
        BY <3>1, <1>1 DEF OnItsWay
      <3> QED BY <3>1, <3>2, <3>3 DEF OnItsWay, Live, Signed, InFlight
    <2>2. \A e, f \in Running' : call'[e].new = call'[f].new /\ call'[e].new # NoToken => e = f
      BY <1>1 DEF SessionsCore, NewIsNews
    <2>3. \A e, f \in OfKind("refresh")' : AtStep(e, "commit")' /\ AtStep(f, "commit")' /\ call'[e].old = call'[f].old => e = f
      BY <1>1 DEF SessionsCore, NewIsNews, OfKind, AtStep
    <2> QED BY <2>1, <2>2, <2>3 DEF NewIsNews
  <1> QED BY <1>3, <1>4, <1>5, <1>6, <1>7 DEF SessionsCore

\* What signing in answers with.
Brings(d, t) ==
  [kind |-> "signIn", pc |-> "answer", device |-> d, old |-> NoToken, new |-> t, outcome |-> "rotated", targets |-> {}]

LEMMA SignsIn ==
  ASSUME TokenTypes, NEW c \in Tab, NEW d \in Device, SignIn(c, d)
  PROVE  /\ signed + 1 \in Token /\ signed' = signed + 1 /\ signed \in Nat
         /\ CameIn(c, Brings(d, signed + 1)) /\ Brings(d, signed + 1) \in TabState
         /\ token' \in [Token -> TokenRow]
         /\ token'[signed + 1] = [state |-> "live", device |-> d, root |-> signed + 1]
         /\ \A t \in Token : t # signed + 1 => token'[t] = token[t]
         /\ UNCHANGED <<jar, signedIn, ended>> /\ Disturbs("signIn", d) /\ disturbed' \subseteq Device
  <1> DEFINE t == signed + 1
  <1>0. t \in Token /\ signed' = t /\ call[c] = NoCall /\ Disturbs("signIn", d) /\ UNCHANGED <<jar, signedIn, ended>>
    BY DEF SignIn
  <1>1. signed \in Nat
    BY TokensAssumption DEF TokenTypes
  <1>2. [NewCall("signIn", "answer", d, NoToken, t) EXCEPT !.outcome = "rotated"] = Brings(d, t)
    BY DEF NewCall, Brings
  <1>3. call' = [call EXCEPT ![c] = Brings(d, t)]
    BY <1>2 DEF SignIn
  <1>4. Brings(d, t) \in TabState
    BY <1>0 DEF Brings, TabState
  <1>5. CameIn(c, Brings(d, t))
    <2>1. PICK q \in TabState : q = Brings(d, t)
      BY <1>4
    <2> HIDE DEF t
    <2>2. call' = [call EXCEPT ![c] = q]
      BY <1>3, <2>1
    <2> QED BY <1>0, <2>1, <2>2, ComesIn
  <1>6. PICK new \in TokenRow : new = [state |-> "live", device |-> d, root |-> t]
    BY <1>0 DEF TokenRow, TokenState
  <1>7. token' = [token EXCEPT ![t] = new]
    BY <1>6 DEF SignIn
  <1>8. token' \in [Token -> TokenRow] /\ token'[t] = new /\ \A u \in Token : u # t => token'[u] = token[u]
    BY <1>0, <1>7 DEF TokenTypes
  <1>9. disturbed' \subseteq Device
    BY <1>0 DEF Disturbs, TokenTypes
  <1> QED BY <1>0, <1>1, <1>4, <1>5, <1>6, <1>8, <1>9

LEMMA SignInKeepsCore ==
  ASSUME SessionsCore, NEW c \in Tab, NEW d \in Device, SignIn(c, d)
  PROVE  SessionsCore'
  <1>s. PICK t \in Token : t = signed + 1
    BY SignsIn DEF SessionsCore
  <1>q. PICK q \in TabState : q = Brings(d, t)
    BY <1>s, SignsIn DEF SessionsCore
  <1>0. /\ signed' = t /\ signed \in Nat /\ CameIn(c, q) /\ token' \in [Token -> TokenRow]
        /\ token'[t].state = "live" /\ token'[t].device = d /\ token'[t].root = t
        /\ \A u \in Token : u # t => token'[u] = token[u]
        /\ UNCHANGED <<jar, signedIn, ended>> /\ disturbed' \subseteq Device
    <2>0. TokenTypes
      BY DEF SessionsCore
    <2>1. CameIn(c, Brings(d, signed + 1)) /\ Brings(d, signed + 1) = q
      BY <2>0, <1>s, <1>q, SignsIn
    <2>2. CameIn(c, q)
      BY <2>1 DEF CameIn
    <2>3. /\ signed' = signed + 1 /\ signed \in Nat /\ token' \in [Token -> TokenRow]
          /\ token'[signed + 1] = [state |-> "live", device |-> d, root |-> signed + 1]
      BY <2>0, SignsIn
    <2>4. \A u \in Token : u # signed + 1 => token'[u] = token[u]
      BY <2>0, SignsIn
    <2>5. UNCHANGED <<jar, signedIn, ended>> /\ disturbed' \subseteq Device
      BY <2>0, SignsIn
    <2>6. token'[t] = [state |-> "live", device |-> d, root |-> t] /\ signed' = t
      BY <1>s, <2>3
    <2>7. token'[t].state = "live" /\ token'[t].device = d /\ token'[t].root = t
      BY <2>6
    <2>8. \A u \in Token : u # t => token'[u] = token[u]
      BY <1>s, <2>4
    <2> QED BY <2>2, <2>3, <2>5, <2>6, <2>7, <2>8
  <1>q1. /\ q.kind = "signIn" /\ q.pc = "answer" /\ q.device = d /\ q.old = NoToken /\ q.new = t
         /\ q.outcome = "rotated" /\ q.targets = {}
    BY <1>q DEF Brings
  <1>1. \A e \in Running' : e = c \/ (e # c /\ e \in Running /\ e \in Tab /\ call'[e] = call[e])
    BY <1>0 DEF CameIn, Running
  <1>1a. call'[c] = q /\ \A e \in Running : e # c
    BY <1>0 DEF CameIn, Running
  <1>t. t \in Nat /\ t # NoToken /\ ~(t <= signed) /\ t <= MaxTokens /\ token[t].state = "absent"
    BY <1>s, <1>0, TokensAssumption DEF Token, NoToken, SessionsCore, TokensOK, Signed
  <1>2. TokenTypes'
    <2>1. ended \subseteq 1..t /\ t \in 0..MaxTokens
      BY <1>0, <1>s, <1>t, TokensAssumption DEF SessionsCore, TokenTypes
    <2> QED BY <1>0, <2>1 DEF SessionsCore, TokenTypes, CameIn
  <1>6. \A e \in Running : call[e].old # NoToken => call[e].old \in Token /\ call[e].old # t
    BY <1>t DEF SessionsCore, TabsOK, TabOK, NamesOK, Signed
  <1>7. \A e \in Running : call[e].new # NoToken => call[e].new \in Token /\ call[e].new # t
    BY <1>t DEF SessionsCore, TabsOK, TabOK, NamesOK
  <1>8. \A e \in Device : jar[e] # NoToken => jar[e] \in Token /\ jar[e] # t
    BY <1>t DEF SessionsCore, TokensOK, TokenTypes, NoToken, Signed
  <1>3. TabsOK'
    <2> SUFFICES ASSUME NEW e \in Running' PROVE TabOK(call[e])'
      BY DEF TabsOK
    <2>1. CASE e = c
      <3>1. InFlight(q) /\ SignInOK(q)' /\ NamesOK(q)'
        BY <1>0, <1>q1, <1>t DEF SignInOK, NamesOK, InFlight, Signed
      <3> QED BY <2>1, <3>1, <1>q1, <1>1a DEF TabOK
    <2>2. CASE e # c
      <3>1. e \in Running /\ call'[e] = call[e] /\ TabOK(call[e])
        BY <2>2, <1>1 DEF SessionsCore, TabsOK
      <3>2. PICK r : r = call[e]
        OBVIOUS
      <3>3. r = call'[e] /\ TabOK(r)
        BY <3>1, <3>2
      <3>4. r.kind = "refresh" /\ r.pc = "commit" => token'[r.old].state = "live"
        BY <3>1, <3>2, <1>0, <1>t DEF TabOK, RefreshOK
      <3>5. r.kind = "refresh" /\ ~InFlight(r) => token'[r.new].state = "absent"
        BY <3>1, <3>2, <1>0, <1>7 DEF TabOK, RefreshOK, Signed, Token, NoToken
      <3>6. Kept /\ signed <= signed' /\ signed' \in Nat
        BY <1>0, <1>t, <1>s DEF Kept
      <3> QED BY <3>3, <3>4, <3>5, <3>6, <1>0, TabOutlasts
    <2> QED BY <2>1, <2>2
  <1>4. TokensOK'
    <2>1. \A u \in Token : Signed(u)' => u <= signed' /\ token'[u].device \in Device /\ token'[u].root \in 1..signed'
      <3> SUFFICES ASSUME NEW u \in Token, Signed(u)'
                   PROVE  u <= signed' /\ token'[u].device \in Device /\ token'[u].root \in 1..signed'
        OBVIOUS
      <3>1. CASE u = t
        BY <3>1, <1>0, <1>t
      <3>2. CASE u # t
        <4>1. u \in Nat /\ u <= signed /\ token[u].device \in Device /\ token[u].root \in 1..signed
          BY <3>2, <1>0 DEF SessionsCore, TokensOK, Signed, Token
        <4> QED BY <3>2, <4>1, <1>0, <1>s
      <3> QED BY <3>1, <3>2
    <2>2. \A e \in Device : jar'[e] # NoToken => Signed(jar[e])' /\ token'[jar'[e]].device = e
      BY <1>0, <1>8 DEF SessionsCore, TokensOK, Signed
    <2> QED BY <2>1, <2>2 DEF TokensOK
  <1>r. \A u \in Token : Signed(u)' /\ token'[u].root = t => u = t
    BY <1>0, <1>t DEF SessionsCore, TokensOK, Signed
  <1>5. OneLiveEach'
    BY <1>0, <1>r DEF SessionsCore, OneLiveEach, Signed, Live
  <1>9. NewIsNews'
    <2>1. \A e \in Running' : call'[e].new # NoToken => OnItsWay(call[e])'
      <3> SUFFICES ASSUME NEW e \in Running', call'[e].new # NoToken PROVE OnItsWay(call[e])'
        OBVIOUS
      <3>1. CASE e = c
        <4>1. \A f \in Running' : call'[f].old # t
          BY <1>1, <1>1a, <1>q1, <1>6, <1>t
        <4>2. \A u \in Live' : token'[u].root = token'[t].root => u = t
          BY <1>0, <1>r DEF Live, Signed
        <4> QED BY <3>1, <1>0, <1>1a, <1>q1, <1>8, <1>t, <1>r, <4>1, <4>2 DEF OnItsWay
      <3>2. CASE e # c
        <4>1. e \in Running /\ call'[e] = call[e] /\ OnItsWay(call[e]) /\ NamesOK(call[e]) /\ TabOK(call[e])
          BY <3>2, <1>1 DEF SessionsCore, NewIsNews, TabsOK, TabOK
        <4>2. call[e].new \in Token /\ call[e].new # t
          BY <4>1, <1>7
        <4>3. \A f \in Running' : call'[f].old # call[e].new
          BY <4>1, <1>1, <1>1a, <1>q1 DEF OnItsWay
        <4>4. InFlight(call[e]) => \A u \in Live' : token'[u].root = token'[call[e].new].root => u = call[e].new
          <5> SUFFICES ASSUME InFlight(call[e]), NEW u \in Live', token'[u].root = token'[call[e].new].root
                       PROVE  u = call[e].new
            OBVIOUS
          <5>1. token[call[e].new].root # t
            BY <4>1, <4>2, <1>t, TokensAssumption DEF NamesOK, SessionsCore, TokensOK, Token
          <5>2. u # t /\ u \in Live /\ token[u].root = token[call[e].new].root
            BY <5>1, <4>2, <1>0 DEF Live
          <5> QED BY <5>2, <4>1 DEF OnItsWay
        <4>5. call[e].kind = "signIn" => \A u \in Token : Signed(u)' /\ token'[u].root = call[e].new => u = call[e].new
          BY <4>1, <4>2, <1>0 DEF OnItsWay, Signed
        <4>6. \A x \in Device : jar'[x] # call[e].new
          BY <4>1, <1>0 DEF OnItsWay
        <4> QED BY <4>1, <4>3, <4>4, <4>5, <4>6 DEF OnItsWay
      <3> QED BY <3>1, <3>2
    <2>2. \A e, f \in Running' : call'[e].new = call'[f].new /\ call'[e].new # NoToken => e = f
      BY <1>1, <1>1a, <1>q1, <1>7 DEF SessionsCore, NewIsNews
    <2>3. \A e, f \in OfKind("refresh")' : AtStep(e, "commit")' /\ AtStep(f, "commit")' /\ call'[e].old = call'[f].old => e = f
      <3>1. \A e \in Running' : AtStep(e, "commit")' => e # c
        BY <1>1a, <1>q1 DEF AtStep
      <3> QED BY <1>1, <3>1 DEF SessionsCore, NewIsNews, OfKind, AtStep
    <2> QED BY <2>1, <2>2, <2>3 DEF NewIsNews
  <1> QED BY <1>2, <1>3, <1>4, <1>5, <1>9 DEF SessionsCore

\* A rotation: what its transaction leaves.
LEMMA Rotates ==
  ASSUME SessionsCore, NEW c \in Running, CommitRotation(c)
  PROVE  LET old == call[c].old
             new == call[c].new
         IN /\ old \in Token /\ new \in Token /\ old # new /\ WentOn(c, "answer", "rotated", call[c].targets)
            /\ token[old].state = "live" /\ token[new].state = "absent"
            /\ call[c].kind = "refresh" /\ call[c].pc = "commit"
            /\ call[c].device \in Device /\ token[old].device = call[c].device /\ OnItsWay(call[c])
            /\ token' \in [Token -> TokenRow]
            /\ token'[old].state = "spent" /\ token'[old].device = token[old].device
            /\ token'[old].root = token[old].root
            /\ token'[new].state = "live" /\ token'[new].device = token[old].device
            /\ token'[new].root = token[old].root
            /\ \A t \in Token : t # old /\ t # new => token'[t] = token[t]
            /\ UNCHANGED <<jar, signed, signedIn, ended, disturbed>>
  <1>q. PICK q \in TabState : q = call[c]
    BY DEF SessionsCore, TokenTypes, Running
  <1>1. q.pc = "commit" /\ AnswerWith(c, "rotated") /\ UNCHANGED <<jar, signed, signedIn, ended, disturbed>>
    BY <1>q DEF CommitRotation, AtStep, sessionHistory
  <1>2. q.kind = "refresh"
    <2>1. TabOK(call[c])
      BY DEF SessionsCore, TabsOK
    <2>2. q.kind \in {"signIn", "refresh", "logout", "reset"}
      BY DEF TabState
    <2> QED BY <1>1, <1>q, <2>1, <2>2 DEF TabOK, SignInOK, LogoutOK, ResetOK, InFlight
  <1>3. RefreshOK(call[c]) /\ NamesOK(call[c]) /\ ~InFlight(call[c])
    BY <1>1, <1>2, <1>q DEF SessionsCore, TabsOK, TabOK, InFlight
  <1>o. PICK old \in Token : old = call[c].old
    BY <1>3 DEF RefreshOK
  <1>n. PICK new \in Token : new = call[c].new
    BY <1>3 DEF RefreshOK
  <1>4. token[old].state = "live" /\ token[new].state = "absent" /\ token[old].device = q.device /\ q.device \in Device
    BY <1>1, <1>3, <1>q, <1>o, <1>n DEF RefreshOK, NamesOK, Signed, NoToken, Token
  <1>5. OnItsWay(call[c])
    BY <1>n DEF SessionsCore, NewIsNews, Token, NoToken
  <1>6. WentOn(c, "answer", "rotated", call[c].targets)
    BY <1>1, GoesToAnswer DEF SessionsCore, Outcomes
  <1>s. PICK spent \in TokenRow : spent = [token[old] EXCEPT !.state = "spent"]
    BY DEF SessionsCore, TokenTypes, TokenRow, TokenState
  <1>f. PICK fresh \in TokenRow : fresh = [state |-> "live", device |-> q.device, root |-> token[old].root]
    BY <1>4 DEF SessionsCore, TokenTypes, TokenRow, TokenState
  <1>7. token' = [token EXCEPT ![old] = spent, ![new] = fresh]
    BY <1>q, <1>o, <1>n, <1>s, <1>f DEF CommitRotation
  <1>8. old # new
    BY <1>4
  <1>9. token' \in [Token -> TokenRow] /\ token'[old] = spent /\ token'[new] = fresh
        /\ \A t \in Token : t # old /\ t # new => token'[t] = token[t]
    BY <1>7, <1>8 DEF SessionsCore, TokenTypes
  <1>10. spent.state = "spent" /\ spent.device = token[old].device /\ spent.root = token[old].root
    BY <1>s DEF SessionsCore, TokenTypes, TokenRow
  <1> QED BY <1>q, <1>o, <1>n, <1>1, <1>2, <1>4, <1>5, <1>6, <1>8, <1>9, <1>10, <1>f

LEMMA RotationKeepsCore ==
  ASSUME SessionsCore, NEW c \in Running, CommitRotation(c)
  PROVE  SessionsCore'
  <1>o. PICK old \in Token : old = call[c].old
    BY Rotates
  <1>n. PICK new \in Token : new = call[c].new
    BY Rotates
  <1>0. /\ token[old].state = "live" /\ token[new].state = "absent" /\ old # new
        /\ call[c].kind = "refresh" /\ call[c].pc = "commit"
        /\ call[c].device \in Device /\ token[old].device = call[c].device
        /\ token' \in [Token -> TokenRow]
        /\ token'[old].state = "spent" /\ token'[old].device = token[old].device
        /\ token'[old].root = token[old].root
        /\ token'[new].state = "live" /\ token'[new].device = token[old].device
        /\ token'[new].root = token[old].root
        /\ \A t \in Token : t # old /\ t # new => token'[t] = token[t]
        /\ UNCHANGED <<jar, signed, signedIn, ended, disturbed>>
    BY Rotates, <1>o, <1>n
  <1>w. WentOn(c, "answer", "rotated", call[c].targets) /\ OnItsWay(call[c])
    BY Rotates
  <1>1. c \in Tab /\ c \in Running' /\ \A e \in Running' : e \in Running /\ e \in Tab /\ (e # c => call'[e] = call[e])
    BY <1>w DEF Running, WentOn
  <1>1a. /\ call'[c].kind = "refresh" /\ call'[c].device = call[c].device /\ call'[c].old = old
         /\ call'[c].new = new /\ call'[c].pc = "answer" /\ call'[c].outcome = "rotated"
         /\ call'[c].targets = call[c].targets
    BY <1>w, <1>o, <1>n, <1>0 DEF WentOn
  <1>1b. \A e \in Running' : call'[e].old = call[e].old /\ call'[e].new = call[e].new
    BY <1>1, <1>1a, <1>o, <1>n
  <1>2. TokenTypes'
    BY <1>0, <1>w DEF SessionsCore, TokenTypes, WentOn
  <1>s. signed \in Nat /\ NamesOK(call[c]) /\ RefreshOK(call[c])
    BY <1>0, TokensAssumption DEF SessionsCore, TokenTypes, TabsOK, TabOK
  <1>k. Kept
    BY <1>0 DEF Kept
  <1>u. \A e \in Running : e # c => call[e].new # new /\ call[e].old # new
    BY <1>n, <1>w DEF SessionsCore, NewIsNews, OnItsWay, Token, NoToken
  <1>3. TabsOK'
    <2> SUFFICES ASSUME NEW e \in Running' PROVE TabOK(call[e])'
      BY DEF TabsOK
    <2>1. CASE e = c
      <3>1. RefreshOK(call[e])'
        BY <2>1, <1>0, <1>1a DEF RefreshOK, InFlight, Signed
      <3>2. \A t \in call[c].targets : t \in Token /\ token'[t].state # "absent"
        BY <1>s, <1>0 DEF NamesOK, Signed
      <3>3. new <= signed /\ new # NoToken /\ old # NoToken
        BY <1>s, <1>n DEF NamesOK, Token, NoToken
      <3>4. NamesOK(call[e])'
        BY <2>1, <1>0, <1>1a, <3>2, <3>3 DEF NamesOK, InFlight, Signed
      <3> QED BY <2>1, <3>1, <3>4, <1>1a DEF TabOK
    <2>2. CASE e # c
      <3>1. e \in Running /\ call'[e] = call[e] /\ TabOK(call[e])
        BY <2>2, <1>1 DEF SessionsCore, TabsOK
      <3>2. PICK r : r = call[e]
        OBVIOUS
      <3>3. r = call'[e] /\ TabOK(r)
        BY <3>1, <3>2
      <3>4. r.kind = "refresh" /\ r.pc = "commit" => token'[r.old].state = "live"
        <4> SUFFICES ASSUME r.kind = "refresh", r.pc = "commit" PROVE token'[r.old].state = "live"
          OBVIOUS
        <4>1. r.old # old
          BY <3>1, <3>2, <2>2, <1>0, <1>o DEF SessionsCore, NewIsNews, OfKind, AtStep
        <4>2. r.old \in Token /\ token[r.old].state = "live"
          BY <3>3 DEF TabOK, RefreshOK
        <4> QED BY <4>1, <4>2, <1>0
      <3>5. r.kind = "refresh" /\ ~InFlight(r) => token'[r.new].state = "absent"
        <4> SUFFICES ASSUME r.kind = "refresh", ~InFlight(r) PROVE token'[r.new].state = "absent"
          OBVIOUS
        <4>1. r.new \in Token /\ token[r.new].state = "absent"
          BY <3>3 DEF TabOK, RefreshOK, Signed
        <4> QED BY <4>1, <3>1, <3>2, <2>2, <1>0, <1>u
      <3> QED BY <3>3, <3>4, <3>5, <1>k, <1>0, <1>s, TabOutlasts
    <2> QED BY <2>1, <2>2
  <1>r. token[old].root \in 1..signed /\ new <= signed
    BY <1>0, <1>s, <1>n DEF SessionsCore, TokensOK, Signed, NamesOK, Token, NoToken
  <1>4. TokensOK'
    BY <1>0, <1>r DEF SessionsCore, TokensOK, Signed, TokenTypes, NoToken
  <1>5. OneLiveEach'
    <2> SUFFICES ASSUME NEW t \in Token, NEW u \in Token, Signed(t)', Signed(u)', token'[t].root = token'[u].root
                 PROVE  /\ token'[t].device = token'[u].device
                        /\ token'[t].state = "live" /\ token'[u].state = "live" => t = u
      BY DEF OneLiveEach, Live
    <2>1. \A x \in Token : Signed(x)' =>
            \E y \in Token :
              /\ Signed(y) /\ token[y].root = token'[x].root /\ token[y].device = token'[x].device
              /\ y = (IF x = new THEN old ELSE x)
              /\ token'[x].state = "live" => token[y].state = "live" /\ x # old
      BY <1>0 DEF Signed
    <2>t. PICK a \in Token :
            /\ Signed(a) /\ token[a].root = token'[t].root /\ token[a].device = token'[t].device
            /\ a = (IF t = new THEN old ELSE t)
            /\ token'[t].state = "live" => token[a].state = "live" /\ t # old
      BY <2>1
    <2>u. PICK b \in Token :
            /\ Signed(b) /\ token[b].root = token'[u].root /\ token[b].device = token'[u].device
            /\ b = (IF u = new THEN old ELSE u)
            /\ token'[u].state = "live" => token[b].state = "live" /\ u # old
      BY <2>1
    <2>3. /\ token[a].device = token[b].device
          /\ token[a].state = "live" /\ token[b].state = "live" => a = b
      <3>1. Signed(a) /\ Signed(b) /\ token[a].root = token[b].root
        BY <2>t, <2>u
      <3>2. token[a].device = token[b].device /\ (a \in Live /\ b \in Live => a = b)
        BY <3>1 DEF SessionsCore, OneLiveEach
      <3> QED BY <3>2 DEF Live
    <2>4. token'[t].device = token'[u].device
      BY <2>t, <2>u, <2>3
    <2> SUFFICES ASSUME token'[t].state = "live", token'[u].state = "live" PROVE t = u
      BY <2>4
    <2>5. a = b /\ t # old /\ u # old
      BY <2>t, <2>u, <2>3
    <2> QED BY <2>5, <2>t, <2>u
  <1>9. NewIsNews'
    <2>1. \A e \in Running' : call'[e].new # NoToken => OnItsWay(call[e])'
      <3> SUFFICES ASSUME NEW e \in Running', call'[e].new # NoToken PROVE OnItsWay(call[e])'
        OBVIOUS
      <3>0. e \in Running /\ OnItsWay(call[e]) /\ call'[e].new = call[e].new
        BY <1>1, <1>1b DEF SessionsCore, NewIsNews
      <3>0a. (\A x \in Device : jar'[x] # call[e].new) /\ \A f \in Running' : call'[f].old # call[e].new
        BY <3>0, <1>0, <1>1, <1>1b DEF OnItsWay
      <3>1. CASE e = c
        <4>1. \A u \in Live' : token'[u].root = token'[new].root => u = new
          BY <1>5, <1>0 DEF OneLiveEach, Live, Signed
        <4> QED BY <3>0, <3>0a, <3>1, <4>1, <1>1a DEF OnItsWay
      <3>2. CASE e # c
        <4>1. call'[e] = call[e] /\ TabOK(call[e]) /\ call[e].new # new /\ call[e].new # old
          BY <3>0, <3>2, <1>1, <1>u, <1>o DEF SessionsCore, TabsOK, OnItsWay
        <4>4. InFlight(call[e]) => \A u \in Live' : token'[u].root = token'[call[e].new].root => u = call[e].new
          <5> SUFFICES ASSUME InFlight(call[e]), NEW u \in Live', token'[u].root = token'[call[e].new].root
                       PROVE  u = call[e].new
            OBVIOUS
          <5>1. call[e].new \in Token /\ token'[call[e].new] = token[call[e].new]
            BY <4>1, <1>0 DEF TabOK, NamesOK
          <5>2. CASE u = new
            <6>1. old \in Live /\ token[old].root = token[call[e].new].root
              BY <5>1, <5>2, <1>0 DEF Live
            <6> QED BY <6>1, <3>0, <4>1 DEF OnItsWay
          <5>3. CASE u # new
            <6>1. u \in Live /\ token[u].root = token[call[e].new].root
              BY <5>1, <5>3, <1>0 DEF Live
            <6> QED BY <6>1, <3>0 DEF OnItsWay
          <5> QED BY <5>2, <5>3
        <4>5. call[e].kind = "signIn" => \A u \in Token : Signed(u)' /\ token'[u].root = call[e].new => u = call[e].new
          <5> SUFFICES ASSUME call[e].kind = "signIn", NEW u \in Token, Signed(u)', token'[u].root = call[e].new
                       PROVE  u = call[e].new
            OBVIOUS
          <5>1. CASE u = new
            <6>1. Signed(old) /\ token[old].root = call[e].new
              BY <5>1, <1>0 DEF Signed
            <6> QED BY <6>1, <3>0, <4>1 DEF OnItsWay
          <5>2. CASE u # new
            <6>1. Signed(u) /\ token[u].root = call[e].new
              BY <5>2, <1>0 DEF Signed
            <6> QED BY <6>1, <3>0 DEF OnItsWay
          <5> QED BY <5>1, <5>2
        <4> QED BY <4>1, <3>0a, <4>4, <4>5 DEF OnItsWay
      <3> QED BY <3>1, <3>2
    <2>2. \A e, f \in Running' : call'[e].new = call'[f].new /\ call'[e].new # NoToken => e = f
      BY <1>1, <1>1b DEF SessionsCore, NewIsNews
    <2>3. \A e, f \in OfKind("refresh")' : AtStep(e, "commit")' /\ AtStep(f, "commit")' /\ call'[e].old = call'[f].old => e = f
      <3>1. \A e \in Running' : AtStep(e, "commit")' => e # c
        BY <1>1a DEF AtStep
      <3> QED BY <1>1, <3>1 DEF SessionsCore, NewIsNews, OfKind, AtStep
    <2> QED BY <2>1, <2>2, <2>3 DEF NewIsNews
  <1> QED BY <1>2, <1>3, <1>4, <1>5, <1>9 DEF SessionsCore

-----------------------------------------------------------------------------
(* The steps of the calls. *)

\* Where a call is tells what it is.
LEMMA KindAt ==
  ASSUME SessionsCore, NEW c \in Tab, call[c].pc # "idle"
  PROVE  /\ c \in Running /\ TabOK(call[c]) /\ NamesOK(call[c]) /\ call[c] \in TabState
         /\ call[c].kind \in {"signIn", "refresh", "logout", "reset"}
         /\ call[c].pc \in {"claim", "commit", "judge", "successor"} => call[c].kind = "refresh"
         /\ call[c].pc \in {"find", "delete"} => call[c].kind = "logout"
         /\ call[c].pc \in {"purge", "purging"} => call[c].kind \in {"refresh", "reset"}
         /\ call[c].kind = "refresh" => RefreshOK(call[c])
         /\ call[c].kind = "logout" => LogoutOK(call[c])
         /\ call[c].kind = "reset" => ResetOK(call[c])
         /\ call[c].outcome \in Outcomes /\ call[c].targets \in SUBSET Token
  <1>1. c \in Running
    BY DEF Running, NoCall
  <1>2. call[c] \in TabState /\ TabOK(call[c])
    BY <1>1 DEF SessionsCore, TokenTypes, TabsOK, Running
  <1>3. call[c].kind \in {"signIn", "refresh", "logout", "reset"} /\ call[c].outcome \in Outcomes /\ call[c].targets \in SUBSET Token
    BY <1>2 DEF TabState, Outcomes
  <1> QED BY <1>1, <1>2, <1>3 DEF TabOK, SignInOK, RefreshOK, LogoutOK, ResetOK, InFlight

\* A call that goes on and leaves the rows alone.
LEMMA StillRows == ASSUME SessionsCore, UNCHANGED token PROVE Faded
  BY DEF SessionsCore, TokenTypes, Faded

LEMMA RunningKinds ==
  ASSUME SessionsCore, NEW c \in Running
  PROVE  c \in Tab /\ call[c].pc # "idle"
  BY DEF SessionsCore, TokenTypes, TabState, Running

LEMMA ClaimMoves ==
  ASSUME SessionsCore, NEW c \in Tab, Claim(c)
  PROVE  Moves(c, IF token[call[c].old].state = "live" THEN "commit" ELSE "judge", call[c].outcome, call[c].targets)
  <1>1. call[c].pc = "claim" /\ ~Locked(call[c].old) /\ UNCHANGED <<token, jar, signed, signedIn, ended, disturbed>>
    BY DEF Claim, AtStep, sessionHistory
  <1>2. c \in Running /\ call[c].kind = "refresh" /\ RefreshOK(call[c]) /\ NamesOK(call[c]) /\ Faded
    BY <1>1, KindAt, StillRows
  <1>t. call[c].targets \in SUBSET Token /\ ended \subseteq 1..signed /\ TokenTypes
    BY <1>1, KindAt DEF SessionsCore, TokenTypes
  <1>p. PICK p \in Places : p = IF token[call[c].old].state = "live" THEN "commit" ELSE "judge"
    BY DEF Places
  <1>3. WentOn(c, p, call[c].outcome, call[c].targets)
    BY <1>2, <1>t, <1>p, GoesTo DEF Claim, Places
  <1>4. Moves(c, p, call[c].outcome, call[c].targets)
    BY <1>1, <1>2, <1>t, <1>p, <1>3 DEF Moves, RefreshOK, NamesOK, InFlight
  <1> QED BY <1>4, <1>p

LEMMA JudgeMoves ==
  ASSUME SessionsCore, NEW c \in Tab, Judge(c)
  PROVE  \/ token[call[c].old].state = "spent" /\ Moves(c, "successor", call[c].outcome, call[c].targets)
         \/ token[call[c].old].state = "old" /\ Moves(c, "purge", "reuse", call[c].targets)
         \/ token[call[c].old].state \notin {"spent", "old"} /\ Moves(c, "answer", "not_found", call[c].targets)
  <1>1. call[c].pc = "judge" /\ UNCHANGED <<token, jar, signed, signedIn, ended, disturbed>>
    BY DEF Judge, AtStep, sessionHistory
  <1>2. c \in Running /\ call[c].kind = "refresh" /\ RefreshOK(call[c]) /\ NamesOK(call[c]) /\ Faded
    BY <1>1, KindAt, StillRows
  <1>t. call[c].targets \in SUBSET Token /\ ended \subseteq 1..signed /\ TokenTypes
    BY <1>1, KindAt DEF SessionsCore, TokenTypes
  <1>3. CASE token[call[c].old].state = "spent"
    <2>1. WentOn(c, "successor", call[c].outcome, call[c].targets)
      BY <1>2, <1>3, <1>t, GoesTo DEF Judge, Places
    <2>2. Moves(c, "successor", call[c].outcome, call[c].targets)
      BY <1>1, <1>2, <1>t, <2>1 DEF Moves, RefreshOK, NamesOK, InFlight
    <2> QED BY <1>3, <2>2
  <1>4. CASE token[call[c].old].state = "old"
    <2>1. WentOn(c, "purge", "reuse", call[c].targets)
      BY <1>2, <1>4, <1>t, GoesToPurge DEF Judge
    <2>2. Moves(c, "purge", "reuse", call[c].targets)
      BY <1>1, <1>2, <1>t, <2>1 DEF Moves, RefreshOK, NamesOK, InFlight
    <2> QED BY <1>4, <2>2
  <1>5. CASE token[call[c].old].state \notin {"spent", "old"}
    <2>1. WentOn(c, "answer", "not_found", call[c].targets)
      BY <1>2, <1>5, <1>t, GoesToAnswer DEF Judge, Outcomes
    <2>2. Moves(c, "answer", "not_found", call[c].targets)
      BY <1>1, <1>2, <1>t, <2>1 DEF Moves, RefreshOK, NamesOK, InFlight
    <2> QED BY <1>5, <2>2
  <1> QED BY <1>3, <1>4, <1>5

LEMMA SuccessorMoves ==
  ASSUME SessionsCore, NEW c \in Tab, FindSuccessor(c)
  PROVE  \/ Live # {} /\ Moves(c, "answer", "raced", call[c].targets)
         \/ Live = {} /\ Moves(c, "purge", "reuse", call[c].targets)
  <1>1. call[c].pc = "successor" /\ UNCHANGED <<token, jar, signed, signedIn, ended, disturbed>>
    BY DEF FindSuccessor, AtStep, sessionHistory
  <1>2. c \in Running /\ call[c].kind = "refresh" /\ RefreshOK(call[c]) /\ NamesOK(call[c]) /\ Faded
    BY <1>1, KindAt, StillRows
  <1>t. call[c].targets \in SUBSET Token /\ ended \subseteq 1..signed /\ TokenTypes
    BY <1>1, KindAt DEF SessionsCore, TokenTypes
  <1>3. CASE Live # {}
    <2>1. WentOn(c, "answer", "raced", call[c].targets)
      BY <1>2, <1>3, <1>t, GoesToAnswer DEF FindSuccessor, Outcomes
    <2>2. Moves(c, "answer", "raced", call[c].targets)
      BY <1>1, <1>2, <1>t, <2>1 DEF Moves, RefreshOK, NamesOK, InFlight
    <2> QED BY <1>3, <2>2
  <1>4. CASE Live = {}
    <2>1. WentOn(c, "purge", "reuse", call[c].targets)
      BY <1>2, <1>4, <1>t, GoesToPurge DEF FindSuccessor
    <2>2. Moves(c, "purge", "reuse", call[c].targets)
      BY <1>1, <1>2, <1>t, <2>1 DEF Moves, RefreshOK, NamesOK, InFlight
    <2> QED BY <1>4, <2>2
  <1> QED BY <1>3, <1>4

LEMMA PurgeStartMoves ==
  ASSUME SessionsCore, NEW c \in Tab, PurgeStart(c)
  PROVE  /\ call[c].pc = "purge" /\ UNCHANGED <<token, signedIn, ended>>
         /\ Moves(c, "purging", call[c].outcome, Rows)
  <1>1. call[c].pc = "purge" /\ UNCHANGED <<token, jar, signed, signedIn, ended, disturbed>>
    BY DEF PurgeStart, AtStep, sessionHistory
  <1>2. /\ c \in Running /\ call[c].kind \in {"refresh", "reset"} /\ NamesOK(call[c]) /\ Faded
        /\ call[c].kind = "refresh" => RefreshOK(call[c])
        /\ call[c].kind = "reset" => ResetOK(call[c])
    BY <1>1, KindAt, StillRows
  <1>t. Rows \in SUBSET Token /\ Live \subseteq Rows /\ ended \subseteq 1..signed /\ TokenTypes
    BY DEF SessionsCore, TokenTypes, Rows, Live
  <1>s. \A t \in Rows : Signed(t)
    BY DEF Rows, Signed
  <1>3. WentOn(c, "purging", call[c].outcome, Rows)
    BY <1>2, <1>t, GoesAtPurge DEF PurgeStart
  <1>4. Moves(c, "purging", call[c].outcome, Rows)
    BY <1>1, <1>2, <1>t, <1>s, <1>3 DEF Moves, RefreshOK, ResetOK, InFlight
  <1> QED BY <1>1, <1>4

LEMMA PurgeMoves ==
  ASSUME SessionsCore, NEW c \in Tab, Purge(c)
  PROVE  LET gone == call[c].targets
             reset == call[c].kind = "reset"
         IN /\ call[c].pc = "purging" /\ call[c].kind \in {"refresh", "reset"} /\ gone \subseteq Token
            /\ \A t \in Token : /\ t \in gone => token'[t].state = "deleted" /\ ~Locked(t)
                                /\ t \notin gone => token'[t] = token[t]
            /\ Moves(c, "answer", IF reset THEN "none" ELSE call[c].outcome, {})
            /\ ended' = (IF reset THEN ended \cup {token[t].root : t \in gone} ELSE ended)
            /\ signedIn' = (IF reset THEN {d \in signedIn : jar[d] \notin gone} ELSE signedIn)
  <1>g. PICK gone \in SUBSET Token : gone = call[c].targets
    BY KindAt DEF Purge, AtStep
  <1>1. /\ call[c].pc = "purging" /\ UNCHANGED <<jar, signed, disturbed>> /\ \A t \in gone : ~Locked(t)
        /\ ended' = (IF call[c].kind = "reset" THEN ended \cup {token[t].root : t \in gone} ELSE ended)
        /\ signedIn' = (IF call[c].kind = "reset" THEN {d \in signedIn : jar[d] \notin gone} ELSE signedIn)
        /\ token' = [t \in Token |-> IF t \in gone THEN [token[t] EXCEPT !.state = "deleted"] ELSE token[t]]
    BY <1>g DEF Purge, AtStep
  <1>2. /\ c \in Running /\ call[c].kind \in {"refresh", "reset"} /\ NamesOK(call[c])
        /\ call[c].kind = "refresh" => RefreshOK(call[c])
        /\ call[c].kind = "reset" => ResetOK(call[c])
        /\ call[c].outcome \in Outcomes
    BY <1>1, KindAt
  <1>s. \A t \in gone : Signed(t)
    BY <1>2, <1>g DEF NamesOK
  <1>d. \A t \in Token : /\ [token[t] EXCEPT !.state = "deleted"] \in TokenRow
                         /\ [token[t] EXCEPT !.state = "deleted"].state = "deleted"
                         /\ [token[t] EXCEPT !.state = "deleted"].device = token[t].device
                         /\ [token[t] EXCEPT !.state = "deleted"].root = token[t].root
    BY DEF SessionsCore, TokenTypes, TokenRow, TokenState
  <1>3. /\ token' \in [Token -> TokenRow]
        /\ \A t \in Token : token'[t] = IF t \in gone THEN [token[t] EXCEPT !.state = "deleted"] ELSE token[t]
    BY <1>1, <1>d DEF SessionsCore, TokenTypes
  <1>4. Faded
    BY <1>1, <1>s, <1>d, <1>3 DEF Faded, Signed
  <1>o. PICK o \in Outcomes : o = IF call[c].kind = "reset" THEN "none" ELSE call[c].outcome
    BY <1>2 DEF Outcomes
  <1>c. call' = [call EXCEPT ![c].pc = "answer", ![c].targets = {}, ![c].outcome = o]
    BY <1>o DEF Purge
  <1>5. WentOn(c, "answer", o, {})
    BY <1>c, <1>2, GoesFromPurge DEF SessionsCore
  <1>6. signedIn' \subseteq signedIn
    BY <1>1
  <1>7. ended' \subseteq 1..signed
    <2>1. \A t \in gone : token[t].root \in 1..signed
      BY <1>s DEF SessionsCore, TokensOK
    <2> QED BY <1>1, <2>1 DEF SessionsCore, TokenTypes
  <1>8. Moves(c, "answer", o, {})
    BY <1>1, <1>2, <1>4, <1>5, <1>6, <1>7, <1>o DEF Moves, RefreshOK, ResetOK, InFlight
  <1>9. \A t \in Token : /\ t \in gone => token'[t].state = "deleted" /\ ~Locked(t)
                         /\ t \notin gone => token'[t] = token[t]
    BY <1>1, <1>3, <1>d
  <1> QED BY <1>1, <1>2, <1>8, <1>9, <1>g, <1>o

LEMMA FindLiveMoves ==
  ASSUME SessionsCore, NEW c \in Tab, FindLive(c)
  PROVE  /\ call[c].kind = "logout" /\ call[c].pc = "find" /\ UNCHANGED token
         /\ \/ /\ call[c].old \in Live /\ UNCHANGED <<signedIn, ended>>
               /\ Moves(c, "delete", call[c].outcome, call[c].targets)
            \/ /\ call[c].old \notin Live /\ signedIn' = signedIn \ {call[c].device}
               /\ ended' = ended \cup {token[call[c].old].root}
               /\ Moves(c, "answer", "out", call[c].targets)
  <1>1. call[c].pc = "find" /\ UNCHANGED <<token, jar, signed, disturbed>>
    BY DEF FindLive, AtStep
  <1>2. c \in Running /\ call[c].kind = "logout" /\ LogoutOK(call[c]) /\ NamesOK(call[c]) /\ Faded
    BY <1>1, KindAt, StillRows
  <1>t. call[c].targets \in SUBSET Token /\ call[c].outcome \in Outcomes /\ ended \subseteq 1..signed /\ TokenTypes
    BY <1>1, KindAt DEF SessionsCore, TokenTypes
  <1>3. CASE call[c].old \in Live
    <2>1. UNCHANGED <<signedIn, ended>> /\ To(c, "delete")
      BY <1>3 DEF FindLive
    <2>2. WentOn(c, "delete", call[c].outcome, call[c].targets)
      BY <1>2, <1>t, <2>1, GoesTo DEF Places
    <2>3. call[c].outcome # "rotated"
      BY <1>1, <1>2 DEF LogoutOK
    <2>4. Moves(c, "delete", call[c].outcome, call[c].targets)
      BY <1>1, <1>2, <1>t, <2>1, <2>2, <2>3 DEF Moves, LogoutOK, NamesOK
    <2> QED BY <1>1, <1>2, <1>3, <2>1, <2>4
  <1>4. CASE call[c].old \notin Live
    <2>1. AnswerWith(c, "out") /\ signedIn' = signedIn \ {call[c].device} /\ ended' = ended \cup {token[call[c].old].root}
      BY <1>4 DEF FindLive
    <2>2. WentOn(c, "answer", "out", call[c].targets)
      BY <1>2, <1>t, <2>1, GoesToAnswer DEF Outcomes
    <2>3. token[call[c].old].root \in 1..signed
      BY <1>2 DEF LogoutOK, NamesOK, SessionsCore, TokensOK, Token, NoToken
    <2>4. Moves(c, "answer", "out", call[c].targets)
      BY <1>1, <1>2, <1>t, <2>1, <2>2, <2>3 DEF Moves, LogoutOK, NamesOK
    <2> QED BY <1>1, <1>2, <1>4, <2>1, <2>4
  <1> QED BY <1>3, <1>4

LEMMA DeleteMoves ==
  ASSUME SessionsCore, NEW c \in Tab, DeleteById(c)
  PROVE  /\ call[c].kind = "logout" /\ call[c].pc = "delete"
         /\ token'[call[c].old].state = "deleted" /\ ~Locked(call[c].old)
         /\ \A t \in Token : t # call[c].old => token'[t] = token[t]
         /\ signedIn' = signedIn \ {call[c].device}
         /\ ended' = ended \cup {token[call[c].old].root}
         /\ Moves(c, "answer", "out", call[c].targets)
  <1>1. /\ call[c].pc = "delete" /\ UNCHANGED <<jar, signed, disturbed>> /\ ~Locked(call[c].old)
        /\ AnswerWith(c, "out") /\ signedIn' = signedIn \ {call[c].device} /\ ended' = ended \cup {token[call[c].old].root}
    BY DEF DeleteById, AtStep
  <1>2. c \in Running /\ call[c].kind = "logout" /\ LogoutOK(call[c]) /\ NamesOK(call[c])
    BY <1>1, KindAt
  <1>t. call[c].targets \in SUBSET Token /\ ended \subseteq 1..signed /\ TokenTypes
    BY <1>1, KindAt DEF SessionsCore, TokenTypes
  <1>o. PICK old \in Token : old = call[c].old
    BY <1>2 DEF LogoutOK
  <1>s. token[old].state # "absent" /\ token[old].root \in 1..signed
    BY <1>2, <1>o DEF NamesOK, SessionsCore, TokensOK, Token, NoToken, Signed
  <1>d. PICK row0 \in TokenRow : row0 = [token[old] EXCEPT !.state = "deleted"]
    BY DEF SessionsCore, TokenTypes, TokenRow, TokenState
  <1>e. row0.state = "deleted" /\ row0.device = token[old].device /\ row0.root = token[old].root
    BY <1>d DEF SessionsCore, TokenTypes, TokenRow
  <1>3. token' = [token EXCEPT ![old] = row0]
    BY <1>o, <1>d DEF DeleteById
  <1>4. token' \in [Token -> TokenRow] /\ token'[old] = row0 /\ \A t \in Token : t # old => token'[t] = token[t]
    BY <1>3 DEF SessionsCore, TokenTypes
  <1>5. Faded
    BY <1>1, <1>o, <1>s, <1>e, <1>4 DEF Faded
  <1>6. WentOn(c, "answer", "out", call[c].targets)
    BY <1>1, <1>2, <1>t, GoesToAnswer DEF Outcomes
  <1>7. Moves(c, "answer", "out", call[c].targets)
    BY <1>1, <1>2, <1>t, <1>s, <1>o, <1>5, <1>6 DEF Moves, LogoutOK, NamesOK
  <1> QED BY <1>1, <1>2, <1>4, <1>e, <1>7, <1>o

LEMMA GraceFades ==
  ASSUME SessionsCore, NEW t \in Token, GraceEnds(t)
  PROVE  /\ Faded /\ token[t].state = "spent" /\ token'[t].state = "old"
         /\ \A u \in Token : u # t => token'[u] = token[u]
         /\ UNCHANGED <<jar, call, signed, signedIn, ended>> /\ disturbed \subseteq disturbed'
         /\ \A c \in Running : call[c].old = t => call[c].device \in disturbed'
  <1> USE DEF GraceEnds
  <1>0. token[t] \in TokenRow /\ [token[t] EXCEPT !.state = "old"] \in TokenRow
    BY DEF SessionsCore, TokenTypes, TokenRow, TokenState
  <1>1. token' = [token EXCEPT ![t] = [token[t] EXCEPT !.state = "old"]]
    OBVIOUS
  <1>2. ~Locked(t)
    BY DEF Locked, SessionsCore, TabsOK, TabOK, RefreshOK, OfKind, AtStep, Running
  <1>3. Faded
    BY <1>0, <1>1, <1>2 DEF Faded, SessionsCore, TokenTypes, Signed, TokenRow
  <1>4. token'[t].state = "old" /\ \A u \in Token : u # t => token'[u] = token[u]
    BY <1>0, <1>1 DEF SessionsCore, TokenTypes, TokenRow
  <1> QED BY <1>3, <1>4

-----------------------------------------------------------------------------
(* The arrivals. *)

LEMMA NewCalls ==
  ASSUME NEW k \in {"refresh", "logout", "reset"}, NEW p \in Places, NEW d \in Device \cup {"none"},
         NEW old \in Token \cup {NoToken}, NEW new \in Token \cup {NoToken}
  PROVE  /\ NewCall(k, p, d, old, new) \in TabState
         /\ NewCall(k, p, d, old, new).kind = k /\ NewCall(k, p, d, old, new).pc = p
         /\ NewCall(k, p, d, old, new).device = d /\ NewCall(k, p, d, old, new).old = old
         /\ NewCall(k, p, d, old, new).new = new /\ NewCall(k, p, d, old, new).outcome = "none"
         /\ NewCall(k, p, d, old, new).targets = {}
  BY DEF NewCall, TabState, Places

\* What an arrival of kind k changes, q being the call that starts.
ComesAs(c, k, d, q) ==
  /\ c \in Tab /\ q \in TabState /\ CameIn(c, q) /\ UNCHANGED <<token, jar, signedIn, ended>>
  /\ disturbed' \subseteq Device /\ Disturbs(k, d) /\ q.kind = k /\ q.device = d
  /\ q.outcome = "none" /\ q.targets = {} /\ TabOK(q)'

LEMMA BeginsComes ==
  ASSUME SessionsCore, NEW c \in Tab, NEW k \in {"refresh", "logout", "reset"}, NEW p \in Places,
         NEW d, d \in Device \/ (d = "none" /\ k = "reset"),
         NEW old \in Token \cup {NoToken}, NEW new \in Token \cup {NoToken}, Begins(c, k, p, d, old, new)
  PROVE  /\ CameIn(c, NewCall(k, p, d, old, new))
         /\ Disturbs(k, d) /\ disturbed' \subseteq Device
  <1>q. PICK q \in TabState : q = NewCall(k, p, d, old, new)
    BY NewCalls
  <1>1. call[c] = NoCall /\ call' = [call EXCEPT ![c] = q] /\ Disturbs(k, d)
    BY <1>q DEF Begins
  <1>2. CameIn(c, q)
    BY <1>1, ComesIn DEF SessionsCore
  <1>4. disturbed' \subseteq Device
    <2>1. CASE k = "reset"
      BY <2>1, <1>1 DEF Disturbs, SessionsCore, TokenTypes
    <2>2. CASE k # "reset" /\ d \in Device
      BY <2>2, <1>1 DEF Disturbs, SessionsCore, TokenTypes
    <2> QED BY <2>1, <2>2
  <1> QED BY <1>1, <1>2, <1>4, <1>q

LEMMA RefreshComes ==
  ASSUME SessionsCore, NEW c \in Tab, NEW d \in Device, StartRefresh(c, d)
  PROVE  \E q \in TabState :
           /\ ComesAs(c, "refresh", d, q) /\ q.pc = "claim" /\ q.old = jar[d] /\ jar[d] \in Token
           /\ q.new = signed + 1 /\ signed' = signed + 1 /\ signed + 1 \in Token
  <1>1. /\ jar[d] # NoToken /\ signed + 1 \in Token /\ signed' = signed + 1 /\ UNCHANGED <<token, jar, signedIn, ended>>
        /\ Begins(c, "refresh", "claim", d, jar[d], signed + 1)
    BY DEF StartRefresh
  <1>o. PICK old \in Token : old = jar[d]
    BY <1>1 DEF SessionsCore, TokenTypes
  <1>n. PICK new \in Token : new = signed + 1
    BY <1>1
  <1>2. /\ CameIn(c, NewCall("refresh", "claim", d, old, new))
        /\ Disturbs("refresh", d) /\ disturbed' \subseteq Device
    BY <1>1, <1>o, <1>n, BeginsComes DEF Places
  <1>q. PICK q \in TabState :
           /\ q = NewCall("refresh", "claim", d, old, new) /\ q.kind = "refresh" /\ q.pc = "claim" /\ q.device = d
           /\ q.old = old /\ q.new = new /\ q.outcome = "none" /\ q.targets = {}
    BY NewCalls DEF Places
  <1>3. token[old].state # "absent" /\ token[old].device = d
    BY <1>1, <1>o DEF SessionsCore, TokensOK, Signed
  <1>4. token[new].state = "absent" /\ new <= signed'
    BY <1>1, <1>n, TokensAssumption DEF SessionsCore, TokensOK, TokenTypes, Signed, Token
  <1>5. RefreshOK(q)' /\ NamesOK(q)'
    BY <1>q, <1>1, <1>3, <1>4 DEF RefreshOK, NamesOK, InFlight, Signed
  <1>6. TabOK(q)'
    BY <1>5, <1>q DEF TabOK
  <1>7. CameIn(c, q)
    BY <1>2, <1>q DEF CameIn
  <1>8. ComesAs(c, "refresh", d, q)
    BY <1>1, <1>2, <1>6, <1>7, <1>q DEF ComesAs
  <1> QED BY <1>8, <1>q, <1>1, <1>o, <1>n

LEMMA LogoutComes ==
  ASSUME SessionsCore, NEW c \in Tab, NEW d \in Device, StartLogout(c, d)
  PROVE  \E q \in TabState :
           /\ ComesAs(c, "logout", d, q) /\ q.pc = "find" /\ q.old = jar[d] /\ jar[d] \in Token
           /\ q.new = NoToken /\ signed' = signed
  <1>1. /\ jar[d] # NoToken /\ signed' = signed /\ UNCHANGED <<token, jar, signedIn, ended>>
        /\ Begins(c, "logout", "find", d, jar[d], NoToken)
    BY DEF StartLogout
  <1>o. PICK old \in Token : old = jar[d]
    BY <1>1 DEF SessionsCore, TokenTypes
  <1>2. /\ CameIn(c, NewCall("logout", "find", d, old, NoToken))
        /\ Disturbs("logout", d) /\ disturbed' \subseteq Device
    BY <1>1, <1>o, BeginsComes DEF Places
  <1>q. PICK q \in TabState :
           /\ q = NewCall("logout", "find", d, old, NoToken) /\ q.kind = "logout" /\ q.pc = "find" /\ q.device = d
           /\ q.old = old /\ q.new = NoToken /\ q.outcome = "none" /\ q.targets = {}
    BY NewCalls DEF Places
  <1>3. token[old].state # "absent" /\ token[old].device = d
    BY <1>1, <1>o DEF SessionsCore, TokensOK, Signed
  <1>5. LogoutOK(q)' /\ NamesOK(q)'
    BY <1>q, <1>1, <1>3 DEF LogoutOK, NamesOK, InFlight, Signed
  <1>6. TabOK(q)'
    BY <1>5, <1>q DEF TabOK
  <1>7. CameIn(c, q)
    BY <1>2, <1>q DEF CameIn
  <1>8. ComesAs(c, "logout", d, q)
    BY <1>1, <1>2, <1>6, <1>7, <1>q DEF ComesAs
  <1> QED BY <1>8, <1>q, <1>1, <1>o

LEMMA ResetComes ==
  ASSUME SessionsCore, NEW c \in Tab, StartReset(c)
  PROVE  \E q \in TabState :
           /\ ComesAs(c, "reset", "none", q) /\ q.pc = "purge" /\ q.old = NoToken
           /\ q.new = NoToken /\ signed' = signed
  <1>1. /\ signed' = signed /\ UNCHANGED <<token, jar, signedIn, ended>>
        /\ Begins(c, "reset", "purge", "none", NoToken, NoToken)
    BY DEF StartReset
  <1>2. /\ CameIn(c, NewCall("reset", "purge", "none", NoToken, NoToken))
        /\ Disturbs("reset", "none") /\ disturbed' \subseteq Device
    BY <1>1, BeginsComes DEF Places
  <1>q. PICK q \in TabState :
           /\ q = NewCall("reset", "purge", "none", NoToken, NoToken) /\ q.kind = "reset" /\ q.pc = "purge"
           /\ q.device = "none" /\ q.old = NoToken /\ q.new = NoToken /\ q.outcome = "none" /\ q.targets = {}
    BY NewCalls DEF Places
  <1>5. ResetOK(q)' /\ NamesOK(q)'
    BY <1>q DEF ResetOK, NamesOK, InFlight
  <1>6. TabOK(q)'
    BY <1>5, <1>q DEF TabOK
  <1>7. CameIn(c, q)
    BY <1>2, <1>q DEF CameIn
  <1>8. ComesAs(c, "reset", "none", q)
    BY <1>1, <1>2, <1>6, <1>7, <1>q DEF ComesAs
  <1> QED BY <1>8, <1>q, <1>1

-----------------------------------------------------------------------------
(* The calls that are over. *)

LEMMA AnswerGoes ==
  ASSUME SessionsCore, NEW c \in Tab, ReceiveAnswer(c)
  PROVE  /\ c \in Running /\ WentOut(c) /\ call[c].pc = "answer" /\ UNCHANGED <<token, signed, ended, disturbed>>
         /\ signedIn' = (IF call[c].kind = "signIn" THEN signedIn \cup {call[c].device} ELSE signedIn)
         /\ jar' \in [Device -> Token \cup {NoToken}]
         /\ \A d \in Device : d # call[c].device => jar'[d] = jar[d]
         /\ call[c].device \in Device =>
              /\ call[c].outcome = "rotated" => jar'[call[c].device] = call[c].new
              /\ call[c].outcome \in {"raced", "none"} => jar'[call[c].device] = jar[call[c].device]
              /\ call[c].outcome \in {"reuse", "not_found", "out"} => jar'[call[c].device] = NoToken
  <1>1. c \in Running /\ call[c].pc = "answer" /\ call[c].outcome \in Outcomes
    BY KindAt DEF ReceiveAnswer, AtStep
  <1>2. WentOut(c)
    BY GoesOut DEF ReceiveAnswer, SessionsCore
  <1>3. /\ call[c].outcome = "rotated" => Cookie(c) = call[c].new
        /\ call[c].outcome \in {"raced", "none"} => Cookie(c) = jar[call[c].device]
        /\ call[c].outcome \in {"reuse", "not_found", "out"} => Cookie(c) = NoToken
    BY DEF Cookie
  <1>4. call[c].device \in Device => Cookie(c) \in Token \cup {NoToken}
    <2>1. call[c].outcome = "rotated" => call[c].new \in Token
      BY <1>1 DEF SessionsCore, TabsOK, TabOK, NamesOK, InFlight
    <2> QED BY <1>1, <1>3, <2>1 DEF Outcomes, SessionsCore, TokenTypes
  <1>5. /\ jar' = (IF call[c].device \in Device THEN [jar EXCEPT ![call[c].device] = Cookie(c)] ELSE jar)
        /\ jar \in [Device -> Token \cup {NoToken}]
    BY DEF ReceiveAnswer, SessionsCore, TokenTypes
  <1> QED BY <1>1, <1>2, <1>3, <1>4, <1>5 DEF ReceiveAnswer

LEMMA LossGoes ==
  ASSUME SessionsCore, NEW c \in Tab, Lose(c)
  PROVE  /\ c \in Running /\ WentOut(c) /\ UNCHANGED <<token, jar, signed, signedIn, ended>>
         /\ disturbed' = (IF call[c].pc = "answer" /\ call[c].kind = "refresh"
                         THEN disturbed \cup {call[c].device} ELSE disturbed)
         /\ disturbed' \subseteq Device
  <1>1. c \in Running /\ WentOut(c)
    BY GoesOut DEF Lose, SessionsCore, Running
  <1>2. call[c].kind = "refresh" => call[c].device \in Device
    BY <1>1 DEF SessionsCore, TabsOK, TabOK, RefreshOK
  <1> QED BY <1>1, <1>2 DEF Lose, AtStep, SessionsCore, TokenTypes

-----------------------------------------------------------------------------
(* The undisturbed devices. *)

LEMMA MovesKeepOrder ==
  ASSUME SessionsCore, UndisturbedOrderly, NEW c, NEW p, NEW o, NEW ts, Moves(c, p, o, ts)
  PROVE  UndisturbedOrderly'
  <1> SUFFICES ASSUME NEW d \in Device, d \notin disturbed' PROVE Orderly(d)'
    BY DEF UndisturbedOrderly
  <1>m. /\ c \in Running /\ WentOn(c, p, o, ts) /\ Faded /\ UNCHANGED <<jar, signed, disturbed>>
        /\ call[c].pc # "answer" /\ o # "rotated" /\ (p = "purging" => Live \subseteq ts)
        /\ call[c].kind = "logout" => call[c].pc \in {"find", "delete"}
    BY DEF Moves, SessionsCore, TabsOK, TabOK, LogoutOK
  <1>1. Orderly(d)
    BY <1>m DEF UndisturbedOrderly
  <1>2. /\ \A e : e \in Running' <=> e \in Running
        /\ \A e \in Running : /\ call'[e].kind = call[e].kind /\ call'[e].device = call[e].device
                              /\ call'[e].old = call[e].old /\ call'[e].new = call[e].new
                              /\ e # c => call'[e] = call[e]
    BY <1>m DEF Running, WentOn
  <1>3. /\ \A e : e \in On(d)' <=> e \in On(d)
        /\ \A e : e \in OfKind("reset")' <=> e \in OfKind("reset")
        /\ \A e \in On(d) \cup OfKind("reset") : e \in Running
    BY <1>2 DEF On, OfKind
  <1>4. \A u \in Live' : u \in Live /\ u \in Token
    BY <1>m DEF Faded, Live
  <1>5. \A t \in Token : token'[t].device = token[t].device /\ token'[t].root = token[t].root
    BY <1>m DEF Faded
  <1>6. jar[d] # NoToken => jar[d] \in Token
    BY DEF SessionsCore, TokenTypes
  <1>7. (\A e, f \in On(d) : e # f => call[e].kind = "refresh" /\ call[f].kind = "refresh")'
    BY <1>1, <1>2, <1>3 DEF Orderly
  <1>8. (OfKind("reset") # {} => On(d) = {})'
    BY <1>1, <1>3 DEF Orderly
  <1>9. (\A e \in On(d) : call[e].kind = "logout" /\ call[e].pc \in {"find", "delete"} => call[e].old = jar[d])'
    BY <1>1, <1>2, <1>3, <1>m DEF Orderly
  <1>10. (\A u \in Live : jar[d] # NoToken /\ token[u].root = token[jar[d]].root =>
           u = jar[d] \/ \E e \in On(d) : InFlight(call[e]) /\ call[e].new = u)'
    <2> SUFFICES ASSUME NEW u \in Live', jar[d] # NoToken, token'[u].root = token'[jar[d]].root, u # jar[d]
                 PROVE  \E e \in On(d)' : InFlight(call'[e]) /\ call'[e].new = u
      BY <1>m
    <2>1. u \in Live /\ token[u].root = token[jar[d]].root
      BY <1>4, <1>5, <1>6
    <2>2. PICK e \in On(d) : InFlight(call[e]) /\ call[e].new = u
      BY <1>1, <2>1 DEF Orderly
    <2>3. e # c
      BY <2>2, <1>m DEF InFlight
    <2> QED BY <2>2, <2>3, <1>2, <1>3
  <1>11. (\A e \in OfKind("reset") : AtStep(e, "purging") => {t \in Live : token[t].device = d} \subseteq call[e].targets)'
    <2> SUFFICES ASSUME NEW e \in OfKind("reset")', call'[e].pc = "purging", NEW t \in Live', token'[t].device = d
                 PROVE  t \in call'[e].targets
      BY DEF AtStep
    <2>1. t \in Live /\ token[t].device = d /\ e \in OfKind("reset") /\ e \in Running
      BY <1>3, <1>4, <1>5
    <2>2. CASE e = c
      BY <2>1, <2>2, <1>m DEF WentOn
    <2>3. CASE e # c
      BY <2>1, <2>3, <1>1, <1>2 DEF Orderly, AtStep
    <2> QED BY <2>2, <2>3
  <1> QED BY <1>7, <1>8, <1>9, <1>10, <1>11 DEF Orderly

LEMMA GraceKeepsOrder == ASSUME SessionsCore, UndisturbedOrderly, NEW t \in Token, GraceEnds(t) PROVE UndisturbedOrderly'
  <1> SUFFICES ASSUME NEW d \in Device, d \notin disturbed' PROVE Orderly(d)'
    BY DEF UndisturbedOrderly
  <1>m. Faded /\ UNCHANGED <<jar, call, signed, signedIn, ended>> /\ disturbed \subseteq disturbed'
    BY GraceFades
  <1>1. Orderly(d)
    BY <1>m DEF UndisturbedOrderly
  <1>2. \A u \in Live' : u \in Live /\ u \in Token
    BY <1>m DEF Faded, Live
  <1>3. \A u \in Token : token'[u].device = token[u].device /\ token'[u].root = token[u].root
    BY <1>m DEF Faded
  <1>4. jar[d] # NoToken => jar[d] \in Token
    BY DEF SessionsCore, TokenTypes
  <1>5. On(d)' = On(d) /\ OfKind("reset")' = OfKind("reset")
    BY <1>m DEF On, OfKind, Running
  <1>6. (\A u \in Live : jar[d] # NoToken /\ token[u].root = token[jar[d]].root =>
           u = jar[d] \/ \E e \in On(d) : InFlight(call[e]) /\ call[e].new = u)'
    BY <1>1, <1>2, <1>3, <1>4, <1>5, <1>m DEF Orderly, InFlight
  <1>7. (\A e \in OfKind("reset") : AtStep(e, "purging") => {u \in Live : token[u].device = d} \subseteq call[e].targets)'
    BY <1>1, <1>2, <1>3, <1>5, <1>m DEF Orderly, AtStep
  <1>8. /\ (\A e, f \in On(d) : e # f => call[e].kind = "refresh" /\ call[f].kind = "refresh")'
        /\ (OfKind("reset") # {} => On(d) = {})'
        /\ (\A e \in On(d) : call[e].kind = "logout" /\ call[e].pc \in {"find", "delete"} => call[e].old = jar[d])'
    BY <1>1, <1>5, <1>m DEF Orderly
  <1> QED BY <1>6, <1>7, <1>8 DEF Orderly

\* A call that is over leaves the device in order, if what it put in the jar is what it brought.
LEMMA LeavingKeepsOrder ==
  ASSUME SessionsCore, UndisturbedOrderly, NEW c \in Running, WentOut(c), UNCHANGED token, disturbed \subseteq disturbed',
         \A d \in Device : d # call[c].device => jar'[d] = jar[d],
         call[c].device \in Device \ disturbed' =>
           \/ InFlight(call[c]) /\ jar'[call[c].device] = call[c].new
           \/ jar'[call[c].device] = NoToken
           \/ jar'[call[c].device] = jar[call[c].device] /\ (InFlight(call[c]) => call[c].kind = "signIn")
  PROVE  UndisturbedOrderly'
  <1> SUFFICES ASSUME NEW d \in Device, d \notin disturbed' PROVE Orderly(d)'
    BY DEF UndisturbedOrderly
  <1>1. Orderly(d)
    BY DEF UndisturbedOrderly
  <1>2. \A e \in Running' : e # c /\ e \in Running /\ call'[e] = call[e]
    BY DEF WentOut, Running
  <1>3. \A e \in Running : e # c => e \in Running' /\ call'[e] = call[e]
    BY DEF WentOut, Running
  <1>4. \A e \in On(d)' : e \in On(d) /\ e # c /\ call'[e] = call[e]
    BY <1>2 DEF On
  <1>5. \A e \in OfKind("reset")' : e \in OfKind("reset") /\ e # c /\ call'[e] = call[e]
    BY <1>2 DEF OfKind
  <1>6. Live' = Live
    BY DEF Live
  <1>7. (\A e, f \in On(d) : e # f => call[e].kind = "refresh" /\ call[f].kind = "refresh")'
    BY <1>1, <1>4 DEF Orderly
  <1>8. (OfKind("reset") # {} => On(d) = {})'
    BY <1>1, <1>4, <1>5 DEF Orderly
  <1>9. (\A e \in On(d) : call[e].kind = "logout" /\ call[e].pc \in {"find", "delete"} => call[e].old = jar[d])'
    <2> SUFFICES ASSUME NEW e \in On(d)', call'[e].kind = "logout", call'[e].pc \in {"find", "delete"}
                 PROVE  call'[e].old = jar'[d]
      OBVIOUS
    <2>1. e \in On(d) /\ e # c /\ call[e].old = jar[d] /\ call[e].kind = "logout"
      BY <1>1, <1>4 DEF Orderly
    <2>2. call[c].device # d
      BY <2>1, <1>1 DEF Orderly, On
    <2> QED BY <2>1, <2>2, <1>4
  <1>10. (\A u \in Live : jar[d] # NoToken /\ token[u].root = token[jar[d]].root =>
           u = jar[d] \/ \E e \in On(d) : InFlight(call[e]) /\ call[e].new = u)'
    <2> SUFFICES ASSUME NEW u \in Live, jar'[d] # NoToken, token[u].root = token[jar'[d]].root, u # jar'[d]
                 PROVE  \E e \in On(d)' : InFlight(call'[e]) /\ call'[e].new = u
      BY <1>6
    <2>1. CASE call[c].device = d /\ InFlight(call[c]) /\ jar'[d] = call[c].new
      <3>1. OnItsWay(call[c])
        BY <2>1 DEF SessionsCore, NewIsNews
      <3> QED BY <2>1, <3>1 DEF OnItsWay
    <2>2. CASE call[c].device # d \/ (jar'[d] = jar[d] /\ (InFlight(call[c]) => call[c].kind = "signIn"))
      <3>1. jar'[d] = jar[d]
        BY <2>2
      <3>2. PICK e \in On(d) : InFlight(call[e]) /\ call[e].new = u
        BY <3>1, <1>1 DEF Orderly
      <3>3. e # c
        <4> SUFFICES ASSUME e = c PROVE FALSE
          OBVIOUS
        <4>1. call[c].device = d /\ InFlight(call[c]) /\ call[c].kind = "signIn" /\ call[c].new = u
          BY <3>2, <2>2 DEF On
        <4>2. SignInOK(call[c]) /\ u # NoToken
          BY <4>1 DEF SessionsCore, TabsOK, TabOK, SignInOK, Token, NoToken
        <4>3. OnItsWay(call[c])
          BY <4>1, <4>2 DEF SessionsCore, NewIsNews
        <4>4. jar[d] \in Token /\ Signed(jar[d])
          BY <3>1 DEF SessionsCore, TokensOK, TokenTypes
        <4>5. token[jar[d]].root = u
          BY <3>1, <4>1, <4>2 DEF SignInOK
        <4> QED BY <4>1, <4>3, <4>4, <4>5, <3>1 DEF OnItsWay
      <3> QED BY <3>2, <3>3, <1>3 DEF On
    <2> QED BY <2>1, <2>2
  <1>11. (\A e \in OfKind("reset") : AtStep(e, "purging") => {t \in Live : token[t].device = d} \subseteq call[e].targets)'
    BY <1>1, <1>5, <1>6 DEF Orderly, AtStep
  <1> QED BY <1>7, <1>8, <1>9, <1>10, <1>11 DEF Orderly

\* An arrival, with the token it may have created.
LEMMA ArrivingKeepsOrder ==
  ASSUME SessionsCore, UndisturbedOrderly, NEW c \in Tab, NEW q, CameIn(c, q), Disturbs(q.kind, q.device), jar' = jar,
         (q.device \in Device /\ q.kind # "reset") \/ (q.device = "none" /\ q.kind = "reset"),
         q.kind = "logout" => q.old = jar[q.device], q.pc # "purging",
         \A t \in Token : Signed(t) => token'[t].device = token[t].device /\ token'[t].root = token[t].root,
         \A u \in Live' : \/ u \in Live
                          \/ /\ token'[u].device = q.device /\ q.kind # "reset"
                             /\ \A e \in Device : jar[e] # NoToken => token[jar[e]].root # token'[u].root
  PROVE  UndisturbedOrderly'
  <1> SUFFICES ASSUME NEW d \in Device, d \notin disturbed' PROVE Orderly(d)'
    BY DEF UndisturbedOrderly
  <1>n. q.kind # "reset" => q.device \in Device
    OBVIOUS
  <1>0. d # "none"
    BY TokensAssumption
  <1>1. Orderly(d) /\ d \notin disturbed
    BY DEF UndisturbedOrderly, Disturbs
  <1>2. /\ call'[c] = q /\ c \in Running' /\ c \notin Running
        /\ \A e \in Running : e \in Running' /\ e # c /\ call'[e] = call[e]
        /\ \A e \in Running' : e = c \/ e \in Running
    BY DEF CameIn, Running
  <1>3. \A e \in On(d)' : (e = c /\ q.device = d) \/ (e \in On(d) /\ e # c /\ call'[e] = call[e])
    BY <1>2 DEF On
  <1>4. \A e \in OfKind("reset")' : (e = c /\ q.kind = "reset") \/ (e \in OfKind("reset") /\ e # c /\ call'[e] = call[e])
    BY <1>2 DEF OfKind
  <1>5. q.device = d => OfKind("reset") = {} /\ \A e \in On(d) : q.kind = "refresh" /\ call[e].kind = "refresh"
    BY <1>0 DEF Disturbs
  <1>6. q.kind = "reset" => On(d) = {} /\ q.device # d
    BY <1>0, TokensAssumption DEF Disturbs, On
  <1>7. (\A e, f \in On(d) : e # f => call[e].kind = "refresh" /\ call[f].kind = "refresh")'
    BY <1>1, <1>2, <1>3, <1>5 DEF Orderly
  <1>8. (OfKind("reset") # {} => On(d) = {})'
    BY <1>1, <1>3, <1>4, <1>5, <1>6 DEF Orderly
  <1>9. (\A e \in On(d) : call[e].kind = "logout" /\ call[e].pc \in {"find", "delete"} => call[e].old = jar[d])'
    BY <1>1, <1>2, <1>3 DEF Orderly
  <1>10. (\A u \in Live : jar[d] # NoToken /\ token[u].root = token[jar[d]].root =>
           u = jar[d] \/ \E e \in On(d) : InFlight(call[e]) /\ call[e].new = u)'
    <2> SUFFICES ASSUME NEW u \in Live', jar[d] # NoToken, token'[u].root = token'[jar[d]].root, u # jar[d]
                 PROVE  \E e \in On(d)' : InFlight(call'[e]) /\ call'[e].new = u
      OBVIOUS
    <2>1. jar[d] \in Token /\ Signed(jar[d])
      BY DEF SessionsCore, TokensOK, TokenTypes
    <2>2. u \in Live /\ token[u].root = token[jar[d]].root
      BY <2>1 DEF Live, Signed
    <2>3. PICK e \in On(d) : InFlight(call[e]) /\ call[e].new = u
      BY <1>1, <2>2 DEF Orderly
    <2>4. e \in On(d)' /\ call'[e] = call[e]
      BY <1>2 DEF On
    <2> QED BY <2>3, <2>4
  <1>11. (\A e \in OfKind("reset") : AtStep(e, "purging") => {t \in Live : token[t].device = d} \subseteq call[e].targets)'
    <2> SUFFICES ASSUME NEW e \in OfKind("reset")', call'[e].pc = "purging", NEW u \in Live', token'[u].device = d
                 PROVE  u \in call'[e].targets
      BY DEF AtStep
    <2>1. e \in OfKind("reset") /\ call'[e] = call[e]
      BY <1>2, <1>4
    <2>2. u \in Live /\ token[u].device = d
      BY <2>1, <1>5 DEF Live, Signed
    <2> QED BY <2>1, <2>2, <1>1 DEF Orderly, AtStep
  <1> QED BY <1>7, <1>8, <1>9, <1>10, <1>11 DEF Orderly

LEMMA RotationKeepsOrder ==
  ASSUME SessionsCore, UndisturbedOrderly, NEW c \in Running, CommitRotation(c)
  PROVE  UndisturbedOrderly'
  <1> SUFFICES ASSUME NEW d \in Device, d \notin disturbed' PROVE Orderly(d)'
    BY DEF UndisturbedOrderly
  <1>o. PICK old \in Token : old = call[c].old
    BY Rotates
  <1>n. PICK new \in Token : new = call[c].new
    BY Rotates
  <1>0. /\ token[old].state = "live" /\ token[new].state = "absent" /\ old # new
        /\ call[c].kind = "refresh" /\ call[c].pc = "commit"
        /\ call[c].device \in Device /\ token[old].device = call[c].device
        /\ token'[old].state = "spent" /\ token'[old].device = token[old].device
        /\ token'[old].root = token[old].root
        /\ token'[new].state = "live" /\ token'[new].device = token[old].device
        /\ token'[new].root = token[old].root
        /\ \A t \in Token : t # old /\ t # new => token'[t] = token[t]
        /\ UNCHANGED <<jar, signed, signedIn, ended, disturbed>>
    BY Rotates, <1>o, <1>n
  <1>w. WentOn(c, "answer", "rotated", call[c].targets)
    BY Rotates
  <1>1. Orderly(d)
    BY <1>0 DEF UndisturbedOrderly
  <1>2. /\ \A e : e \in Running' <=> e \in Running
        /\ \A e \in Running :
             /\ call'[e].kind = call[e].kind /\ call'[e].device = call[e].device
             /\ call'[e].old = call[e].old /\ call'[e].new = call[e].new
             /\ e # c => call'[e] = call[e]
        /\ InFlight(call'[c])
    BY <1>w DEF Running, WentOn, InFlight
  <1>3. /\ \A e : e \in On(d)' <=> e \in On(d)
        /\ \A e : e \in OfKind("reset")' <=> e \in OfKind("reset")
        /\ \A e \in On(d) \cup OfKind("reset") : e \in Running
    BY <1>2 DEF On, OfKind
  <1>4. \A u \in Live' : u = new \/ (u \in Live /\ token'[u] = token[u])
    BY <1>0 DEF Live
  <1>5. \A t \in Token : Signed(t) => token'[t].device = token[t].device /\ token'[t].root = token[t].root
    BY <1>0 DEF Signed
  <1>7. (\A e, f \in On(d) : e # f => call[e].kind = "refresh" /\ call[f].kind = "refresh")'
    BY <1>1, <1>2, <1>3 DEF Orderly
  <1>8. (OfKind("reset") # {} => On(d) = {})'
    BY <1>1, <1>3 DEF Orderly
  <1>9. (\A e \in On(d) : call[e].kind = "logout" /\ call[e].pc \in {"find", "delete"} => call[e].old = jar[d])'
    BY <1>1, <1>2, <1>3, <1>0 DEF Orderly
  <1>10. (\A u \in Live : jar[d] # NoToken /\ token[u].root = token[jar[d]].root =>
           u = jar[d] \/ \E e \in On(d) : InFlight(call[e]) /\ call[e].new = u)'
    <2> SUFFICES ASSUME NEW u \in Live', jar[d] # NoToken, token'[u].root = token'[jar[d]].root, u # jar[d]
                 PROVE  \E e \in On(d)' : InFlight(call'[e]) /\ call'[e].new = u
      BY <1>0
    <2>1. jar[d] \in Token /\ Signed(jar[d]) /\ token[jar[d]].device = d
      BY DEF SessionsCore, TokensOK, TokenTypes
    <2>2. CASE u = new
      <3>1. Signed(old) /\ token[old].root = token[jar[d]].root
        BY <2>1, <2>2, <1>0, <1>5 DEF Signed
      <3>2. token[old].device = d
        BY <2>1, <3>1 DEF SessionsCore, OneLiveEach
      <3>3. c \in On(d)
        BY <3>2, <1>0 DEF On
      <3> QED BY <3>3, <2>2, <1>2, <1>3, <1>n
    <2>3. CASE u # new
      <3>1. u \in Live /\ token[u].root = token[jar[d]].root
        BY <2>1, <2>3, <1>4, <1>5
      <3>2. PICK e \in On(d) : InFlight(call[e]) /\ call[e].new = u
        BY <1>1, <3>1 DEF Orderly
      <3>3. e # c
        BY <3>2, <1>0 DEF InFlight
      <3> QED BY <3>2, <3>3, <1>2, <1>3
    <2> QED BY <2>2, <2>3
  <1>11. (\A e \in OfKind("reset") : AtStep(e, "purging") => {t \in Live : token[t].device = d} \subseteq call[e].targets)'
    <2> SUFFICES ASSUME NEW e \in OfKind("reset")', call'[e].pc = "purging", NEW u \in Live', token'[u].device = d
                 PROVE  u \in call'[e].targets
      BY DEF AtStep
    <2>1. e \in OfKind("reset") /\ e \in Running
      BY <1>3
    <2>2. e # c
      BY <2>1, <1>0 DEF OfKind
    <2>3. u # new
      BY <2>1, <1>1, <1>0 DEF Orderly, On
    <2> QED BY <2>1, <2>2, <2>3, <1>1, <1>2, <1>4 DEF Orderly, AtStep
  <1> QED BY <1>7, <1>8, <1>9, <1>10, <1>11 DEF Orderly

-----------------------------------------------------------------------------
(* The sessions that were ended, and the steps together. *)

\* No session comes back where every live token is of a session that had one.
LEMMA NoneComesBack ==
  ASSUME SessionsBase, ended' = ended, disturbed \subseteq disturbed',
         \A t \in Live' : \/ token'[t].root \notin ended
                          \/ \E u \in Live : token'[t].root = token[u].root /\ token'[t].device = token[u].device
  PROVE  EndedSessionsStayEnded'
  BY DEF SessionsBase, EndedSessionsStayEnded

LEMMA FadedLive ==
  ASSUME Faded
  PROVE  \A t \in Live' : \E u \in Live : token'[t].root = token[u].root /\ token'[t].device = token[u].device
  BY DEF Faded, Live

LEMMA QuietMoves ==
  ASSUME SessionsBase, NEW c, NEW p, NEW o, NEW ts, Moves(c, p, o, ts), ended' = ended
  PROVE  SessionsBase'
  <1>1. Faded /\ disturbed' = disturbed
    BY DEF Moves
  <1>2. EndedSessionsStayEnded'
    BY <1>1, FadedLive, NoneComesBack
  <1> QED BY <1>2, MovesKeepCore, MovesKeepOrder DEF SessionsBase

LEMMA ClaimBase == ASSUME SessionsBase, NEW c \in Tab, Claim(c) PROVE SessionsBase'
  BY ClaimMoves, QuietMoves DEF SessionsBase, Claim, sessionHistory
LEMMA JudgeBase == ASSUME SessionsBase, NEW c \in Tab, Judge(c) PROVE SessionsBase'
  BY JudgeMoves, QuietMoves DEF SessionsBase, Judge, sessionHistory
LEMMA SuccessorBase == ASSUME SessionsBase, NEW c \in Tab, FindSuccessor(c) PROVE SessionsBase'
  BY SuccessorMoves, QuietMoves DEF SessionsBase, FindSuccessor, sessionHistory
LEMMA PurgeStartBase == ASSUME SessionsBase, NEW c \in Tab, PurgeStart(c) PROVE SessionsBase'
  BY PurgeStartMoves, QuietMoves DEF SessionsBase

\* A purge of a reset leaves no live token of an undisturbed device.
LEMMA PurgeBase == ASSUME SessionsBase, NEW c \in Tab, Purge(c) PROVE SessionsBase'
  <1>g. PICK gone \in SUBSET Token : gone = call[c].targets
    BY PurgeMoves DEF SessionsBase
  <1>o. PICK o : o = IF call[c].kind = "reset" THEN "none" ELSE call[c].outcome
    OBVIOUS
  <1>1. /\ call[c].pc = "purging" /\ call[c].kind \in {"refresh", "reset"}
        /\ \A t \in Token : /\ t \in gone => token'[t].state = "deleted"
                            /\ t \notin gone => token'[t] = token[t]
        /\ Moves(c, "answer", o, {})
        /\ ended' = (IF call[c].kind = "reset" THEN ended \cup {token[t].root : t \in gone} ELSE ended)
    BY <1>g, <1>o, PurgeMoves DEF SessionsBase
  <1>2. CASE call[c].kind # "reset"
    BY <1>1, <1>2, QuietMoves
  <1>3. CASE call[c].kind = "reset"
    <2>1. /\ c \in Running /\ disturbed' = disturbed /\ ended' = ended \cup {token[t].root : t \in gone}
          /\ \A t \in gone : Signed(t)
      BY <1>1, <1>3, <1>g DEF Moves, SessionsBase, SessionsCore, TabsOK, TabOK, NamesOK
    <2>2. EndedSessionsStayEnded'
      <3> SUFFICES ASSUME NEW t \in Live', token'[t].root \in ended', token'[t].device \notin disturbed PROVE FALSE
        BY <2>1 DEF EndedSessionsStayEnded
      <3>1. t \in Live /\ t \notin gone /\ token'[t] = token[t] /\ Signed(t) /\ token[t].device \in Device
        BY <1>1 DEF Live, Signed, SessionsBase, SessionsCore, TokensOK
      <3>2. token[t].root \notin ended
        BY <3>1 DEF SessionsBase, EndedSessionsStayEnded
      <3>3. Orderly(token[t].device)
        BY <3>1 DEF SessionsBase, UndisturbedOrderly
      <3>4. c \in OfKind("reset") /\ AtStep(c, "purging")
        BY <1>1, <1>3, <2>1 DEF OfKind, AtStep
      <3> QED BY <3>1, <3>3, <3>4, <1>g DEF Orderly
    <2> QED BY <1>1, <2>2, MovesKeepCore, MovesKeepOrder DEF SessionsBase
  <1> QED BY <1>2, <1>3

\* The token a logout of an undisturbed device presents is the only live one of its session.
LEMMA OnlyItsOwn ==
  ASSUME SessionsBase, NEW c \in Running, call[c].kind = "logout", call[c].pc \in {"find", "delete"},
         NEW t \in Live, token[t].root = token[call[c].old].root, token[t].device \notin disturbed
  PROVE  t = call[c].old
  <1>1. LogoutOK(call[c]) /\ Signed(call[c].old) /\ token[call[c].old].device = call[c].device
    BY DEF SessionsBase, SessionsCore, TabsOK, TabOK, LogoutOK, NamesOK, Token, NoToken
  <1>2. Signed(t) /\ t \in Token
    BY DEF Live, Signed
  <1>3. token[t].device = call[c].device /\ call[c].device \in Device
    BY <1>1, <1>2 DEF SessionsBase, SessionsCore, OneLiveEach, LogoutOK
  <1>4. Orderly(call[c].device) /\ c \in On(call[c].device)
    BY <1>3 DEF SessionsBase, UndisturbedOrderly, On
  <1>5. call[c].old = jar[call[c].device] /\ jar[call[c].device] # NoToken
    BY <1>1, <1>4 DEF Orderly, LogoutOK, Token, NoToken
  <1>6. \A e \in On(call[c].device) : e = c
    BY <1>4 DEF Orderly
  <1>7. ~InFlight(call[c])
    BY DEF InFlight
  <1> QED BY <1>4, <1>5, <1>6, <1>7 DEF Orderly

LEMMA FindLiveBase == ASSUME SessionsBase, NEW c \in Tab, FindLive(c) PROVE SessionsBase'
  <1>1. /\ call[c].kind = "logout" /\ call[c].pc = "find" /\ token' = token
        /\ \/ ended' = ended /\ Moves(c, "delete", call[c].outcome, call[c].targets)
           \/ /\ call[c].old \notin Live /\ ended' = ended \cup {token[call[c].old].root}
              /\ Moves(c, "answer", "out", call[c].targets)
    BY FindLiveMoves DEF SessionsBase
  <1>2. CASE ended' = ended /\ Moves(c, "delete", call[c].outcome, call[c].targets)
    BY <1>2, QuietMoves
  <1>3. CASE /\ call[c].old \notin Live /\ ended' = ended \cup {token[call[c].old].root}
             /\ Moves(c, "answer", "out", call[c].targets)
    <2>1. EndedSessionsStayEnded'
      <3> SUFFICES ASSUME NEW t \in Live, token[t].root \in ended', token[t].device \notin disturbed PROVE FALSE
        BY <1>1, <1>3 DEF EndedSessionsStayEnded, Live, Moves
      <3>1. token[t].root = token[call[c].old].root
        BY <1>3 DEF SessionsBase, EndedSessionsStayEnded
      <3> QED BY <3>1, <1>1, <1>3, OnlyItsOwn DEF Moves
    <2> QED BY <2>1, <1>3, MovesKeepCore, MovesKeepOrder DEF SessionsBase
  <1> QED BY <1>1, <1>2, <1>3

LEMMA DeleteBase == ASSUME SessionsBase, NEW c \in Tab, DeleteById(c) PROVE SessionsBase'
  <1>1. /\ call[c].kind = "logout" /\ call[c].pc = "delete"
        /\ token'[call[c].old].state = "deleted"
        /\ \A t \in Token : t # call[c].old => token'[t] = token[t]
        /\ ended' = ended \cup {token[call[c].old].root}
        /\ Moves(c, "answer", "out", call[c].targets)
    BY DeleteMoves DEF SessionsBase
  <1>2. EndedSessionsStayEnded'
    <2> SUFFICES ASSUME NEW t \in Live', token'[t].root \in ended', token'[t].device \notin disturbed PROVE FALSE
      BY <1>1 DEF EndedSessionsStayEnded, Moves
    <2>1. t # call[c].old /\ t \in Live /\ token'[t] = token[t]
      BY <1>1 DEF Live
    <2>2. token[t].root = token[call[c].old].root
      BY <1>1, <2>1 DEF SessionsBase, EndedSessionsStayEnded
    <2> QED BY <1>1, <2>1, <2>2, OnlyItsOwn DEF Moves
  <1> QED BY <1>1, <1>2, MovesKeepCore, MovesKeepOrder DEF SessionsBase

LEMMA GraceBase == ASSUME SessionsBase, NEW t \in Token, GraceEnds(t) PROVE SessionsBase'
  <1>1. Faded /\ UNCHANGED ended /\ disturbed \subseteq disturbed'
    BY GraceFades DEF SessionsBase
  <1>2. EndedSessionsStayEnded'
    BY <1>1, FadedLive, NoneComesBack
  <1> QED BY <1>2, GraceKeepsCore, GraceKeepsOrder DEF SessionsBase

LEMMA ComingBase ==
  ASSUME SessionsBase, NEW c, NEW k \in {"refresh", "logout", "reset"}, NEW d, NEW q, ComesAs(c, k, d, q),
         (d \in Device /\ k # "reset") \/ (d = "none" /\ k = "reset"),
         q.pc \in {"claim", "find", "purge"}, k = "logout" => q.old = jar[d],
         q.old # NoToken => d \in Device /\ q.old = jar[d],
         \/ q.new = NoToken /\ signed' = signed
         \/ q.new = signed + 1 /\ signed' = signed + 1 /\ signed + 1 \in Token
  PROVE  SessionsBase'
  <1>1. /\ c \in Tab /\ q \in TabState /\ CameIn(c, q) /\ UNCHANGED <<token, jar, signedIn, ended>>
        /\ disturbed' \subseteq Device /\ disturbed \subseteq disturbed' /\ Disturbs(q.kind, q.device)
        /\ q.kind = k /\ q.device = d /\ TabOK(q)'
    BY DEF ComesAs, Disturbs
  <1>2. SessionsCore'
    BY <1>1, ArrivalsKeepCore DEF SessionsBase
  <1>3. Live' = Live
    BY <1>1 DEF Live
  <1>4. UndisturbedOrderly'
    BY <1>1, <1>3, ArrivingKeepsOrder DEF SessionsBase
  <1>5. EndedSessionsStayEnded'
    BY <1>1, <1>3, NoneComesBack
  <1> QED BY <1>2, <1>4, <1>5 DEF SessionsBase

LEMMA RefreshBase == ASSUME SessionsBase, NEW c \in Tab, NEW d \in Device, StartRefresh(c, d) PROVE SessionsBase'
  <1>1. PICK q \in TabState :
           /\ ComesAs(c, "refresh", d, q) /\ q.pc = "claim" /\ q.old = jar[d] /\ jar[d] \in Token
           /\ q.new = signed + 1 /\ signed' = signed + 1 /\ signed + 1 \in Token
    BY RefreshComes DEF SessionsBase
  <1> QED BY <1>1, ComingBase
LEMMA LogoutBase == ASSUME SessionsBase, NEW c \in Tab, NEW d \in Device, StartLogout(c, d) PROVE SessionsBase'
  <1>1. PICK q \in TabState :
           /\ ComesAs(c, "logout", d, q) /\ q.pc = "find" /\ q.old = jar[d] /\ jar[d] \in Token
           /\ q.new = NoToken /\ signed' = signed
    BY LogoutComes DEF SessionsBase
  <1> QED BY <1>1, ComingBase
LEMMA ResetBase == ASSUME SessionsBase, NEW c \in Tab, StartReset(c) PROVE SessionsBase'
  <1>1. PICK q \in TabState :
           /\ ComesAs(c, "reset", "none", q) /\ q.pc = "purge" /\ q.old = NoToken
           /\ q.new = NoToken /\ signed' = signed
    BY ResetComes DEF SessionsBase
  <1> QED BY <1>1, ComingBase

LEMMA SignInBase == ASSUME SessionsBase, NEW c \in Tab, NEW d \in Device, SignIn(c, d) PROVE SessionsBase'
  <1>s. PICK t \in Token : t = signed + 1
    BY SignsIn DEF SessionsBase, SessionsCore
  <1>q. PICK q \in TabState : q = Brings(d, t)
    BY <1>s, SignsIn DEF SessionsBase, SessionsCore
  <1>0. /\ signed' = signed + 1 /\ signed \in Nat /\ token' \in [Token -> TokenRow]
        /\ token'[signed + 1] = [state |-> "live", device |-> d, root |-> signed + 1]
        /\ \A u \in Token : u # signed + 1 => token'[u] = token[u]
        /\ UNCHANGED <<jar, signedIn, ended>> /\ disturbed' \subseteq Device /\ Disturbs("signIn", d)
        /\ CameIn(c, Brings(d, signed + 1))
    BY SignsIn DEF SessionsBase, SessionsCore
  <1>1. /\ token'[t].state = "live" /\ token'[t].device = d /\ token'[t].root = t
        /\ (\A u \in Token : u # t => token'[u] = token[u]) /\ CameIn(c, q)
    BY <1>0, <1>s, <1>q DEF CameIn
  <1>2. q.kind = "signIn" /\ q.device = d /\ q.pc = "answer"
    BY <1>q DEF Brings
  <1>3. \A e \in Device : jar[e] # NoToken => jar[e] \in Token /\ Signed(jar[e])
    BY DEF SessionsBase, SessionsCore, TokensOK, TokenTypes
  <1>4. \A u \in Token : Signed(u) => u # t /\ token[u].root # t
    BY <1>s, <1>0 DEF SessionsBase, SessionsCore, TokensOK, Token
  <1>5. UndisturbedOrderly'
    <2>1. \A u \in Live' : \/ u \in Live
                           \/ /\ token'[u].device = q.device /\ q.kind # "reset"
                              /\ \A e \in Device : jar[e] # NoToken => token[jar[e]].root # token'[u].root
      <3> SUFFICES ASSUME NEW u \in Live', u \notin Live
                   PROVE  /\ token'[u].device = q.device
                          /\ \A e \in Device : jar[e] # NoToken => token[jar[e]].root # token'[u].root
        BY <1>2
      <3>1. u = t
        BY <1>1 DEF Live
      <3> QED BY <3>1, <1>1, <1>2, <1>3, <1>4
    <2>2. Disturbs(q.kind, q.device)
      BY <1>0, <1>2 DEF Disturbs
    <2>3. \A u \in Token : Signed(u) => token'[u].device = token[u].device /\ token'[u].root = token[u].root
      BY <1>1, <1>4
    <2> QED BY <2>1, <2>2, <2>3, <1>0, <1>1, <1>2, ArrivingKeepsOrder DEF SessionsBase
  <1>6. EndedSessionsStayEnded'
    <2>1. t \notin ended
      BY <1>s, <1>0 DEF SessionsBase, SessionsCore, TokenTypes
    <2>2. disturbed \subseteq disturbed'
      BY <1>0 DEF Disturbs
    <2>3. \A u \in Live' : token'[u].root \notin ended \/ (u \in Live /\ token'[u] = token[u])
      BY <1>1, <2>1 DEF Live
    <2> QED BY <2>2, <2>3, <1>0, NoneComesBack
  <1> QED BY <1>5, <1>6, SignInKeepsCore DEF SessionsBase

LEMMA RotationBase == ASSUME SessionsBase, NEW c \in Tab, CommitRotation(c) PROVE SessionsBase'
  <1>1. c \in Running
    BY KindAt DEF SessionsBase, CommitRotation, AtStep
  <1>o. PICK old \in Token : old = call[c].old
    BY <1>1, Rotates DEF SessionsBase
  <1>n. PICK new \in Token : new = call[c].new
    BY <1>1, Rotates DEF SessionsBase
  <1>2. /\ token[old].state = "live" /\ token'[old].state = "spent" /\ old # new
        /\ token'[new].root = token[old].root /\ token'[new].device = token[old].device
        /\ \A t \in Token : t # old /\ t # new => token'[t] = token[t]
        /\ UNCHANGED <<ended, disturbed>>
    BY <1>1, <1>o, <1>n, Rotates DEF SessionsBase
  <1>3. \A t \in Live' : \E u \in Live : token'[t].root = token[u].root /\ token'[t].device = token[u].device
    BY <1>2 DEF Live
  <1>4. EndedSessionsStayEnded'
    BY <1>2, <1>3, NoneComesBack
  <1> QED BY <1>1, <1>4, RotationKeepsCore, RotationKeepsOrder DEF SessionsBase

LEMMA AnswerBase == ASSUME SessionsBase, NEW c \in Tab, ReceiveAnswer(c) PROVE SessionsBase'
  <1>1. /\ c \in Running /\ WentOut(c) /\ call[c].pc = "answer" /\ UNCHANGED <<token, signed, ended, disturbed>>
        /\ signedIn' = (IF call[c].kind = "signIn" THEN signedIn \cup {call[c].device} ELSE signedIn)
        /\ jar' \in [Device -> Token \cup {NoToken}]
        /\ \A d \in Device : d # call[c].device => jar'[d] = jar[d]
        /\ call[c].device \in Device =>
             /\ call[c].outcome = "rotated" => jar'[call[c].device] = call[c].new
             /\ call[c].outcome \in {"raced", "none"} => jar'[call[c].device] = jar[call[c].device]
             /\ call[c].outcome \in {"reuse", "not_found", "out"} => jar'[call[c].device] = NoToken
    BY AnswerGoes DEF SessionsBase
  <1>2. call[c].outcome \in Outcomes /\ (call[c].kind = "signIn" => SignInOK(call[c]))
    BY <1>1, KindAt DEF SessionsBase, TabOK
  <1>3. signedIn' \subseteq Device /\ disturbed' \subseteq Device
    BY <1>1, <1>2 DEF SessionsBase, SessionsCore, TokenTypes, SignInOK
  <1>4. call[c].device \in Device =>
           \/ InFlight(call[c]) /\ jar'[call[c].device] = call[c].new
           \/ jar'[call[c].device] = NoToken
           \/ jar'[call[c].device] = jar[call[c].device] /\ ~InFlight(call[c])
    BY <1>1, <1>2 DEF InFlight, Outcomes
  <1>5. SessionsCore'
    BY <1>1, <1>3, <1>4, LeavingKeepsCore DEF SessionsBase
  <1>6. UndisturbedOrderly'
    BY <1>1, <1>4, LeavingKeepsOrder DEF SessionsBase
  <1>7. EndedSessionsStayEnded'
    BY <1>1, NoneComesBack DEF Live
  <1> QED BY <1>5, <1>6, <1>7 DEF SessionsBase

LEMMA LossBase == ASSUME SessionsBase, NEW c \in Tab, Lose(c) PROVE SessionsBase'
  <1>1. /\ c \in Running /\ WentOut(c) /\ UNCHANGED <<token, jar, signed, signedIn, ended>>
        /\ disturbed' = (IF call[c].pc = "answer" /\ call[c].kind = "refresh"
                        THEN disturbed \cup {call[c].device} ELSE disturbed)
        /\ disturbed' \subseteq Device
    BY LossGoes DEF SessionsBase
  <1>2. SessionsCore'
    BY <1>1, LeavingKeepsCore DEF SessionsBase, SessionsCore, TokenTypes
  <1>3. InFlight(call[c]) /\ call[c].device \notin disturbed' => call[c].kind = "signIn"
    <2>1. call[c].kind \in {"signIn", "refresh", "logout", "reset"} /\ TabOK(call[c])
      BY <1>1, RunningKinds, KindAt DEF SessionsBase
    <2> QED BY <1>1, <2>1 DEF InFlight, TabOK, LogoutOK, ResetOK
  <1>4. UndisturbedOrderly'
    BY <1>1, <1>3, LeavingKeepsOrder DEF SessionsBase
  <1>5. EndedSessionsStayEnded'
    BY <1>1, NoneComesBack DEF Live
  <1> QED BY <1>2, <1>4, <1>5 DEF SessionsBase

LEMMA BaseStep == ASSUME SessionsBase, SessionsNext PROVE SessionsBase'
  <1>1. CASE \E c \in Tab, d \in Device : SignIn(c, d) \/ StartRefresh(c, d) \/ StartLogout(c, d)
    BY <1>1, SignInBase, RefreshBase, LogoutBase
  <1>2. CASE \E c \in Tab : StartReset(c) \/ Claim(c) \/ CommitRotation(c) \/ Judge(c) \/ FindSuccessor(c)
    BY <1>2, ResetBase, ClaimBase, RotationBase, JudgeBase, SuccessorBase
  <1>3. CASE \E c \in Tab : \/ PurgeStart(c) \/ Purge(c) \/ FindLive(c) \/ DeleteById(c)
                            \/ ReceiveAnswer(c) \/ Lose(c)
    BY <1>3, PurgeStartBase, PurgeBase, FindLiveBase, DeleteBase, AnswerBase, LossBase
  <1>4. CASE \E t \in Token : GraceEnds(t)
    BY <1>4, GraceBase
  <1> QED BY <1>1, <1>2, <1>3, <1>4 DEF SessionsNext

-----------------------------------------------------------------------------
(* Who is signed in, while no device has been disturbed. *)

LEMMA AllOrderly == ASSUME SessionsBase, disturbed = {} PROVE \A d \in Device : Orderly(d)
  BY DEF SessionsBase, UndisturbedOrderly

LEMMA QuietHonest ==
  ASSUME SessionsBase, Honest, NEW c, NEW p, NEW o, NEW ts, Moves(c, p, o, ts), UNCHANGED <<token, signedIn>>,
         HonestCall(call[c])'
  PROVE  Honest'
  <1>m. c \in Running /\ WentOn(c, p, o, ts) /\ jar' = jar /\ call[c].pc # "answer"
    BY DEF Moves
  <1>1. /\ \A e : e \in Running' <=> e \in Running
        /\ \A e \in Running : e # c => call'[e] = call[e]
    BY <1>m DEF Running, WentOn
  <1>2. Live' = Live
    BY DEF Live
  <1>3. \A d : Presentable(d) => Presentable(d)'
    <2> SUFFICES ASSUME NEW d, Presentable(d), jar[d] \notin Live PROVE Presentable(d)'
      BY <1>2, <1>m DEF Presentable
    <2>1. PICK e \in On(d) : call[e].kind = "refresh" /\ InFlight(call[e]) /\ call[e].old = jar[d] /\ call[e].new \in Live
      BY DEF Presentable
    <2>2. e # c /\ e \in Running
      BY <2>1, <1>m DEF InFlight, On
    <2>3. e \in On(d)' /\ call'[e] = call[e]
      BY <2>1, <2>2, <1>1 DEF On
    <2> QED BY <2>1, <2>3, <1>2, <1>m DEF Presentable, InFlight
  <1>4. HonestJars'
    BY <1>3, <1>m DEF Honest, HonestJars
  <1>5. \A e \in Running' : HonestCall(call[e])'
    <2> SUFFICES ASSUME NEW e \in Running' PROVE HonestCall(call[e])'
      OBVIOUS
    <2>1. CASE e = c
      BY <2>1
    <2>2. CASE e # c
      BY <2>2, <1>1, <1>2 DEF Honest, HonestCall
    <2> QED BY <2>1, <2>2
  <1> QED BY <1>4, <1>5 DEF Honest

LEMMA ClaimHonest == ASSUME SessionsBase, Honest, NEW c \in Tab, Claim(c) PROVE Honest'
  <1>p. PICK p : p = IF token[call[c].old].state = "live" THEN "commit" ELSE "judge"
    OBVIOUS
  <1>1. /\ Moves(c, p, call[c].outcome, call[c].targets) /\ UNCHANGED <<token, signedIn>> /\ call[c].pc = "claim"
    BY <1>p, ClaimMoves DEF SessionsBase, Claim, sessionHistory, AtStep
  <1>2. call[c].kind = "refresh" /\ HonestCall(call[c]) /\ c \in Running
    BY <1>1, KindAt DEF SessionsBase, Honest
  <1>3. HonestCall(call[c])'
    BY <1>p, <1>1, <1>2 DEF HonestCall, Moves, WentOn, Live
  <1> QED BY <1>1, <1>3, QuietHonest

LEMMA JudgeHonest == ASSUME SessionsBase, Honest, NEW c \in Tab, Judge(c) PROVE Honest'
  <1>1. UNCHANGED <<token, signedIn>> /\ call[c].pc = "judge"
    BY DEF Judge, sessionHistory, AtStep
  <1>2. call[c].kind = "refresh" /\ HonestCall(call[c]) /\ c \in Running
    BY <1>1, KindAt DEF SessionsBase, Honest
  <1>3. CASE token[call[c].old].state = "spent"
    <2>1. Moves(c, "successor", call[c].outcome, call[c].targets)
      BY <1>3, JudgeMoves DEF SessionsBase
    <2>2. HonestCall(call[c])'
      BY <1>1, <1>2, <1>3, <2>1 DEF HonestCall, Moves, WentOn, Live
    <2> QED BY <1>1, <2>1, <2>2, QuietHonest
  <1>4. CASE token[call[c].old].state # "spent"
    <2>1. token[call[c].old].state \notin {"spent", "old"} /\ call[c].device \notin signedIn
      BY <1>1, <1>2, <1>4 DEF HonestCall
    <2>2. Moves(c, "answer", "not_found", call[c].targets)
      BY <2>1, JudgeMoves DEF SessionsBase
    <2>3. HonestCall(call[c])'
      BY <1>1, <1>2, <2>1, <2>2 DEF HonestCall, Moves, WentOn, Live
    <2> QED BY <1>1, <2>2, <2>3, QuietHonest
  <1> QED BY <1>3, <1>4

LEMMA SuccessorHonest == ASSUME SessionsBase, Honest, NEW c \in Tab, FindSuccessor(c) PROVE Honest'
  <1>1. UNCHANGED <<token, signedIn>> /\ call[c].pc = "successor"
    BY DEF FindSuccessor, sessionHistory, AtStep
  <1>2. call[c].kind = "refresh" /\ HonestCall(call[c]) /\ c \in Running
    BY <1>1, KindAt DEF SessionsBase, Honest
  <1>3. Live # {}
    BY <1>1, <1>2 DEF HonestCall, Honest, HonestJars, Presentable
  <1>4. Moves(c, "answer", "raced", call[c].targets)
    BY <1>3, SuccessorMoves DEF SessionsBase
  <1>5. HonestCall(call[c])'
    BY <1>1, <1>2, <1>4 DEF HonestCall, Moves, WentOn, Live
  <1> QED BY <1>1, <1>4, <1>5, QuietHonest

LEMMA PurgeStartHonest == ASSUME SessionsBase, Honest, NEW c \in Tab, PurgeStart(c) PROVE Honest'
  <1>1. /\ call[c].pc = "purge" /\ UNCHANGED <<token, signedIn>> /\ Moves(c, "purging", call[c].outcome, Rows)
    BY PurgeStartMoves DEF SessionsBase
  <1>2. call[c].kind \in {"refresh", "reset"} /\ HonestCall(call[c])
    BY <1>1, KindAt DEF SessionsBase, Honest
  <1>3. call[c].kind = "reset"
    BY <1>1, <1>2 DEF HonestCall
  <1>4. HonestCall(call[c])'
    BY <1>1, <1>3 DEF HonestCall, Moves, WentOn
  <1> QED BY <1>1, <1>4, QuietHonest

\* A logout of an undisturbed device presents its jar's token, and no other call of the device runs.
LEMMA LogoutAlone ==
  ASSUME SessionsBase, disturbed = {}, NEW c \in Running, call[c].kind = "logout", call[c].pc \in {"find", "delete"}
  PROVE  /\ call[c].device \in Device /\ call[c].old = jar[call[c].device] /\ call[c].old \in Token
         /\ \A e \in Running : call[e].device = call[c].device => e = c
  <1>1. LogoutOK(call[c])
    BY DEF SessionsBase, SessionsCore, TabsOK, TabOK
  <1>2. Orderly(call[c].device) /\ c \in On(call[c].device)
    BY <1>1, AllOrderly DEF LogoutOK, On
  <1> QED BY <1>1, <1>2 DEF Orderly, LogoutOK, On

LEMMA FindLiveHonest == ASSUME SessionsBase, Honest, disturbed = {}, NEW c \in Tab, FindLive(c) PROVE Honest'
  <1>1. /\ call[c].kind = "logout" /\ call[c].pc = "find" /\ token' = token
        /\ \/ signedIn' = signedIn /\ Moves(c, "delete", call[c].outcome, call[c].targets)
           \/ /\ call[c].old \notin Live /\ signedIn' = signedIn \ {call[c].device}
              /\ Moves(c, "answer", "out", call[c].targets)
    BY FindLiveMoves DEF SessionsBase
  <1>2. c \in Running
    BY <1>1 DEF Moves
  <1>3. CASE signedIn' = signedIn /\ Moves(c, "delete", call[c].outcome, call[c].targets)
    <2>1. HonestCall(call[c])'
      BY <1>1, <1>3 DEF HonestCall, Moves, WentOn
    <2> QED BY <1>1, <1>3, <2>1, QuietHonest
  <1>4. CASE /\ call[c].old \notin Live /\ signedIn' = signedIn \ {call[c].device}
             /\ Moves(c, "answer", "out", call[c].targets)
    <2>1. /\ call[c].device \in Device /\ call[c].old = jar[call[c].device]
          /\ \A e \in Running : call[e].device = call[c].device => e = c
      BY <1>1, <1>2, LogoutAlone
    <2>2. ~Presentable(call[c].device)
      BY <1>1, <1>4, <2>1 DEF Presentable, On
    <2>3. call[c].device \notin signedIn
      BY <2>2 DEF Honest, HonestJars
    <2>4. HonestCall(call[c])' /\ signedIn' = signedIn
      BY <1>1, <1>4, <2>3 DEF HonestCall, Moves, WentOn
    <2> QED BY <1>1, <1>4, <2>4, QuietHonest
  <1> QED BY <1>1, <1>3, <1>4

LEMMA DeleteHonest == ASSUME SessionsBase, Honest, disturbed = {}, NEW c \in Tab, DeleteById(c) PROVE Honest'
  <1>1. /\ call[c].kind = "logout" /\ call[c].pc = "delete"
        /\ token'[call[c].old].state = "deleted"
        /\ \A t \in Token : t # call[c].old => token'[t] = token[t]
        /\ signedIn' = signedIn \ {call[c].device}
        /\ Moves(c, "answer", "out", call[c].targets)
    BY DeleteMoves DEF SessionsBase
  <1>2. c \in Running /\ WentOn(c, "answer", "out", call[c].targets) /\ jar' = jar
    BY <1>1 DEF Moves
  <1>3. /\ call[c].device \in Device /\ call[c].old = jar[call[c].device] /\ call[c].old \in Token
        /\ \A e \in Running : call[e].device = call[c].device => e = c
    BY <1>1, <1>2, LogoutAlone
  <1>4. token[call[c].old].device = call[c].device
    BY <1>2, <1>3 DEF SessionsBase, SessionsCore, TabsOK, TabOK, NamesOK, Token, NoToken
  <1>5. /\ \A e : e \in Running' <=> e \in Running
        /\ \A e \in Running : e # c => call'[e] = call[e]
    BY <1>2 DEF Running, WentOn
  <1>6. \A d \in Device : d # call[c].device /\ jar[d] # NoToken =>
           jar[d] \in Token /\ jar[d] # call[c].old /\ token'[jar[d]] = token[jar[d]]
    BY <1>1, <1>4 DEF SessionsBase, SessionsCore, TokensOK, TokenTypes
  <1>7. \A e \in Running : e # c =>
           /\ call[e].old # NoToken => token'[call[e].old] = token[call[e].old]
           /\ call[e].new \in Live => call[e].new \in Live'
    <2> SUFFICES ASSUME NEW e \in Running, e # c
                 PROVE  /\ call[e].old # NoToken => token'[call[e].old] = token[call[e].old]
                        /\ call[e].new \in Live => call[e].new \in Live'
      OBVIOUS
    <2>1. NamesOK(call[e])
      BY DEF SessionsBase, SessionsCore, TabsOK, TabOK
    <2>2. call[e].old # NoToken => call[e].old \in Token /\ call[e].old # call[c].old
      BY <2>1, <1>3, <1>4 DEF NamesOK
    <2>3. call[e].new \in Token => call[e].new # call[c].old
      BY <1>2, <1>3 DEF SessionsBase, SessionsCore, NewIsNews, OnItsWay, Token, NoToken
    <2> QED BY <2>2, <2>3, <1>1 DEF Live
  <1>8. HonestJars'
    <2>1. \A d \in signedIn' : jar[d] # NoToken /\ token'[jar[d]].state \in {"live", "spent"} /\ Presentable(d)'
      <3> SUFFICES ASSUME NEW d \in signedIn'
                   PROVE  jar[d] # NoToken /\ token'[jar[d]].state \in {"live", "spent"} /\ Presentable(d)'
        OBVIOUS
      <3>1. d \in signedIn /\ d # call[c].device /\ d \in Device
        BY <1>1 DEF SessionsBase, SessionsCore, TokenTypes
      <3>2. jar[d] # NoToken /\ token[jar[d]].state \in {"live", "spent"} /\ Presentable(d)
        BY <3>1 DEF Honest, HonestJars
      <3>3. jar[d] \in Token /\ token'[jar[d]] = token[jar[d]]
        BY <3>1, <3>2, <1>6
      <3>4. CASE jar[d] \in Live
        BY <3>2, <3>3, <3>4, <1>2 DEF Presentable, Live
      <3>5. CASE jar[d] \notin Live
        <4>1. PICK e \in On(d) : call[e].kind = "refresh" /\ InFlight(call[e]) /\ call[e].old = jar[d] /\ call[e].new \in Live
          BY <3>2, <3>5 DEF Presentable
        <4>2. e # c /\ e \in Running /\ e \in On(d)' /\ call'[e] = call[e]
          BY <3>1, <1>5 DEF On
        <4>3. call'[e].new \in Live'
          BY <4>1, <4>2, <1>7
        <4> QED BY <3>2, <3>3, <4>1, <4>2, <4>3, <1>2 DEF Presentable, InFlight
      <3> QED BY <3>4, <3>5
    <2>2. \A d \in Device \ signedIn' : jar[d] # NoToken => token'[jar[d]].state = "deleted"
      BY <1>1, <1>3, <1>6 DEF Honest, HonestJars
    <2> QED BY <2>1, <2>2, <1>2 DEF HonestJars
  <1>9. \A e \in Running' : HonestCall(call[e])'
    <2> SUFFICES ASSUME NEW e \in Running' PROVE HonestCall(call[e])'
      OBVIOUS
    <2>1. CASE e = c
      BY <2>1, <1>1, <1>2 DEF HonestCall, WentOn
    <2>2. CASE e # c
      <3>1. e \in Running /\ call'[e] = call[e] /\ HonestCall(call[e])
        BY <2>2, <1>5 DEF Honest
      <3>2. call[e].device # call[c].device
        BY <2>2, <3>1, <1>3
      <3>3. call[e].device \in signedIn' <=> call[e].device \in signedIn
        BY <3>2, <1>1
      <3>4. call[e].kind = "refresh" => token'[call[e].old] = token[call[e].old]
        BY <3>1, <2>2, <1>7 DEF SessionsBase, SessionsCore, TabsOK, TabOK, RefreshOK, Token, NoToken
      <3>5. call[e].new \in Live => call[e].new \in Live'
        BY <3>1, <2>2, <1>7
      <3> QED BY <3>1, <3>3, <3>4, <3>5 DEF HonestCall
    <2> QED BY <2>1, <2>2
  <1> QED BY <1>8, <1>9 DEF Honest

\* A reset ends every session.
LEMMA PurgeHonest == ASSUME SessionsBase, Honest, disturbed = {}, NEW c \in Tab, Purge(c) PROVE Honest'
  <1>g. PICK gone \in SUBSET Token : gone = call[c].targets
    BY PurgeMoves DEF SessionsBase
  <1>o. PICK o : o = IF call[c].kind = "reset" THEN "none" ELSE call[c].outcome
    OBVIOUS
  <1>1. /\ call[c].pc = "purging" /\ call[c].kind \in {"refresh", "reset"}
        /\ \A t \in Token : /\ t \in gone => token'[t].state = "deleted"
                            /\ t \notin gone => token'[t] = token[t]
        /\ Moves(c, "answer", o, {})
        /\ signedIn' = (IF call[c].kind = "reset" THEN {d \in signedIn : jar[d] \notin gone} ELSE signedIn)
    BY <1>g, <1>o, PurgeMoves DEF SessionsBase
  <1>2. c \in Running /\ WentOn(c, "answer", o, {}) /\ jar' = jar
    BY <1>1 DEF Moves
  <1>3. call[c].kind = "reset"
    BY <1>1, <1>2 DEF Honest, HonestCall
  <1>4. c \in OfKind("reset") /\ AtStep(c, "purging")
    BY <1>1, <1>2, <1>3 DEF OfKind, AtStep
  <1>5. \A d \in Device : On(d) = {} /\ {t \in Live : token[t].device = d} \subseteq gone
    BY <1>4, <1>g, AllOrderly DEF Orderly
  <1>6. \A d \in signedIn : jar[d] \in gone /\ d \in Device
    <2> SUFFICES ASSUME NEW d \in signedIn PROVE jar[d] \in gone /\ d \in Device
      OBVIOUS
    <2>1. d \in Device /\ jar[d] # NoToken /\ Presentable(d)
      BY DEF Honest, HonestJars, SessionsBase, SessionsCore, TokenTypes
    <2>2. jar[d] \in Live /\ token[jar[d]].device = d
      BY <2>1, <1>5 DEF Presentable, SessionsBase, SessionsCore, TokensOK
    <2> QED BY <2>1, <2>2, <1>5
  <1>7. signedIn' = {}
    BY <1>1, <1>3, <1>6
  <1>8. HonestJars'
    <2>1. \A d \in Device : jar[d] # NoToken => jar[d] \in Token
      BY DEF SessionsBase, SessionsCore, TokenTypes
    <2>2. \A d \in Device : jar[d] # NoToken => token'[jar[d]].state = "deleted"
      BY <2>1, <1>1, <1>6 DEF Honest, HonestJars
    <2> QED BY <2>2, <1>2, <1>7 DEF HonestJars
  <1>9. \A e \in Running' : HonestCall(call[e])'
    <2> SUFFICES ASSUME NEW e \in Running' PROVE HonestCall(call[e])'
      OBVIOUS
    <2>1. e \in Running /\ call'[e].kind = call[e].kind
      BY <1>2 DEF Running, WentOn
    <2>2. call[e].device \notin Device
      BY <2>1, <1>5 DEF On
    <2>3. call[e].kind = "reset"
      BY <2>1, <2>2, RunningKinds, KindAt DEF SessionsBase, TabOK, SignInOK, RefreshOK, LogoutOK
    <2> QED BY <2>1, <2>3 DEF HonestCall
  <1> QED BY <1>8, <1>9 DEF Honest

\* While none is disturbed, the grace period that ends is of a token no jar and no call holds.
LEMMA GraceHonest == ASSUME SessionsBase, Honest, disturbed' = {}, NEW t \in Token, GraceEnds(t) PROVE Honest'
  <1>1. /\ token[t].state = "spent" /\ \A u \in Token : u # t => token'[u] = token[u]
        /\ UNCHANGED <<jar, call, signed, signedIn, ended>>
        /\ \A c \in Running : call[c].old # t
    BY GraceFades DEF SessionsBase
  <1>2. \A d \in Device : jar[d] # NoToken => jar[d] \in Token /\ jar[d] # t
    <2> SUFFICES ASSUME NEW d \in Device, jar[d] = t PROVE FALSE
      BY DEF SessionsBase, SessionsCore, TokenTypes
    <2>1. d \in signedIn
      BY <1>1 DEF Honest, HonestJars, Token, NoToken
    <2>2. jar[d] \notin Live
      BY <1>1 DEF Live
    <2>3. PICK e \in On(d) : call[e].old = jar[d]
      BY <2>1, <2>2 DEF Honest, HonestJars, Presentable
    <2> QED BY <2>3, <1>1 DEF On
  <1>3. \A u \in Live : u \in Live'
    BY <1>1 DEF Live
  <1>4. \A d : Presentable(d) => Presentable(d)'
    BY <1>1, <1>3 DEF Presentable, On, Running, InFlight
  <1>5. HonestJars'
    BY <1>1, <1>2, <1>4 DEF Honest, HonestJars, SessionsBase, SessionsCore, TokenTypes
  <1>6. \A e \in Running' : HonestCall(call[e])'
    <2> SUFFICES ASSUME NEW e \in Running PROVE HonestCall(call[e])'
      BY <1>1 DEF Running
    <2>1. HonestCall(call[e])
      BY DEF Honest
    <2>2. call[e].kind = "refresh" => token'[call[e].old] = token[call[e].old]
      BY <1>1 DEF SessionsBase, SessionsCore, TabsOK, TabOK, RefreshOK
    <2> QED BY <2>1, <2>2, <1>1, <1>3 DEF HonestCall
  <1> QED BY <1>5, <1>6 DEF Honest

LEMMA RotationHonest == ASSUME SessionsBase, Honest, disturbed = {}, NEW c \in Tab, CommitRotation(c) PROVE Honest'
  <1>c. c \in Running
    BY KindAt DEF SessionsBase, CommitRotation, AtStep
  <1>o. PICK old \in Token : old = call[c].old
    BY <1>c, Rotates DEF SessionsBase
  <1>n. PICK new \in Token : new = call[c].new
    BY <1>c, Rotates DEF SessionsBase
  <1>0. /\ token[old].state = "live" /\ token[new].state = "absent" /\ old # new
        /\ call[c].kind = "refresh" /\ call[c].pc = "commit"
        /\ call[c].device \in Device /\ token[old].device = call[c].device
        /\ token'[old].state = "spent" /\ token'[new].state = "live"
        /\ \A t \in Token : t # old /\ t # new => token'[t] = token[t]
        /\ UNCHANGED <<jar, signedIn>>
    BY <1>c, <1>o, <1>n, Rotates DEF SessionsBase
  <1>w. WentOn(c, "answer", "rotated", call[c].targets)
    BY <1>c, Rotates DEF SessionsBase
  <1>1. call[c].device \in signedIn
    BY <1>c, <1>0 DEF Honest, HonestCall
  <1>2. /\ \A e : e \in Running' <=> e \in Running
        /\ \A e \in Running : e # c => call'[e] = call[e]
        /\ call'[c].kind = "refresh" /\ call'[c].device = call[c].device /\ call'[c].old = old
        /\ call'[c].new = new /\ call'[c].pc = "answer" /\ call'[c].outcome = "rotated"
    BY <1>w, <1>c, <1>0, <1>o, <1>n DEF Running, WentOn
  <1>3. \A t \in Token : token[t].state # "absent" => t = old \/ token'[t] = token[t]
    BY <1>0
  <1>4. \A e \in Running : e # c => (call[e].new \in Live => call[e].new \in Live')
    <2> SUFFICES ASSUME NEW e \in Running, e # c, call[e].new \in Live PROVE call[e].new \in Live'
      OBVIOUS
    <2>1. call[e].new # old
      BY <1>c, <1>o DEF SessionsBase, SessionsCore, NewIsNews, OnItsWay, Live, Token, NoToken
    <2> QED BY <2>1, <1>3 DEF Live
  <1>5. \A d \in Device : jar[d] # NoToken => jar[d] \in Token /\ token[jar[d]].device = d /\ token[jar[d]].state # "absent"
    BY DEF SessionsBase, SessionsCore, TokensOK, TokenTypes, Signed
  <1>6. HonestJars'
    <2>1. ASSUME NEW d \in signedIn
          PROVE  jar[d] # NoToken /\ token'[jar[d]].state \in {"live", "spent"} /\ Presentable(d)'
      <3>1. d \in Device /\ jar[d] # NoToken /\ token[jar[d]].state \in {"live", "spent"} /\ Presentable(d)
        BY DEF Honest, HonestJars, SessionsBase, SessionsCore, TokenTypes
      <3>2. CASE jar[d] = old
        <4>1. d = call[c].device
          BY <3>1, <3>2, <1>5, <1>0
        <4>2. c \in On(d)' /\ InFlight(call'[c]) /\ new \in Live'
          BY <4>1, <1>2, <1>c, <1>0 DEF On, InFlight, Live
        <4>3. Presentable(d)'
          BY <4>2, <3>2, <1>2, <1>0 DEF Presentable, InFlight
        <4> QED BY <3>1, <3>2, <4>3, <1>0
      <3>3. CASE jar[d] # old
        <4>1. token'[jar[d]] = token[jar[d]] /\ jar[d] \in Token
          BY <3>1, <3>3, <1>3, <1>5
        <4>2. CASE jar[d] \in Live
          BY <3>1, <4>1, <4>2, <1>0 DEF Presentable, Live
        <4>3. CASE jar[d] \notin Live
          <5>1. PICK e \in On(d) : call[e].kind = "refresh" /\ InFlight(call[e]) /\ call[e].old = jar[d] /\ call[e].new \in Live
            BY <3>1, <4>3 DEF Presentable
          <5>2. e # c /\ e \in Running
            BY <5>1, <1>0 DEF InFlight, On
          <5>3. e \in On(d)' /\ call'[e] = call[e] /\ call[e].new \in Live'
            BY <5>1, <5>2, <1>2, <1>4 DEF On
          <5> QED BY <3>1, <4>1, <5>1, <5>3, <1>0 DEF Presentable, InFlight
        <4> QED BY <4>2, <4>3
      <3> QED BY <3>2, <3>3
    <2>2. \A d \in Device \ signedIn : jar[d] # NoToken => token'[jar[d]].state = "deleted"
      BY <1>0, <1>3, <1>5 DEF Honest, HonestJars
    <2> QED BY <2>1, <2>2, <1>0 DEF HonestJars
  <1>7. \A e \in Running' : HonestCall(call[e])'
    <2> SUFFICES ASSUME NEW e \in Running' PROVE HonestCall(call[e])'
      OBVIOUS
    <2>1. CASE e = c
      BY <2>1, <1>0, <1>1, <1>2 DEF HonestCall, Live
    <2>2. CASE e # c
      <3>1. e \in Running /\ call'[e] = call[e] /\ HonestCall(call[e])
        BY <2>2, <1>2 DEF Honest
      <3>2. call[e].kind = "refresh" => call[e].old \in Token /\ Signed(call[e].old) /\ token[call[e].old].device = call[e].device
        BY <3>1 DEF SessionsBase, SessionsCore, TabsOK, TabOK, RefreshOK, NamesOK, Token, NoToken
      <3>3. call[e].kind = "refresh" =>
               \/ token'[call[e].old] = token[call[e].old]
               \/ token'[call[e].old].state = "spent" /\ call[e].device \in signedIn
        BY <3>2, <1>0, <1>1, <1>3 DEF Signed
      <3>4. call[e].new \in Live => call[e].new \in Live'
        BY <3>1, <2>2, <1>4
      <3> QED BY <3>1, <3>3, <3>4, <1>0 DEF HonestCall
    <2> QED BY <2>1, <2>2
  <1> QED BY <1>6, <1>7 DEF Honest

\* An arrival: nobody's token goes, and the call is honest.
LEMMA ArrivalHonest ==
  ASSUME SessionsBase, Honest, NEW c \in Tab, NEW q, CameIn(c, q), UNCHANGED <<jar, signedIn>>,
         \A t \in Token : Signed(t) => token'[t] = token[t], HonestCall(q)'
  PROVE  Honest'
  <1>1. /\ call'[c] = q /\ \A e \in Running : e \in Running' /\ e # c /\ call'[e] = call[e]
        /\ \A e \in Running' : e = c \/ e \in Running
    BY DEF CameIn, Running
  <1>2. \A t \in Live : t \in Live' /\ t \in Token
    BY DEF Live, Signed
  <1>3. \A d \in Device : jar[d] # NoToken => jar[d] \in Token /\ token'[jar[d]] = token[jar[d]]
    BY DEF SessionsBase, SessionsCore, TokensOK, TokenTypes
  <1>4. \A d : Presentable(d) => Presentable(d)'
    <2> SUFFICES ASSUME NEW d, Presentable(d), jar[d] \notin Live PROVE Presentable(d)'
      BY <1>2 DEF Presentable
    <2>1. PICK e \in On(d) : call[e].kind = "refresh" /\ InFlight(call[e]) /\ call[e].old = jar[d] /\ call[e].new \in Live
      BY DEF Presentable
    <2>2. e \in On(d)' /\ call'[e] = call[e]
      BY <1>1 DEF On
    <2> QED BY <2>1, <2>2, <1>2 DEF Presentable, InFlight
  <1>5. HonestJars'
    BY <1>3, <1>4 DEF Honest, HonestJars, SessionsBase, SessionsCore, TokenTypes
  <1>6. \A e \in Running' : HonestCall(call[e])'
    <2> SUFFICES ASSUME NEW e \in Running' PROVE HonestCall(call[e])'
      OBVIOUS
    <2>1. CASE e = c
      BY <2>1, <1>1
    <2>2. CASE e # c
      <3>1. e \in Running /\ call'[e] = call[e] /\ HonestCall(call[e])
        BY <2>2, <1>1 DEF Honest
      <3>2. call[e].kind = "refresh" => token'[call[e].old] = token[call[e].old]
        BY <3>1 DEF SessionsBase, SessionsCore, TabsOK, TabOK, RefreshOK, NamesOK, Token, NoToken
      <3> QED BY <3>1, <3>2, <1>2 DEF HonestCall
    <2> QED BY <2>1, <2>2
  <1> QED BY <1>5, <1>6 DEF Honest

LEMMA RefreshHonest == ASSUME SessionsBase, Honest, NEW c \in Tab, NEW d \in Device, StartRefresh(c, d) PROVE Honest'
  <1>1. PICK q \in TabState :
           /\ ComesAs(c, "refresh", d, q) /\ q.pc = "claim" /\ q.old = jar[d] /\ jar[d] \in Token
    BY RefreshComes DEF SessionsBase
  <1>2. /\ CameIn(c, q) /\ UNCHANGED <<token, jar, signedIn>> /\ q.kind = "refresh" /\ q.device = d /\ q.outcome = "none"
        /\ jar[d] # NoToken
    BY <1>1 DEF ComesAs, Token, NoToken
  <1>3. HonestCall(q)'
    BY <1>1, <1>2 DEF HonestCall, Honest, HonestJars
  <1> QED BY <1>2, <1>3, ArrivalHonest
LEMMA LogoutHonest == ASSUME SessionsBase, Honest, NEW c \in Tab, NEW d \in Device, StartLogout(c, d) PROVE Honest'
  <1>1. PICK q \in TabState : ComesAs(c, "logout", d, q) /\ q.pc = "find"
    BY LogoutComes DEF SessionsBase
  <1>2. CameIn(c, q) /\ UNCHANGED <<token, jar, signedIn>> /\ HonestCall(q)'
    BY <1>1 DEF ComesAs, HonestCall
  <1> QED BY <1>2, ArrivalHonest
LEMMA ResetHonest == ASSUME SessionsBase, Honest, NEW c \in Tab, StartReset(c) PROVE Honest'
  <1>1. PICK q \in TabState : ComesAs(c, "reset", "none", q)
    BY ResetComes DEF SessionsBase
  <1>2. CameIn(c, q) /\ UNCHANGED <<token, jar, signedIn>> /\ HonestCall(q)'
    BY <1>1 DEF ComesAs, HonestCall
  <1> QED BY <1>2, ArrivalHonest
LEMMA SignInHonest == ASSUME SessionsBase, Honest, NEW c \in Tab, NEW d \in Device, SignIn(c, d) PROVE Honest'
  <1>s. PICK t \in Token : t = signed + 1
    BY SignsIn DEF SessionsBase, SessionsCore
  <1>q. PICK q \in TabState : q = Brings(d, t)
    BY <1>s, SignsIn DEF SessionsBase, SessionsCore
  <1>0. /\ signed \in Nat /\ token'[signed + 1] = [state |-> "live", device |-> d, root |-> signed + 1]
        /\ \A u \in Token : u # signed + 1 => token'[u] = token[u]
        /\ UNCHANGED <<jar, signedIn>> /\ CameIn(c, Brings(d, signed + 1))
    BY SignsIn DEF SessionsBase, SessionsCore
  <1>1. /\ token'[t].state = "live" /\ (\A u \in Token : u # t => token'[u] = token[u]) /\ CameIn(c, q)
    BY <1>0, <1>s, <1>q DEF CameIn
  <1>2. \A u \in Token : Signed(u) => token'[u] = token[u]
    BY <1>1, <1>s, <1>0 DEF SessionsBase, SessionsCore, TokensOK, Token
  <1>3. HonestCall(q)'
    BY <1>1, <1>q DEF Brings, HonestCall, Live
  <1> QED BY <1>0, <1>1, <1>2, <1>3, ArrivalHonest

\* A call is over that no jar needed, or whose answer its jar received.
LEMMA AnswerHonest == ASSUME SessionsBase, Honest, disturbed = {}, NEW c \in Tab, ReceiveAnswer(c) PROVE Honest'
  <1>1. /\ c \in Running /\ WentOut(c) /\ call[c].pc = "answer" /\ UNCHANGED <<token, signed, ended, disturbed>>
        /\ signedIn' = (IF call[c].kind = "signIn" THEN signedIn \cup {call[c].device} ELSE signedIn)
        /\ \A d \in Device : d # call[c].device => jar'[d] = jar[d]
        /\ call[c].device \in Device =>
             /\ call[c].outcome = "rotated" => jar'[call[c].device] = call[c].new
             /\ call[c].outcome \in {"raced", "none"} => jar'[call[c].device] = jar[call[c].device]
             /\ call[c].outcome \in {"reuse", "not_found", "out"} => jar'[call[c].device] = NoToken
    BY AnswerGoes DEF SessionsBase
  <1>2. /\ call[c].kind \in {"signIn", "refresh", "logout", "reset"} /\ HonestCall(call[c])
        /\ call[c].kind = "signIn" => SignInOK(call[c])
        /\ call[c].kind = "refresh" => RefreshOK(call[c])
        /\ call[c].kind = "logout" => LogoutOK(call[c])
        /\ call[c].kind = "reset" => ResetOK(call[c])
    BY <1>1, KindAt DEF SessionsBase, TabOK, Honest
  <1>3. Live' = Live
    BY <1>1 DEF Live
  <1>4. /\ \A e \in Running' : e # c /\ e \in Running /\ call'[e] = call[e]
        /\ \A e \in Running : e # c => e \in Running' /\ call'[e] = call[e]
    BY <1>1 DEF WentOut, Running
  <1>5. \A d : Presentable(d) /\ jar'[d] = jar[d] /\ (InFlight(call[c]) => d # call[c].device) => Presentable(d)'
    <2> SUFFICES ASSUME NEW d, Presentable(d), jar'[d] = jar[d], InFlight(call[c]) => d # call[c].device, jar[d] \notin Live
                 PROVE  Presentable(d)'
      BY <1>3 DEF Presentable
    <2>1. PICK e \in On(d) : call[e].kind = "refresh" /\ InFlight(call[e]) /\ call[e].old = jar[d] /\ call[e].new \in Live
      BY DEF Presentable
    <2>2. e # c /\ e \in On(d)' /\ call'[e] = call[e]
      BY <2>1, <1>4 DEF On
    <2> QED BY <2>1, <2>2, <1>3 DEF Presentable, InFlight
  <1>6. \A d \in Device : d # call[c].device =>
           /\ jar'[d] = jar[d] /\ (d \in signedIn' <=> d \in signedIn) /\ (Presentable(d) => Presentable(d)')
    BY <1>1, <1>5
  <1>7. \A d \in Device : d = call[c].device =>
           /\ d \in signedIn' => jar'[d] # NoToken /\ token[jar'[d]].state \in {"live", "spent"} /\ Presentable(d)'
           /\ d \notin signedIn' => (jar'[d] # NoToken => token[jar'[d]].state = "deleted")
    <2> SUFFICES ASSUME NEW d \in Device, d = call[c].device
                 PROVE  /\ d \in signedIn' => jar'[d] # NoToken /\ token[jar'[d]].state \in {"live", "spent"} /\ Presentable(d)'
                        /\ d \notin signedIn' => (jar'[d] # NoToken => token[jar'[d]].state = "deleted")
      OBVIOUS
    <2>1. CASE call[c].outcome = "rotated"
      <3>1. d \in signedIn' /\ call[c].new \in Live
        BY <2>1, <1>1, <1>2 DEF HonestCall, LogoutOK, ResetOK
      <3>2. jar'[d] = call[c].new /\ call[c].new # NoToken
        BY <2>1, <3>1, <1>1 DEF Live, Token, NoToken
      <3>3. Presentable(d)'
        BY <3>1, <3>2, <1>3 DEF Presentable
      <3> QED BY <3>1, <3>2, <3>3 DEF Live
    <2>2. CASE call[c].outcome \in {"raced", "none"}
      <3>1. jar'[d] = jar[d] /\ signedIn' = signedIn /\ ~InFlight(call[c])
        BY <2>2, <1>1, <1>2 DEF SignInOK, InFlight
      <3> QED BY <3>1, <1>5 DEF Honest, HonestJars
    <2>3. CASE call[c].outcome \in {"reuse", "not_found", "out"}
      <3>1. jar'[d] = NoToken /\ signedIn' = signedIn
        BY <2>3, <1>1, <1>2 DEF SignInOK, InFlight
      <3>2. d \notin signedIn
        BY <2>3, <1>1, <1>2 DEF HonestCall, RefreshOK, SignInOK, InFlight, LogoutOK, ResetOK
      <3> QED BY <3>1, <3>2
    <2>4. call[c].outcome \in Outcomes
      BY <1>1, KindAt DEF SessionsBase
    <2> QED BY <2>1, <2>2, <2>3, <2>4 DEF Outcomes
  <1>8. HonestJars'
    <2>1. signedIn' \subseteq Device
      BY <1>1, <1>2 DEF SessionsBase, SessionsCore, TokenTypes, SignInOK
    <2>2. \A d \in signedIn' : jar'[d] # NoToken /\ token'[jar'[d]].state \in {"live", "spent"} /\ Presentable(d)'
      BY <2>1, <1>1, <1>6, <1>7 DEF Honest, HonestJars
    <2>3. \A d \in Device \ signedIn' : jar'[d] # NoToken => token'[jar'[d]].state = "deleted"
      BY <1>1, <1>6, <1>7 DEF Honest, HonestJars
    <2> QED BY <2>2, <2>3 DEF HonestJars
  <1>9. \A e \in Running' : HonestCall(call[e])'
    <2> SUFFICES ASSUME NEW e \in Running' PROVE HonestCall(call[e])'
      OBVIOUS
    <2>1. e # c /\ e \in Running /\ call'[e] = call[e] /\ HonestCall(call[e])
      BY <1>4 DEF Honest
    <2>2. call[e].device \in signedIn' <=> call[e].device \in signedIn
      <3> SUFFICES ASSUME call[c].kind = "signIn", call[e].device = call[c].device PROVE FALSE
        BY <1>1
      <3>1. Orderly(call[c].device) /\ e \in On(call[c].device) /\ c \in On(call[c].device)
        BY <2>1, <1>1, <1>2, AllOrderly DEF SignInOK, On
      <3> QED BY <2>1, <3>1 DEF Orderly
    <2> QED BY <2>1, <2>2, <1>1, <1>3 DEF HonestCall
  <1> QED BY <1>8, <1>9 DEF Honest

LEMMA LossHonest == ASSUME SessionsBase, Honest, disturbed' = {}, NEW c \in Tab, Lose(c) PROVE Honest'
  <1>1. /\ c \in Running /\ WentOut(c) /\ UNCHANGED <<token, jar, signed, signedIn, ended>>
        /\ ~(call[c].pc = "answer" /\ call[c].kind = "refresh")
    BY LossGoes DEF SessionsBase
  <1>2. /\ \A e \in Running' : e # c /\ e \in Running /\ call'[e] = call[e]
        /\ \A e \in Running : e # c => e \in Running' /\ call'[e] = call[e]
    BY <1>1 DEF WentOut, Running
  <1>3. Live' = Live
    BY <1>1 DEF Live
  <1>4. \A d : Presentable(d) => Presentable(d)'
    <2> SUFFICES ASSUME NEW d, Presentable(d), jar[d] \notin Live PROVE Presentable(d)'
      BY <1>1, <1>3 DEF Presentable
    <2>1. PICK e \in On(d) : call[e].kind = "refresh" /\ InFlight(call[e]) /\ call[e].old = jar[d] /\ call[e].new \in Live
      BY DEF Presentable
    <2>2. e \in On(d)' /\ call'[e] = call[e]
      BY <2>1, <1>1, <1>2 DEF On, InFlight
    <2> QED BY <2>1, <2>2, <1>1, <1>3 DEF Presentable, InFlight
  <1>5. HonestJars'
    BY <1>1, <1>4 DEF Honest, HonestJars
  <1>6. \A e \in Running' : HonestCall(call[e])'
    BY <1>1, <1>2, <1>3 DEF Honest, HonestCall
  <1> QED BY <1>5, <1>6 DEF Honest

LEMMA SessionsStart == SessionsInit => SessionsInv
  <1> SUFFICES ASSUME SessionsInit PROVE SessionsInv
    OBVIOUS
  <1>1. Running = {} /\ Live = {} /\ \A t \in Token : ~Signed(t)
    BY DEF SessionsInit, Running, Live, Signed, Absent
  <1>2. Absent \in TokenRow
    BY DEF Absent, TokenRow, TokenState
  <1>3. TokenTypes
    BY <1>2, TokensAssumption DEF SessionsInit, TokenTypes
  <1>4. TabsOK /\ NewIsNews
    BY <1>1 DEF TabsOK, NewIsNews, OfKind
  <1>5. TokensOK /\ OneLiveEach
    BY <1>1 DEF TokensOK, OneLiveEach, SessionsInit
  <1>6. UndisturbedOrderly /\ EndedSessionsStayEnded
    BY <1>1 DEF UndisturbedOrderly, Orderly, On, OfKind, EndedSessionsStayEnded
  <1>7. Honest
    BY <1>1 DEF Honest, HonestJars, SessionsInit
  <1> QED BY <1>3, <1>4, <1>5, <1>6, <1>7 DEF SessionsInv, SessionsBase, SessionsCore

LEMMA SessionsStep == ASSUME SessionsInv, SessionsNext PROVE SessionsInv'
  <1>1. SessionsBase'
    BY BaseStep DEF SessionsInv
  <1>2. disturbed \subseteq disturbed'
    <2>1. CASE \E c \in Tab, d \in Device : SignIn(c, d) \/ StartRefresh(c, d) \/ StartLogout(c, d)
      BY <2>1 DEF SignIn, StartRefresh, StartLogout, Begins, Disturbs
    <2>2. CASE \E c \in Tab : StartReset(c) \/ Claim(c) \/ CommitRotation(c) \/ Judge(c) \/ FindSuccessor(c)
      BY <2>2 DEF StartReset, Begins, Disturbs, Claim, CommitRotation, Judge, FindSuccessor, sessionHistory
    <2>3. CASE \E c \in Tab : \/ PurgeStart(c) \/ Purge(c) \/ FindLive(c) \/ DeleteById(c)
                              \/ ReceiveAnswer(c) \/ Lose(c)
      BY <2>3 DEF PurgeStart, Purge, FindLive, DeleteById, ReceiveAnswer, Lose, sessionHistory
    <2>4. CASE \E t \in Token : GraceEnds(t)
      BY <2>4 DEF GraceEnds
    <2> QED BY <2>1, <2>2, <2>3, <2>4 DEF SessionsNext
  <1>3. ASSUME disturbed' = {} PROVE Honest'
    <2> USE <1>3
    <2>0. SessionsBase /\ Honest /\ disturbed = {}
      BY <1>2 DEF SessionsInv
    <2>1. CASE \E c \in Tab, d \in Device : SignIn(c, d) \/ StartRefresh(c, d) \/ StartLogout(c, d)
      BY <2>0, <2>1, SignInHonest, RefreshHonest, LogoutHonest
    <2>2. CASE \E c \in Tab : StartReset(c) \/ Claim(c) \/ CommitRotation(c) \/ Judge(c) \/ FindSuccessor(c)
      BY <2>0, <2>2, ResetHonest, ClaimHonest, RotationHonest, JudgeHonest, SuccessorHonest
    <2>3. CASE \E c \in Tab : \/ PurgeStart(c) \/ Purge(c) \/ FindLive(c) \/ DeleteById(c)
                              \/ ReceiveAnswer(c) \/ Lose(c)
      BY <2>0, <2>3, PurgeStartHonest, PurgeHonest, FindLiveHonest, DeleteHonest, AnswerHonest, LossHonest
    <2>4. CASE \E t \in Token : GraceEnds(t)
      BY <2>0, <2>4, GraceHonest
    <2> QED BY <2>1, <2>2, <2>3, <2>4 DEF SessionsNext
  <1> QED BY <1>1, <1>3 DEF SessionsInv

LEMMA SessionsRest == ASSUME SessionsInv, UNCHANGED sessionVars PROVE SessionsInv'
  <1> USE DEF sessionVars, sessionHistory
  <1>1. Running' = Running /\ Live' = Live
    BY DEF Running, Live
  <1>2. TokenTypes' /\ TokensOK' /\ OneLiveEach'
    BY <1>1 DEF SessionsInv, SessionsBase, SessionsCore, TokenTypes, TokensOK, OneLiveEach, Signed
  <1>3. TabsOK'
    BY <1>1 DEF SessionsInv, SessionsBase, SessionsCore, TabsOK, TabOK, SignInOK, RefreshOK, LogoutOK, ResetOK,
                NamesOK, Signed, InFlight
  <1>4. NewIsNews'
    BY <1>1 DEF SessionsInv, SessionsBase, SessionsCore, NewIsNews, OnItsWay, OfKind, AtStep, Signed, InFlight
  <1>5. UndisturbedOrderly' /\ EndedSessionsStayEnded'
    BY <1>1 DEF SessionsInv, SessionsBase, UndisturbedOrderly, Orderly, On, OfKind, AtStep, InFlight,
                EndedSessionsStayEnded
  <1>6. disturbed' = {} => Honest'
    BY <1>1 DEF SessionsInv, Honest, HonestJars, HonestCall, Presentable, On, InFlight
  <1> QED BY <1>2, <1>3, <1>4, <1>5, <1>6 DEF SessionsInv, SessionsBase, SessionsCore

LEMMA SessionsHeld == Spec => [](part = "sessions" => SessionsInv)
  <1>1. Init => (part = "sessions" => SessionsInv)
    BY SessionsStart DEF Init
  <1>2. (part = "sessions" => SessionsInv) /\ [Next]_vars => (part = "sessions" => SessionsInv)'
    BY SessionsStep, SessionsRest DEF Next, vars
  <1> QED BY <1>1, <1>2, PTL DEF Spec

\* A device's session lasts through tabs that refresh at once and whatever the other devices do,
\* and a session that a logout or a password reset ended has no live token left
\* (SessionsAreSound).
THEOREM SessionsLastAndEnd == Spec => []SessionsAreSound
  <1>1. SessionsInv => HonestSessionsLast
    <2> SUFFICES ASSUME SessionsInv, disturbed = {}, NEW d \in signedIn PROVE jar[d] \in Live \/ Coming(d)
      BY DEF HonestSessionsLast
    <2>1. Presentable(d)
      BY DEF SessionsInv, Honest, HonestJars
    <2> QED BY <2>1 DEF Presentable, Coming, InFlight
  <1>2. (part = "sessions" => SessionsInv) => SessionsAreSound
    BY <1>1 DEF SessionsAreSound, SessionsInv, SessionsBase
  <1> QED BY <1>2, SessionsHeld, PTL

-----------------------------------------------------------------------------
(* The sections of the profile. *)

PieceRow == [held : BOOLEAN, deleted : BOOLEAN, version : Nat, text : Nat]
SkillRow == [held : BOOLEAN, deleted : BOOLEAN, count : Nat]
PieceEdit == [pc : {"shown", "save"}, on : Piece, version : Nat, text : Nat]
SkillEdit == [pc : {"endorse", "remove"}, on : Skill, count : Nat]
TierEdit == [pc : {"tier"}, on : {"user"}, address : {"own", "tombstone"}]

SectionTypes ==
  /\ moment \in Nat /\ piece \in [Piece -> PieceRow] /\ skillRow \in [Skill -> SkillRow] /\ writings \in Nat
  /\ subscriber \in [address : {"own", "tombstone"}, tier : {"FREE", "PREMIUM"}, deleted : BOOLEAN]
  /\ editing \in [Editing -> PieceEdit \cup SkillEdit \cup TierEdit \cup {NoEditing}]
  /\ endorsed \in [Skill -> Nat] /\ restored \in BOOLEAN

\* What an edit has seen of a piece is the piece, as far as its version tells; two edits about to
\* save one piece are on record.
Unseen(e) ==
  /\ piece[editing[e].on].held
  /\ editing[e].version <= piece[editing[e].on].version
  /\ editing[e].on \in tangledRows \/ piece[editing[e].on].text = editing[e].text
       \/ (editing[e].pc = "shown" /\ editing[e].version # piece[editing[e].on].version)
PieceEditsSee ==
  /\ \A p \in Piece : piece[p].version <= moment
  /\ \A e \in Editing : editing[e] \in PieceEdit => Unseen(e)
  /\ \A d, e \in Editing :
       editing[d].pc = "save" /\ editing[e].pc = "save" /\ editing[d].on = editing[e].on /\ d # e =>
         editing[e].on \in tangledRows

\* What a removed row was, it stays: it is still there.
RemovedAreRows ==
  /\ \A p \in Piece \cap removedRows : piece[p].held /\ piece[p].deleted
  /\ \A k \in Skill \cap removedRows : skillRow[k].held /\ skillRow[k].deleted
  /\ \A e \in Editing : editing[e] \in SkillEdit => skillRow[editing[e].on].held

\* What an endorsement has read is the count, but where two read it at once.
CountsAreRead ==
  /\ \A k \in Skill : skillRow[k].count <= endorsed[k] /\ (k \notin tangledRows => skillRow[k].count = endorsed[k])
  /\ \A e \in Editing : editing[e] \in SkillEdit /\ editing[e].pc = "endorse" =>
       /\ editing[e].count <= endorsed[editing[e].on]
       /\ editing[e].on \notin tangledRows => editing[e].count = endorsed[editing[e].on]
  /\ \A d, e \in Editing :
       editing[d].pc = "endorse" /\ editing[e].pc = "endorse" /\ editing[d].on = editing[e].on /\ d # e =>
         editing[e].on \in tangledRows

\* Once the account is deleted no tier request holds its address, but on record.
TierIsReleased ==
  subscriber.deleted /\ ~ restored =>
    /\ subscriber.address = "tombstone"
    /\ \A e \in Editing : editing[e] \in TierEdit => editing[e].address = "tombstone"

SectionInv ==
  /\ SectionTypes /\ PieceEditsSee /\ EditsSeeWhatTheyReplace /\ RemovedAreRows /\ CountsAreRead /\ TierIsReleased

LEMMA EditKinds ==
  /\ \A q \in PieceEdit : /\ q.pc \in {"shown", "save"} /\ q.on \in Piece /\ q.version \in Nat /\ q.text \in Nat
                          /\ q \notin SkillEdit /\ q \notin TierEdit /\ q # NoEditing
  /\ \A q \in SkillEdit : /\ q.pc \in {"endorse", "remove"} /\ q.on \in Skill /\ q.count \in Nat
                          /\ q \notin PieceEdit /\ q \notin TierEdit /\ q # NoEditing
  /\ \A q \in TierEdit : /\ q.pc = "tier" /\ q.address \in {"own", "tombstone"}
                         /\ q \notin PieceEdit /\ q \notin SkillEdit /\ q # NoEditing
  /\ NoEditing.pc = "idle"
  <1>1. /\ \A q \in PieceEdit : q.pc \in {"shown", "save"} /\ q.on \in Piece /\ q.version \in Nat /\ q.text \in Nat
        /\ \A q \in SkillEdit : q.pc \in {"endorse", "remove"} /\ q.on \in Skill /\ q.count \in Nat
        /\ \A q \in TierEdit : q.pc = "tier" /\ q.address \in {"own", "tombstone"}
        /\ NoEditing.pc = "idle"
    BY DEF PieceEdit, SkillEdit, TierEdit, NoEditing
  <1> QED BY <1>1

LEMMA PieceKinds ==
  ASSUME NEW r \in PieceRow, NEW v \in Nat, NEW w \in Nat
  PROVE /\ r.held \in BOOLEAN /\ r.deleted \in BOOLEAN /\ r.version \in Nat /\ r.text \in Nat
        /\ [held |-> TRUE, deleted |-> FALSE, version |-> v, text |-> w] \in PieceRow
        /\ [r EXCEPT !.text = w, !.version = v] \in PieceRow /\ [r EXCEPT !.text = w, !.version = v].version = v
        /\ [r EXCEPT !.text = w, !.version = v].held = r.held /\ [r EXCEPT !.text = w, !.version = v].deleted = r.deleted
        /\ [r EXCEPT !.text = w, !.version = v].text = w
        /\ [r EXCEPT !.deleted = TRUE, !.version = v] \in PieceRow /\ [r EXCEPT !.deleted = TRUE, !.version = v].version = v
        /\ [r EXCEPT !.deleted = TRUE, !.version = v].held = r.held /\ [r EXCEPT !.deleted = TRUE, !.version = v].deleted
        /\ [r EXCEPT !.deleted = TRUE, !.version = v].text = r.text
  BY DEF PieceRow

LEMMA SectionsStart == SectionsInit => SectionInv
  <1> SUFFICES ASSUME SectionsInit PROVE SectionInv
    OBVIOUS
  <1> USE DEF SectionsInit
  <1>1. SectionTypes
    BY DEF SectionTypes, PieceRow, SkillRow, NoPiece, NoSkill
  <1>2. PieceEditsSee
    BY EditKinds DEF PieceEditsSee, NoPiece
  <1>3. EditsSeeWhatTheyReplace /\ RemovedAreRows /\ TierIsReleased
    BY EditKinds DEF EditsSeeWhatTheyReplace, RemovedAreRows, TierIsReleased
  <1>4. CountsAreRead
    BY EditKinds DEF CountsAreRead, NoSkill
  <1> QED BY <1>1, <1>2, <1>3, <1>4 DEF SectionInv

\* A request that ends takes what it had read with it.
LEMMA LeaveFits ==
  ASSUME SectionTypes, NEW e \in Editing, Leave(e)
  PROVE /\ editing' \in [Editing -> PieceEdit \cup SkillEdit \cup TierEdit \cup {NoEditing}]
        /\ editing'[e] = NoEditing /\ \A d \in Editing : d # e => editing'[d] = editing[d]
  BY DEF SectionTypes, Leave

LEMMA PassMomentKeeps == ASSUME SectionInv, PassMoment PROVE SectionInv'
  <1> USE DEF SectionInv, PassMoment
  <1>1. SectionTypes'
    BY DEF SectionTypes
  <1>2. PieceEditsSee'
    <2>1. \A p \in Piece : piece[p].version \in Nat /\ moment \in Nat
      BY DEF SectionTypes, PieceRow
    <2>2. \A p \in Piece : piece'[p].version <= moment'
      BY <2>1 DEF PieceEditsSee
    <2>3. \A e \in Editing : editing'[e] \in PieceEdit => Unseen(e)'
      BY DEF PieceEditsSee, Unseen
    <2> QED BY <2>2, <2>3 DEF PieceEditsSee
  <1>3. EditsSeeWhatTheyReplace' /\ RemovedAreRows' /\ CountsAreRead' /\ TierIsReleased'
    BY DEF EditsSeeWhatTheyReplace, RemovedAreRows, CountsAreRead, TierIsReleased
  <1> QED BY <1>1, <1>2, <1>3

\* A step that changes no skill and not the user's row.
LEMMA PiecesKeep ==
  ASSUME SectionInv, SectionTypes', PieceEditsSee', EditsSeeWhatTheyReplace',
         \A p \in Piece \cap removedRows' : piece'[p].held /\ piece'[p].deleted,
         Skill \cap removedRows' \subseteq removedRows, tangledRows \subseteq tangledRows',
         \A e \in Editing : editing'[e] = editing[e] \/ (editing'[e] \in PieceEdit) \/ editing'[e] = NoEditing,
         UNCHANGED <<skillRow, subscriber, endorsed, restored>>
  PROVE SectionInv'
  <1> USE DEF SectionInv
  <1>1. \A e \in Editing : /\ editing'[e] \in SkillEdit => editing'[e] = editing[e]
                           /\ editing'[e] \in TierEdit => editing'[e] = editing[e]
                           /\ editing'[e].pc = "endorse" => editing'[e] = editing[e]
    BY EditKinds
  <1>2. RemovedAreRows'
    BY <1>1 DEF RemovedAreRows
  <1>3. CountsAreRead'
    BY <1>1 DEF CountsAreRead
  <1>4. TierIsReleased'
    BY <1>1 DEF TierIsReleased
  <1> QED BY <1>2, <1>3, <1>4

LEMMA AddPieceKeeps == ASSUME SectionInv, NEW p \in Piece, AddPiece(p) PROVE SectionInv'
  <1> USE DEF SectionInv, AddPiece
  <1> DEFINE r == [held |-> TRUE, deleted |-> FALSE, version |-> moment, text |-> writings + 1]
  <1>0. moment \in Nat /\ writings \in Nat /\ writings + 1 \in Nat /\ ~ piece[p].held /\ piece[p] \in PieceRow
    BY DEF SectionTypes
  <1>1. r \in PieceRow /\ piece' = [piece EXCEPT ![p] = r]
    BY <1>0, PieceKinds
  <1>2. r.version = moment /\ r.held
    OBVIOUS
  <1> HIDE DEF r
  <1>3. piece'[p] = r /\ \A q \in Piece : q # p => piece'[q] = piece[q]
    BY <1>1 DEF SectionTypes
  <1>4. SectionTypes'
    BY <1>0, <1>1 DEF SectionTypes
  <1>5. \A e \in Editing : editing[e] \in PieceEdit => editing[e].on \in Piece /\ editing[e].on # p
    BY <1>0, EditKinds DEF PieceEditsSee, Unseen
  <1>6. PieceEditsSee'
    <2>1. \A q \in Piece : piece'[q].version <= moment'
      BY <1>0, <1>2, <1>3 DEF PieceEditsSee
    <2>2. \A e \in Editing : editing'[e] \in PieceEdit => Unseen(e)'
      BY <1>3, <1>5 DEF PieceEditsSee, Unseen
    <2> QED BY <2>1, <2>2 DEF PieceEditsSee
  <1>7. EditsSeeWhatTheyReplace'
    BY DEF EditsSeeWhatTheyReplace
  <1>8. \A q \in Piece \cap removedRows' : piece'[q].held /\ piece'[q].deleted
    BY <1>0, <1>3 DEF RemovedAreRows
  <1> QED BY <1>4, <1>6, <1>7, <1>8, PiecesKeep

LEMMA ShowPieceKeeps == ASSUME SectionInv, NEW e \in Editing, NEW p \in Piece, ShowPiece(e, p) PROVE SectionInv'
  <1> USE DEF SectionInv, ShowPiece
  <1>1. PICK q \in PieceEdit : /\ q = [pc |-> "shown", on |-> p, version |-> piece[p].version, text |-> piece[p].text]
                               /\ q.pc = "shown" /\ q.on = p /\ q.version = piece[p].version /\ q.text = piece[p].text
    BY DEF PieceEdit, SectionTypes, PieceRow
  <1>2. editing' = [editing EXCEPT ![e] = q] /\ piece[p].held /\ UNCHANGED <<moment, piece, tangledRows>>
    BY <1>1 DEF LivePiece
  <1>3. editing'[e] = q /\ \A d \in Editing : d # e => editing'[d] = editing[d]
    BY <1>2 DEF SectionTypes
  <1>4. SectionTypes'
    BY <1>2 DEF SectionTypes
  <1>5. PieceEditsSee'
    <2>1. Unseen(e)'
      BY <1>1, <1>2, <1>3 DEF Unseen, SectionTypes, PieceRow
    <2>2. \A d \in Editing : editing'[d] \in PieceEdit => Unseen(d)'
      BY <1>2, <1>3, <2>1 DEF PieceEditsSee, Unseen
    <2>3. \A d \in Editing : editing'[d].pc = "save" => d # e
      BY <1>1, <1>3
    <2> QED BY <1>2, <1>3, <2>2, <2>3 DEF PieceEditsSee
  <1>6. EditsSeeWhatTheyReplace'
    BY DEF EditsSeeWhatTheyReplace
  <1> QED BY <1>3, <1>4, <1>5, <1>6, PiecesKeep DEF RemovedAreRows

LEMMA AskEditKeeps == ASSUME SectionInv, NEW e \in Editing, AskEdit(e) PROVE SectionInv'
  <1> USE DEF SectionInv
  <1>0. editing[e] \in PieceEdit /\ editing[e].pc = "shown" /\ Unseen(e) /\ editing[e].on \in Piece
    BY EditKinds DEF AskEdit, SectionTypes, PieceEditsSee
  <1>1. UNCHANGED <<moment, piece, skillRow, subscriber, writings, removedRows, endorsed, blind, restored>>
    BY DEF AskEdit
  <1>2. tangledRows \subseteq tangledRows'
    BY DEF AskEdit
  <1>3. EditsSeeWhatTheyReplace'
    BY <1>1, <1>2 DEF EditsSeeWhatTheyReplace
  <1>4. CASE VersionMatches(e)
    <2> DEFINE q == [editing[e] EXCEPT !.pc = "save"]
    <2>1. q \in PieceEdit /\ q.pc = "save" /\ q.on = editing[e].on /\ q.version = editing[e].version /\ q.text = editing[e].text
      BY <1>0 DEF PieceEdit
    <2>2. editing' = [editing EXCEPT ![e] = q]
      BY <1>4 DEF AskEdit
    <2> HIDE DEF q
    <2>3. editing'[e] = q /\ \A d \in Editing : d # e => editing'[d] = editing[d]
      BY <2>2 DEF SectionTypes
    <2>4. SectionTypes'
      BY <1>1, <2>1, <2>2 DEF SectionTypes
    <2>5. editing[e].on \in tangledRows \/ piece[editing[e].on].text = editing[e].text
      BY <1>0, <1>4 DEF Unseen, VersionMatches
    <2>6. Unseen(e)'
      BY <1>0, <1>1, <1>2, <2>1, <2>3, <2>5 DEF Unseen
    <2>7. \A d \in Editing : editing'[d] \in PieceEdit => Unseen(d)'
      BY <1>1, <1>2, <2>3, <2>6 DEF PieceEditsSee, Unseen
    <2>8. \A d \in Editing : d # e /\ editing[d].pc = "save" /\ editing[d].on = editing[e].on => editing[e].on \in tangledRows'
      BY <1>4 DEF AskEdit, OtherOn
    <2>9. \A c, d \in Editing : editing'[d].pc = "save" /\ editing'[c].pc = "save" /\ editing'[d].on = editing'[c].on /\ d # c =>
            editing'[c].on \in tangledRows'
      BY <1>2, <2>1, <2>3, <2>8 DEF PieceEditsSee
    <2>10. PieceEditsSee'
      BY <1>1, <2>7, <2>9 DEF PieceEditsSee
    <2> QED BY <1>1, <1>2, <1>3, <2>1, <2>3, <2>4, <2>10, PiecesKeep DEF RemovedAreRows
  <1>5. CASE ~ VersionMatches(e)
    <2>1. Leave(e) /\ tangledRows' = tangledRows
      BY <1>5 DEF AskEdit
    <2>2. editing'[e] = NoEditing /\ \A d \in Editing : d # e => editing'[d] = editing[d]
      BY <2>1, LeaveFits
    <2>3. SectionTypes'
      BY <1>1, <2>1, LeaveFits DEF SectionTypes
    <2>4. PieceEditsSee'
      BY <1>1, <2>1, <2>2, EditKinds DEF PieceEditsSee, Unseen
    <2> QED BY <1>1, <1>2, <1>3, <2>2, <2>3, <2>4, PiecesKeep DEF RemovedAreRows
  <1> QED BY <1>4, <1>5

LEMMA WritePieceKeeps == ASSUME SectionInv, NEW e \in Editing, WritePiece(e) PROVE SectionInv'
  <1> USE DEF SectionInv
  <1>0. editing[e] \in PieceEdit /\ editing[e].pc = "save" /\ Unseen(e)
    BY EditKinds DEF WritePiece, SectionTypes, PieceEditsSee
  <1>p. PICK p \in Piece : p = editing[e].on
    BY <1>0, EditKinds
  <1>m. moment \in Nat /\ writings \in Nat /\ piece[p] \in PieceRow /\ piece[p].version \in Nat /\ piece[p].version <= moment
    BY DEF SectionTypes, PieceRow, PieceEditsSee
  <1>1. /\ UNCHANGED <<moment, skillRow, subscriber, removedRows, endorsed, restored>> /\ Leave(e)
        /\ writings' = writings + 1 /\ tangledRows \subseteq tangledRows'
        /\ piece[p].version = moment => p \in tangledRows'
        /\ blind' = IF piece[p].text # editing[e].text THEN blind \cup {p} ELSE blind
    BY <1>p DEF WritePiece
  <1> DEFINE r == [piece[p] EXCEPT !.text = writings + 1, !.version = moment]
  <1>2. r \in PieceRow /\ r.version = moment /\ r.held = piece[p].held /\ r.deleted = piece[p].deleted
    <2>1. PICK w \in Nat : w = writings + 1
      BY <1>m
    <2>2. r = [piece[p] EXCEPT !.text = w, !.version = moment]
      BY <2>1
    <2>3. [piece[p] EXCEPT !.text = w, !.version = moment] \in PieceRow
      BY <1>m DEF PieceRow
    <2> HIDE DEF r
    <2> QED BY <1>m, <2>2, <2>3 DEF PieceRow
  <1>3. piece' = [piece EXCEPT ![p] = r]
    <2>1. piece' = [piece EXCEPT ![p].text = writings + 1, ![p].version = moment]
      BY <1>p DEF WritePiece, SavePiece
    <2> QED BY <2>1 DEF SectionTypes
  <1> HIDE DEF r
  <1>4. piece'[p] = r /\ \A q \in Piece : q # p => piece'[q] = piece[q]
    BY <1>3 DEF SectionTypes
  <1>5. editing'[e] = NoEditing /\ \A d \in Editing : d # e => editing'[d] = editing[d]
    BY <1>1, LeaveFits
  <1>6. SectionTypes'
    BY <1>1, <1>2, <1>3, <1>m, LeaveFits DEF SectionTypes
  <1>7. PieceEditsSee'
    <2>1. \A q \in Piece : piece'[q].version <= moment'
      BY <1>m, <1>1, <1>2, <1>4 DEF PieceEditsSee
    <2>2. ASSUME NEW d \in Editing, editing'[d] \in PieceEdit PROVE Unseen(d)'
      <3>1. d # e /\ editing'[d] = editing[d] /\ Unseen(d) /\ editing[d].on \in Piece /\ editing[d].version \in Nat
        BY <2>2, <1>5, EditKinds DEF PieceEditsSee
      <3>2. CASE editing[d].on = p
        <4>1. editing[d].version <= moment
          BY <3>1, <3>2, <1>m DEF Unseen
        <4>2. editing[d].pc = "save" => p \in tangledRows
          BY <1>0, <1>p, <3>1, <3>2 DEF PieceEditsSee
        <4>3. editing[d].pc = "shown" => p \in tangledRows' \/ editing[d].version # moment
          BY <1>m, <1>1, <3>1, <3>2 DEF Unseen
        <4>4. editing[d].pc \in {"shown", "save"}
          BY <2>2, <3>1, EditKinds
        <4> QED BY <1>1, <1>2, <1>4, <3>1, <3>2, <4>1, <4>2, <4>3, <4>4 DEF Unseen
      <3>3. CASE editing[d].on # p
        BY <1>1, <1>4, <3>1, <3>3 DEF Unseen
      <3> QED BY <3>2, <3>3
    <2>3. \A c, d \in Editing : editing'[d].pc = "save" /\ editing'[c].pc = "save" /\ editing'[d].on = editing'[c].on /\ d # c =>
            editing'[c].on \in tangledRows'
      BY <1>1, <1>5, EditKinds DEF PieceEditsSee
    <2> QED BY <2>1, <2>2, <2>3 DEF PieceEditsSee
  <1>8. EditsSeeWhatTheyReplace'
    BY <1>0, <1>p, <1>1 DEF EditsSeeWhatTheyReplace, Unseen
  <1>9. \A q \in Piece \cap removedRows' : piece'[q].held /\ piece'[q].deleted
    BY <1>1, <1>2, <1>4 DEF RemovedAreRows
  <1> QED BY <1>1, <1>5, <1>6, <1>7, <1>8, <1>9, PiecesKeep

LEMMA DeletePieceKeeps == ASSUME SectionInv, NEW p \in Piece, DeletePiece(p) PROVE SectionInv'
  <1> USE DEF SectionInv
  <1>m. moment \in Nat /\ piece[p] \in PieceRow /\ piece[p].version \in Nat /\ piece[p].version <= moment /\ piece[p].held
    BY DEF SectionTypes, PieceRow, PieceEditsSee, DeletePiece, LivePiece
  <1>1. /\ UNCHANGED <<moment, skillRow, subscriber, editing, writings, endorsed, blind, tangledRows, restored>>
        /\ removedRows' = removedRows \cup {p}
    BY DEF DeletePiece
  <1> DEFINE r == [piece[p] EXCEPT !.deleted = TRUE, !.version = moment]
  <1>2. r \in PieceRow /\ r.version = moment /\ r.held /\ r.deleted /\ r.text = piece[p].text
    BY <1>m DEF PieceRow
  <1>3. piece' = [piece EXCEPT ![p] = r]
    BY DEF DeletePiece, SectionTypes
  <1> HIDE DEF r
  <1>4. piece'[p] = r /\ \A q \in Piece : q # p => piece'[q] = piece[q]
    BY <1>3 DEF SectionTypes
  <1>5. SectionTypes'
    BY <1>1, <1>2, <1>3 DEF SectionTypes
  <1>6. PieceEditsSee'
    <2>1. \A q \in Piece : piece'[q].version <= moment'
      BY <1>m, <1>1, <1>2, <1>4 DEF PieceEditsSee
    <2>2. ASSUME NEW d \in Editing, editing'[d] \in PieceEdit PROVE Unseen(d)'
      <3>1. editing'[d] = editing[d] /\ Unseen(d) /\ editing[d].on \in Piece /\ editing[d].version \in Nat
        BY <1>1, <2>2, EditKinds DEF PieceEditsSee
      <3>2. CASE editing[d].on = p
        <4>1. editing[d].version <= piece[p].version
          BY <3>1, <3>2 DEF Unseen
        <4>2. CASE piece[p].version = moment
          BY <1>1, <1>2, <1>4, <3>1, <3>2, <4>2 DEF Unseen
        <4>3. CASE piece[p].version # moment
          BY <1>m, <1>1, <1>2, <1>4, <3>1, <3>2, <4>1, <4>3 DEF Unseen
        <4> QED BY <4>2, <4>3
      <3>3. CASE editing[d].on # p
        BY <1>1, <1>4, <3>1, <3>3 DEF Unseen
      <3> QED BY <3>2, <3>3
    <2> QED BY <1>1, <2>1, <2>2 DEF PieceEditsSee
  <1>7. EditsSeeWhatTheyReplace'
    BY <1>1 DEF EditsSeeWhatTheyReplace
  <1>8. \A q \in Piece \cap removedRows' : piece'[q].held /\ piece'[q].deleted
    BY <1>1, <1>2, <1>4 DEF RemovedAreRows
  <1>9. Skill \cap removedRows' \subseteq removedRows
    BY <1>1, SectionsAssumption
  <1> QED BY <1>1, <1>5, <1>6, <1>7, <1>8, <1>9, PiecesKeep

\* A step that changes no piece and begins no edit of one.
LEMMA SkillsKeep ==
  ASSUME SectionInv, SectionTypes', RemovedAreRows', CountsAreRead', tangledRows \subseteq tangledRows',
         \A e \in Editing : editing'[e] = editing[e] \/ (editing'[e] \in SkillEdit) \/ editing'[e] = NoEditing,
         UNCHANGED <<moment, piece, subscriber, blind, restored>>
  PROVE SectionInv'
  <1> USE DEF SectionInv
  <1>1. \A e \in Editing : /\ editing'[e] \in PieceEdit => editing'[e] = editing[e]
                           /\ editing'[e] \in TierEdit => editing'[e] = editing[e]
                           /\ editing'[e].pc = "save" => editing'[e] = editing[e]
    BY EditKinds
  <1>2. PieceEditsSee'
    BY <1>1 DEF PieceEditsSee, Unseen
  <1>3. EditsSeeWhatTheyReplace' /\ TierIsReleased'
    BY <1>1 DEF EditsSeeWhatTheyReplace, TierIsReleased
  <1> QED BY <1>2, <1>3

LEMMA SkillKinds ==
  ASSUME NEW r \in SkillRow, NEW n \in Nat
  PROVE /\ r.held \in BOOLEAN /\ r.deleted \in BOOLEAN /\ r.count \in Nat
        /\ [r EXCEPT !.held = TRUE] \in SkillRow /\ [r EXCEPT !.held = TRUE].held
        /\ [r EXCEPT !.held = TRUE].count = r.count /\ [r EXCEPT !.held = TRUE].deleted = r.deleted
        /\ [r EXCEPT !.count = n] \in SkillRow /\ [r EXCEPT !.count = n].count = n
        /\ [r EXCEPT !.count = n].held = r.held /\ [r EXCEPT !.count = n].deleted = r.deleted
        /\ [r EXCEPT !.deleted = TRUE] \in SkillRow /\ [r EXCEPT !.deleted = TRUE].deleted
        /\ [r EXCEPT !.deleted = TRUE].held = r.held /\ [r EXCEPT !.deleted = TRUE].count = r.count
  BY DEF SkillRow

LEMMA AddSkillKeeps == ASSUME SectionInv, NEW k \in Skill, AddSkill(k) PROVE SectionInv'
  <1> USE DEF SectionInv
  <1>1. /\ UNCHANGED <<moment, piece, subscriber, editing, writings, removedRows, endorsed, blind, tangledRows, restored>>
        /\ skillRow' = [skillRow EXCEPT ![k] = [skillRow[k] EXCEPT !.held = TRUE]] /\ ~ skillRow[k].held
        /\ skillRow[k] \in SkillRow
    BY DEF AddSkill, SectionTypes
  <1> DEFINE r == [skillRow[k] EXCEPT !.held = TRUE]
  <1>2. r \in SkillRow /\ r.held /\ r.count = skillRow[k].count
    BY <1>1, SkillKinds
  <1> HIDE DEF r
  <1>3. skillRow' = [skillRow EXCEPT ![k] = r]
    BY <1>1 DEF r
  <1>4. skillRow'[k] = r /\ \A j \in Skill : j # k => skillRow'[j] = skillRow[j]
    BY <1>3 DEF SectionTypes
  <1>5. SectionTypes'
    BY <1>1, <1>2, <1>3 DEF SectionTypes
  <1>6. RemovedAreRows'
    BY <1>1, <1>2, <1>4, EditKinds DEF RemovedAreRows
  <1>7. CountsAreRead'
    BY <1>1, <1>2, <1>4, EditKinds DEF CountsAreRead
  <1> QED BY <1>1, <1>5, <1>6, <1>7, SkillsKeep

LEMMA FindSkillKeeps ==
  ASSUME SectionInv, NEW e \in Editing, NEW k \in Skill, NEW pc \in {"endorse", "remove"}, FindByUserAndSkill(e, k, pc)
  PROVE SectionInv'
  <1> USE DEF SectionInv
  <1>1. PICK q \in SkillEdit : /\ q = [pc |-> pc, on |-> k, count |-> skillRow[k].count]
                               /\ q.pc = pc /\ q.on = k /\ q.count = skillRow[k].count
    <2>1. skillRow[k].count \in Nat
      BY DEF SectionTypes, SkillRow
    <2> DEFINE q == [pc |-> pc, on |-> k, count |-> skillRow[k].count]
    <2>2. q \in SkillEdit
      BY <2>1 DEF SkillEdit
    <2>3. q.pc = pc /\ q.on = k /\ q.count = skillRow[k].count
      OBVIOUS
    <2> QED BY <2>2, <2>3
  <1>2. /\ editing' = [editing EXCEPT ![e] = q] /\ skillRow[k].held /\ tangledRows \subseteq tangledRows'
        /\ k \in tangledRows' \/ pc = "remove" \/ ~ OtherOn(e, "endorse", k)
        /\ UNCHANGED <<moment, piece, skillRow, subscriber, writings, removedRows, endorsed, blind, restored>>
    BY <1>1 DEF FindByUserAndSkill, LiveSkill
  <1>3. editing'[e] = q /\ \A d \in Editing : d # e => editing'[d] = editing[d]
    BY <1>2 DEF SectionTypes
  <1>4. SectionTypes'
    BY <1>2 DEF SectionTypes
  <1>5. RemovedAreRows'
    BY <1>1, <1>2, <1>3 DEF RemovedAreRows
  <1>6. CountsAreRead'
    <2>1. \A d \in Editing : editing'[d] \in SkillEdit /\ editing'[d].pc = "endorse" =>
            /\ editing'[d].count <= endorsed[editing'[d].on]
            /\ editing'[d].on \notin tangledRows' => editing'[d].count = endorsed[editing'[d].on]
      BY <1>1, <1>2, <1>3 DEF CountsAreRead
    <2>2. \A c, d \in Editing :
            editing'[d].pc = "endorse" /\ editing'[c].pc = "endorse" /\ editing'[d].on = editing'[c].on /\ d # c =>
              editing'[c].on \in tangledRows'
      BY <1>1, <1>2, <1>3 DEF CountsAreRead, OtherOn
    <2> QED BY <1>2, <2>1, <2>2 DEF CountsAreRead
  <1> QED BY <1>2, <1>3, <1>4, <1>5, <1>6, SkillsKeep

LEMMA EndorseKeeps == ASSUME SectionInv, NEW e \in Editing, EndorseSkill(e) PROVE SectionInv'
  <1> USE DEF SectionInv
  <1>0. editing[e] \in SkillEdit /\ editing[e].pc = "endorse"
    BY EditKinds DEF EndorseSkill, SectionTypes
  <1>k. PICK k \in Skill : k = editing[e].on
    BY <1>0, EditKinds
  <1>n. PICK n \in Nat : n = editing[e].count + 1 /\ n = editing[e].count + 1
    BY <1>0, EditKinds
  <1>1. /\ UNCHANGED <<moment, piece, subscriber, removedRows, blind, tangledRows, restored>> /\ Leave(e)
        /\ writings' = writings + 1 /\ endorsed' = [endorsed EXCEPT ![k] = @ + 1]
        /\ skillRow' = [skillRow EXCEPT ![k] = [skillRow[k] EXCEPT !.count = n]]
    BY <1>k, <1>n DEF EndorseSkill, SaveEndorsement
  <1>2. PICK r \in SkillRow : /\ r = [skillRow[k] EXCEPT !.count = n]
                              /\ r.count = n /\ r.held = skillRow[k].held /\ r.deleted = skillRow[k].deleted
    <2>1. skillRow[k] \in SkillRow
      BY DEF SectionTypes
    <2>2. n \in Nat
      BY <1>n
    <2>3. PICK q \in SkillRow : q = skillRow[k]
      BY <2>1
    <2>4. /\ [q EXCEPT !.count = n] \in SkillRow /\ [q EXCEPT !.count = n].count = n
          /\ [q EXCEPT !.count = n].held = q.held /\ [q EXCEPT !.count = n].deleted = q.deleted
      BY <2>2, <2>3 DEF SkillRow
    <2> QED BY <2>3, <2>4
  <1>3. skillRow' = [skillRow EXCEPT ![k] = r]
    BY <1>1, <1>2
  <1>4. skillRow'[k] = r /\ \A j \in Skill : j # k => skillRow'[j] = skillRow[j]
    BY <1>3 DEF SectionTypes
  <1>5. editing'[e] = NoEditing /\ \A d \in Editing : d # e => editing'[d] = editing[d]
    BY <1>1, LeaveFits
  <1>6. /\ endorsed'[k] = endorsed[k] + 1 /\ endorsed[k] \in Nat /\ endorsed' \in [Skill -> Nat]
        /\ \A j \in Skill : j # k => endorsed'[j] = endorsed[j]
    BY <1>1 DEF SectionTypes
  <1>7. SectionTypes'
    BY <1>1, <1>2, <1>3, <1>6, LeaveFits DEF SectionTypes
  <1>8. RemovedAreRows'
    BY <1>1, <1>2, <1>4, <1>5, EditKinds DEF RemovedAreRows
  <1>9. CountsAreRead'
    <2>0. editing[e].count <= endorsed[k] /\ editing[e].count \in Nat /\ (k \notin tangledRows => editing[e].count = endorsed[k])
      BY <1>0, <1>k, EditKinds DEF CountsAreRead
    <2>1. \A j \in Skill : skillRow'[j].count <= endorsed'[j] /\ (j \notin tangledRows => skillRow'[j].count = endorsed'[j])
      <3>1. \A j \in Skill : j # k => skillRow'[j].count <= endorsed'[j] /\ (j \notin tangledRows => skillRow'[j].count = endorsed'[j])
        BY <1>4, <1>6 DEF CountsAreRead
      <3>2. skillRow'[k].count = editing[e].count + 1 /\ endorsed'[k] = endorsed[k] + 1 /\ endorsed[k] \in Nat
        BY <1>2, <1>4, <1>6, <1>n
      <3>3. skillRow'[k].count <= endorsed'[k] /\ (k \notin tangledRows => skillRow'[k].count = endorsed'[k])
        BY <2>0, <3>2
      <3> QED BY <3>1, <3>3
    <2>2. ASSUME NEW d \in Editing, editing'[d] \in SkillEdit, editing'[d].pc = "endorse"
          PROVE /\ editing'[d].count <= endorsed'[editing'[d].on]
                /\ editing'[d].on \notin tangledRows => editing'[d].count = endorsed'[editing'[d].on]
      <3>1. d # e /\ editing'[d] = editing[d]
        BY <2>2, <1>5, EditKinds
      <3>2. editing[d].on \in Skill /\ editing[d].count \in Nat
        BY <2>2, <3>1, EditKinds
      <3>3. editing[d].on = k => k \in tangledRows
        BY <1>0, <1>k, <2>2, <3>1 DEF CountsAreRead
      <3>4. /\ editing[d].count <= endorsed[editing[d].on]
            /\ editing[d].on \notin tangledRows => editing[d].count = endorsed[editing[d].on]
        BY <2>2, <3>1 DEF CountsAreRead
      <3> QED BY <1>6, <3>1, <3>2, <3>3, <3>4
    <2>3. \A c, d \in Editing :
            editing'[d].pc = "endorse" /\ editing'[c].pc = "endorse" /\ editing'[d].on = editing'[c].on /\ d # c =>
              editing'[c].on \in tangledRows
      BY <1>5, EditKinds DEF CountsAreRead
    <2> QED BY <1>1, <2>1, <2>2, <2>3 DEF CountsAreRead
  <1> QED BY <1>1, <1>5, <1>7, <1>8, <1>9, SkillsKeep

LEMMA RemoveSkillKeeps == ASSUME SectionInv, NEW e \in Editing, RemoveSkill(e) PROVE SectionInv'
  <1> USE DEF SectionInv
  <1>0. editing[e] \in SkillEdit /\ editing[e].pc = "remove"
    BY EditKinds DEF RemoveSkill, SectionTypes
  <1>k. PICK k \in Skill : k = editing[e].on
    BY <1>0, EditKinds
  <1>1. /\ UNCHANGED <<moment, piece, subscriber, writings, endorsed, blind, tangledRows, restored>> /\ Leave(e)
        /\ removedRows' = removedRows \cup {k}
        /\ skillRow' = [skillRow EXCEPT ![k] = [skillRow[k] EXCEPT !.deleted = TRUE]]
    BY <1>k DEF RemoveSkill
  <1>2. PICK r \in SkillRow : /\ r = [skillRow[k] EXCEPT !.deleted = TRUE]
                              /\ r.deleted /\ r.held = skillRow[k].held /\ r.count = skillRow[k].count
    BY SkillKinds DEF SectionTypes
  <1>3. skillRow' = [skillRow EXCEPT ![k] = r]
    BY <1>1, <1>2
  <1>4. skillRow'[k] = r /\ \A j \in Skill : j # k => skillRow'[j] = skillRow[j]
    BY <1>3 DEF SectionTypes
  <1>5. editing'[e] = NoEditing /\ \A d \in Editing : d # e => editing'[d] = editing[d]
    BY <1>1, LeaveFits
  <1>6. SectionTypes'
    BY <1>1, <1>2, <1>3, LeaveFits DEF SectionTypes
  <1>7. skillRow[k].held
    BY <1>0, <1>k DEF RemovedAreRows
  <1>8. RemovedAreRows'
    <2>1. Piece \cap removedRows' \subseteq removedRows
      BY <1>1, SectionsAssumption
    <2>2. \A p \in Piece \cap removedRows' : piece'[p].held /\ piece'[p].deleted
      BY <1>1, <2>1 DEF RemovedAreRows
    <2>3. \A j \in Skill : j \in removedRows' /\ j # k => j \in removedRows
      BY <1>1
    <2>4. skillRow'[k].held /\ skillRow'[k].deleted
      BY <1>2, <1>4, <1>7
    <2>5. \A j \in Skill \cap removedRows' : skillRow'[j].held /\ skillRow'[j].deleted
      BY <1>4, <2>3, <2>4 DEF RemovedAreRows
    <2>6. ASSUME NEW d \in Editing, editing'[d] \in SkillEdit PROVE skillRow'[editing'[d].on].held
      <3>1. editing'[d] = editing[d] /\ editing[d].on \in Skill /\ skillRow[editing[d].on].held
        BY <2>6, <1>5, EditKinds DEF RemovedAreRows
      <3> QED BY <1>4, <2>4, <3>1
    <2> QED BY <2>2, <2>5, <2>6 DEF RemovedAreRows
  <1>9. CountsAreRead'
    BY <1>1, <1>2, <1>4, <1>5, EditKinds DEF CountsAreRead
  <1> QED BY <1>1, <1>5, <1>6, <1>8, <1>9, SkillsKeep

\* A step that begins no edit of a piece or a skill, and changes none.
LEMMA TiersKeep ==
  ASSUME SectionInv, SectionTypes', TierIsReleased',
         \A e \in Editing : editing'[e] = editing[e] \/ (editing'[e] \in TierEdit) \/ editing'[e] = NoEditing,
         UNCHANGED <<moment, piece, skillRow, writings, removedRows, endorsed, blind, tangledRows>>
  PROVE SectionInv'
  <1> USE DEF SectionInv
  <1>1. \A e \in Editing : /\ editing'[e] \in PieceEdit => editing'[e] = editing[e]
                           /\ editing'[e] \in SkillEdit => editing'[e] = editing[e]
                           /\ editing'[e].pc \in {"save", "endorse"} => editing'[e] = editing[e]
    BY EditKinds
  <1>2. PieceEditsSee' /\ EditsSeeWhatTheyReplace'
    BY <1>1 DEF PieceEditsSee, Unseen, EditsSeeWhatTheyReplace
  <1>3. RemovedAreRows' /\ CountsAreRead'
    BY <1>1 DEF RemovedAreRows, CountsAreRead
  <1> QED BY <1>2, <1>3

LEMMA TierKeeps ==
  ASSUME SectionInv,
         \/ \E e \in Editing : AskTier(e) \/ \E tier \in {"FREE", "PREMIUM"} : SaveTier(e, tier)
         \/ SoftDeleteSubscriber
  PROVE SectionInv'
  <1> USE DEF SectionInv
  <1>s. /\ subscriber \in [address : {"own", "tombstone"}, tier : {"FREE", "PREMIUM"}, deleted : BOOLEAN]
        /\ subscriber.address \in {"own", "tombstone"} /\ subscriber.deleted \in BOOLEAN
    BY DEF SectionTypes
  <1>1. CASE \E e \in Editing : AskTier(e)
    <2>1. PICK e \in Editing : AskTier(e)
      BY <1>1
    <2> DEFINE q == [pc |-> "tier", on |-> "user", address |-> subscriber.address]
    <2>2. q \in TierEdit /\ q.address = subscriber.address
      BY <1>s DEF TierEdit
    <2>3. /\ editing' = [editing EXCEPT ![e] = q]
          /\ UNCHANGED <<moment, piece, skillRow, subscriber, writings, removedRows, endorsed, blind, tangledRows, restored>>
      BY <2>1 DEF AskTier
    <2> HIDE DEF q
    <2>4. editing'[e] = q /\ \A d \in Editing : d # e => editing'[d] = editing[d]
      BY <2>3 DEF SectionTypes
    <2>5. SectionTypes'
      BY <2>2, <2>3 DEF SectionTypes
    <2>6. TierIsReleased'
      BY <2>2, <2>3, <2>4 DEF TierIsReleased
    <2> QED BY <2>2, <2>3, <2>4, <2>5, <2>6, TiersKeep
  <1>2. CASE \E e \in Editing, tier \in {"FREE", "PREMIUM"} : SaveTier(e, tier)
    <2>1. PICK e \in Editing, tier \in {"FREE", "PREMIUM"} : SaveTier(e, tier)
      BY <1>2
    <2>0. editing[e] \in TierEdit /\ editing[e].address \in {"own", "tombstone"}
      BY <2>1, EditKinds DEF SaveTier, SectionTypes
    <2>2. /\ subscriber' = [subscriber EXCEPT !.tier = tier, !.address = editing[e].address] /\ Leave(e)
          /\ UNCHANGED <<moment, piece, skillRow, writings, removedRows, endorsed, blind, tangledRows, restored>>
      BY <2>1 DEF SaveTier
    <2>3. editing'[e] = NoEditing /\ \A d \in Editing : d # e => editing'[d] = editing[d]
      BY <2>2, LeaveFits
    <2>4. /\ subscriber' \in [address : {"own", "tombstone"}, tier : {"FREE", "PREMIUM"}, deleted : BOOLEAN]
          /\ subscriber'.address = editing[e].address /\ subscriber'.deleted = subscriber.deleted
      BY <1>s, <2>0, <2>2
    <2>5. SectionTypes'
      BY <2>2, <2>4, LeaveFits DEF SectionTypes
    <2>6. TierIsReleased'
      BY <2>0, <2>2, <2>3, <2>4, EditKinds DEF TierIsReleased
    <2> QED BY <2>2, <2>3, <2>5, <2>6, TiersKeep
  <1>3. CASE SoftDeleteSubscriber
    <2>1. /\ subscriber' = [subscriber EXCEPT !.deleted = TRUE, !.address = "tombstone"]
          /\ restored' = (\E e \in Editing : editing[e].pc = "tier")
          /\ UNCHANGED <<moment, piece, skillRow, editing, writings, removedRows, endorsed, blind, tangledRows>>
      BY <1>3 DEF SoftDeleteSubscriber
    <2>2. /\ subscriber' \in [address : {"own", "tombstone"}, tier : {"FREE", "PREMIUM"}, deleted : BOOLEAN]
          /\ subscriber'.address = "tombstone"
      BY <1>s, <2>1
    <2>3. restored' \in BOOLEAN /\ (restored' <=> \E e \in Editing : editing[e].pc = "tier")
      BY <2>1
    <2>4. SectionTypes'
      BY <2>1, <2>2, <2>3 DEF SectionTypes
    <2>5. TierIsReleased'
      BY <2>1, <2>2, <2>3, EditKinds DEF TierIsReleased
    <2> QED BY <2>1, <2>4, <2>5, TiersKeep
  <1> QED BY <1>1, <1>2, <1>3

LEMMA SectionsStep == ASSUME SectionInv, SectionsNext PROVE SectionInv'
  <1>1. CASE PassMoment
    BY <1>1, PassMomentKeeps
  <1>2. CASE \E p \in Piece : AddPiece(p) \/ DeletePiece(p)
    BY <1>2, AddPieceKeeps, DeletePieceKeeps
  <1>3. CASE \E e \in Editing, p \in Piece : ShowPiece(e, p)
    BY <1>3, ShowPieceKeeps
  <1>4. CASE \/ \E k \in Skill : AddSkill(k)
             \/ \E e \in Editing, k \in Skill, pc \in {"endorse", "remove"} : FindByUserAndSkill(e, k, pc)
    BY <1>4, AddSkillKeeps, FindSkillKeeps
  <1>5. CASE \E e \in Editing : AskEdit(e) \/ WritePiece(e) \/ EndorseSkill(e) \/ RemoveSkill(e)
    BY <1>5, AskEditKeeps, WritePieceKeeps, EndorseKeeps, RemoveSkillKeeps
  <1>6. CASE \/ \E e \in Editing : AskTier(e) \/ \E tier \in {"FREE", "PREMIUM"} : SaveTier(e, tier)
             \/ SoftDeleteSubscriber
    BY <1>6, TierKeeps
  <1> QED BY <1>1, <1>2, <1>3, <1>4, <1>5, <1>6 DEF SectionsNext

LEMMA SectionsStand == ASSUME SectionInv, UNCHANGED sectionVars PROVE SectionInv'
  BY DEF SectionInv, sectionVars, SectionTypes, PieceEditsSee, Unseen, EditsSeeWhatTheyReplace, RemovedAreRows,
         CountsAreRead, TierIsReleased

LEMMA SectionsSound == SectionInv => SectionsAreKept
  BY DEF SectionInv, SectionsAreKept, RemovedAreRows, RowsStayRemoved, CountsAreRead, EndorsementsAreCounted,
         TierIsReleased, AddressIsReleased

-----------------------------------------------------------------------------
(* The profile. *)

Stated == Nat \ {0}
FactRow == [version : Nat, name : Nat, city : Nat, country : Nat, prefs : Nat, min : Nat, max : Nat]
PlaceValue == {{}} \cup {{<<x, y>>} : x \in Stated, y \in Stated}
RangeValue == {{}} \cup {{<<x, y>>} : x \in Stated, y \in Stated}
Ordered(range) == \A x, y \in Nat : range = {<<x, y>>} => x <= y
WholeProfile == [name : Nat, prefs : Nat, place : PlaceValue, range : RangeValue]
Revision == [pc : {"save"}, profile : WholeProfile, named : SUBSET ProfileParts, version : Nat]

WholeRow(r) ==
  /\ r \in FactRow
  /\ (r.city = Unstated) = (r.country = Unstated)
  /\ {r.min, r.max} = {Unstated} \/ SoundRange(r.min, r.max)

ProfileTypes ==
  /\ WholeRow(facts) /\ crossed \subseteq ProfileParts
  /\ revision \in [Editing -> Revision \cup {NoRevision}]
  /\ \A e \in Editing : revision[e] \in Revision => Ordered(revision[e].profile.range)

\* What a request has read of the parts it does not name is the row, as far as its version tells.
RevisionsSee ==
  \A e \in Editing : revision[e] \in Revision =>
    /\ revision[e].version <= facts.version
    /\ revision[e].version = facts.version =>
         \A f \in ProfileParts \ revision[e].named : revision[e].profile[f] = MapToDomain(facts)[f]

ProfileInv ==
  /\ ProfileTypes /\ RevisionsSee
  /\ \A f \in ProfileParts \ crossed : MapToDomain(facts)[f] = answered[f]

LEMMA RevisionKinds ==
  /\ \A q \in Revision : /\ q.pc = "save" /\ q.profile \in WholeProfile /\ q.named \subseteq ProfileParts /\ q.version \in Nat
                         /\ q # NoRevision
  /\ NoRevision \notin Revision /\ NoRevision.pc = "idle"
  <1>1. /\ \A q \in Revision : q.pc = "save" /\ q.profile \in WholeProfile /\ q.named \subseteq ProfileParts /\ q.version \in Nat
        /\ NoRevision.pc = "idle"
    BY DEF Revision, NoRevision
  <1> QED BY <1>1

\* Two numbers are a place or a range when both are stated.
LEMMA BothFits ==
  ASSUME NEW x \in Nat, NEW y \in Nat
  PROVE /\ Both(x, y) \in PlaceValue /\ Both(x, y) \in RangeValue
        /\ x <= y => Ordered(Both(x, y))
        /\ Both(x, y) = {} <=> (x = 0 \/ y = 0)
        /\ Both(x, y) # {} => Both(x, y) = {<<x, y>>}
  <1>1. CASE x = 0 \/ y = 0
    <2>1. Both(x, y) = {}
      BY <1>1 DEF Both, Unstated
    <2>2. Ordered({})
      BY DEF Ordered
    <2>3. Both(x, y) \in PlaceValue /\ Both(x, y) \in RangeValue /\ Ordered(Both(x, y))
      BY <2>1, <2>2 DEF PlaceValue, RangeValue
    <2> QED BY <1>1, <2>1, <2>3
  <1>2. CASE x # 0 /\ y # 0
    <2>1. Both(x, y) = {<<x, y>>}
      BY <1>2 DEF Both, Unstated
    <2>2. {<<x, y>>} \in PlaceValue /\ {<<x, y>>} \in RangeValue
      BY <1>2 DEF PlaceValue, RangeValue, Stated
    <2>3. ASSUME x <= y, NEW a \in Nat, NEW b \in Nat, {<<x, y>>} = {<<a, b>>} PROVE a <= b
      <3>1. <<x, y>> = <<a, b>>
        BY <2>3
      <3> QED BY <2>3, <3>1
    <2> QED BY <1>2, <2>1, <2>2, <2>3 DEF Ordered
  <1> QED BY <1>1, <1>2

\* The sides of a place or a range make it up again.
LEMMA SidesFit ==
  ASSUME NEW pair \in PlaceValue
  PROVE /\ Side(pair, 1) \in Nat /\ Side(pair, 2) \in Nat
        /\ Both(Side(pair, 1), Side(pair, 2)) = pair
        /\ Side(pair, 1) = 0 <=> pair = {}
        /\ Side(pair, 2) = 0 <=> pair = {}
        /\ pair # {} => pair = {<<Side(pair, 1), Side(pair, 2)>>}
  <1>1. CASE pair = {}
    BY <1>1 DEF Side, Both, Unstated
  <1>2. CASE pair # {}
    <2>1. PICK x \in Stated, y \in Stated : pair = {<<x, y>>}
      BY <1>2 DEF PlaceValue
    <2>2. (CHOOSE p \in pair : TRUE) \in pair
      BY <1>2
    <2>3. (CHOOSE p \in pair : TRUE) = <<x, y>>
      BY <2>1, <2>2
    <2>4. Side(pair, 1) = x /\ Side(pair, 2) = y
      <3>1. Side(pair, 1) = <<x, y>>[1]
        BY <1>2, <2>3 DEF Side
      <3>2. Side(pair, 2) = <<x, y>>[2]
        BY <1>2, <2>3 DEF Side
      <3> QED BY <3>1, <3>2
    <2> QED BY <1>2, <2>1, <2>4 DEF Both, Stated, Unstated
  <1> QED BY <1>1, <1>2

\* A profile that is saved reads back as it was.
LEMMA RoundTrip ==
  ASSUME NEW q \in WholeProfile, Ordered(q.range), NEW v \in Nat
  PROVE /\ WholeRow(ToRow(q, v)) /\ ToRow(q, v).version = v
        /\ \A f \in ProfileParts : MapToDomain(ToRow(q, v))[f] = q[f]
  <1>1. q.name \in Nat /\ q.prefs \in Nat /\ q.place \in PlaceValue /\ q.range \in PlaceValue
    BY DEF WholeProfile, RangeValue, PlaceValue
  <1>2. PICK c \in Nat, k \in Nat : c = Side(q.place, 1) /\ k = Side(q.place, 2)
    BY <1>1, SidesFit
  <1>3. PICK a \in Nat, b \in Nat : a = Side(q.range, 1) /\ b = Side(q.range, 2)
    BY <1>1, SidesFit
  <1>4. Both(c, k) = q.place /\ (c = 0 <=> q.place = {}) /\ (k = 0 <=> q.place = {})
    BY <1>1, <1>2, SidesFit
  <1>5. /\ Both(a, b) = q.range /\ (a = 0 <=> q.range = {}) /\ (b = 0 <=> q.range = {})
        /\ q.range # {} => q.range = {<<a, b>>}
    BY <1>1, <1>3, SidesFit
  <1>6. (a = 0 /\ b = 0) \/ SoundRange(a, b)
    BY <1>5 DEF Ordered, SoundRange, Unstated
  <1>7. PICK r : r = [version |-> v, name |-> q.name, prefs |-> q.prefs, min |-> a, max |-> b, city |-> c, country |-> k]
    OBVIOUS
  <1>8. ToRow(q, v) = r
    BY <1>2, <1>3, <1>7 DEF ToRow
  <1>9. /\ r \in FactRow /\ r.version = v /\ r.name = q.name /\ r.prefs = q.prefs
        /\ r.min = a /\ r.max = b /\ r.city = c /\ r.country = k
    BY <1>1, <1>7 DEF FactRow
  <1>10. WholeRow(r)
    <2>1. (r.city = Unstated) = (r.country = Unstated)
      BY <1>4, <1>9 DEF Unstated
    <2> QED BY <1>6, <1>9, <2>1 DEF WholeRow, Unstated
  <1>11. /\ MapToDomain(r)["name"] = q["name"] /\ MapToDomain(r)["prefs"] = q["prefs"]
         /\ MapToDomain(r)["place"] = q["place"] /\ MapToDomain(r)["range"] = q["range"]
    BY <1>4, <1>5, <1>9 DEF MapToDomain
  <1> QED BY <1>8, <1>9, <1>10, <1>11 DEF ProfileParts

\* A whole row reads as a profile.
LEMMA ReadsWhole ==
  ASSUME NEW r, WholeRow(r)
  PROVE MapToDomain(r) \in WholeProfile /\ Ordered(MapToDomain(r).range)
  <1>1. r.name \in Nat /\ r.prefs \in Nat /\ r.city \in Nat /\ r.country \in Nat /\ r.min \in Nat /\ r.max \in Nat
    BY DEF WholeRow, FactRow
  <1>2. Both(r.city, r.country) \in PlaceValue /\ Both(r.min, r.max) \in RangeValue
    BY <1>1, BothFits
  <1>3. Ordered(Both(r.min, r.max))
    <2>1. CASE SoundRange(r.min, r.max)
      BY <1>1, <2>1, BothFits DEF SoundRange
    <2>2. CASE {r.min, r.max} = {Unstated}
      <3>1. r.min = 0 /\ r.max = 0
        BY <2>2 DEF Unstated
      <3> QED BY <1>1, <3>1, BothFits
    <2> QED BY <2>1, <2>2 DEF WholeRow
  <1> QED BY <1>1, <1>2, <1>3 DEF MapToDomain, WholeProfile

LEMMA ProfileStart == ProfileInit => ProfileInv
  <1> SUFFICES ASSUME ProfileInit PROVE ProfileInv
    OBVIOUS
  <1>1. WholeRow(facts)
    BY DEF ProfileInit, EmptyRow, WholeRow, FactRow, Unstated
  <1>2. \A e \in Editing : revision[e] \notin Revision
    BY RevisionKinds DEF ProfileInit
  <1>3. ProfileTypes
    BY <1>1, <1>2 DEF ProfileInit, ProfileTypes
  <1>4. RevisionsSee
    BY <1>2 DEF RevisionsSee
  <1> QED BY <1>3, <1>4 DEF ProfileInv, ProfileInit

\* Saving a profile: the row is whole again, and what is named is answered.
LEMMA SaveFits ==
  ASSUME ProfileInv, NEW q \in WholeProfile, Ordered(q.range), NEW named \in SUBSET ProfileParts, SaveProfile(q, named)
  PROVE /\ WholeRow(facts') /\ facts'.version = facts.version + 1 /\ facts.version \in Nat
        /\ \A f \in ProfileParts : /\ MapToDomain(facts')[f] = q[f]
                                   /\ f \in named => answered'[f] = q[f]
                                   /\ f \notin named => answered'[f] = answered[f]
  <1>1. facts.version \in Nat
    BY DEF ProfileInv, ProfileTypes, WholeRow, FactRow
  <1>2. PICK v \in Nat : v = facts.version + 1
    BY <1>1
  <1>3. /\ facts' = ToRow(q, v)
        /\ answered' = [f \in ProfileParts |-> IF f \in named THEN q[f] ELSE answered[f]]
    BY <1>2 DEF SaveProfile
  <1>4. \A f \in ProfileParts : /\ f \in named => answered'[f] = q[f]
                                /\ f \notin named => answered'[f] = answered[f]
    BY <1>3
  <1> QED BY <1>1, <1>2, <1>3, <1>4, RoundTrip

LEMMA CreateKeeps ==
  ASSUME ProfileInv, NEW d \in CreateProfileDto(facts.version + 1), CreateProfile(d)
  PROVE ProfileInv'
  <1>1. facts.version \in Nat
    BY DEF ProfileInv, ProfileTypes, WholeRow, FactRow
  <1>2. /\ d.name \in Nat /\ d.city \in Nat /\ d.country \in Nat /\ d.min \in Nat /\ d.max \in Nat
    BY <1>1 DEF CreateProfileDto, Unstated
  <1>3. PICK q : q = [name |-> d.name, prefs |-> Unstated, place |-> Both(d.city, d.country), range |-> Both(d.min, d.max)]
    OBVIOUS
  <1>4. SaveProfile(q, ProfileParts) /\ UNCHANGED <<revision, crossed>> /\ (Both(d.min, d.max) # {} => SoundRange(d.min, d.max))
    BY <1>3 DEF CreateProfile
  <1>5. Both(d.city, d.country) \in PlaceValue /\ Both(d.min, d.max) \in RangeValue
    BY <1>2, BothFits
  <1>6. q \in WholeProfile /\ q.range = Both(d.min, d.max)
    BY <1>2, <1>3, <1>5 DEF WholeProfile, Unstated
  <1>7. Ordered(q.range)
    <2>1. CASE Both(d.min, d.max) = {}
      BY <1>6, <2>1 DEF Ordered
    <2>2. CASE Both(d.min, d.max) # {}
      BY <1>2, <1>4, <1>6, <2>2, BothFits DEF SoundRange
    <2> QED BY <2>1, <2>2
  <1>8. /\ WholeRow(facts') /\ facts'.version = facts.version + 1
        /\ \A f \in ProfileParts : MapToDomain(facts')[f] = q[f] /\ answered'[f] = q[f]
    BY <1>4, <1>6, <1>7, SaveFits
  <1>9. ProfileTypes'
    BY <1>4, <1>8 DEF ProfileInv, ProfileTypes
  <1>10. RevisionsSee'
    <2>1. ASSUME NEW e \in Editing, revision'[e] \in Revision
          PROVE revision'[e].version <= facts'.version /\ revision'[e].version # facts'.version
      <3>1. revision'[e] = revision[e] /\ revision[e].version \in Nat /\ revision[e].version <= facts.version
        BY <1>4, <2>1, RevisionKinds DEF ProfileInv, RevisionsSee
      <3> QED BY <1>1, <1>8, <3>1
    <2> QED BY <2>1 DEF RevisionsSee
  <1> QED BY <1>8, <1>9, <1>10 DEF ProfileInv

\* A request that has read the row: what it does not name is the row's.
LEMMA ReadsKeeps ==
  ASSUME ProfileInv, NEW e \in Editing, NEW q \in WholeProfile, Ordered(q.range), NEW named \in SUBSET ProfileParts,
         \A f \in ProfileParts \ named : q[f] = MapToDomain(facts)[f], Reads(e, q, named)
  PROVE ProfileInv'
  <1>1. PICK v \in Nat : v = facts.version
    BY DEF ProfileInv, ProfileTypes, WholeRow, FactRow
  <1>2. PICK r : r = [pc |-> "save", profile |-> q, named |-> named, version |-> v]
    OBVIOUS
  <1>3. r \in Revision /\ r.profile = q /\ r.named = named /\ r.version = v
    BY <1>2 DEF Revision
  <1>4. UNCHANGED <<facts, answered, crossed>> /\ revision' = [revision EXCEPT ![e] = r]
    BY <1>1, <1>2 DEF Reads
  <1>5. /\ revision'[e] = r /\ \A d \in Editing : d # e => revision'[d] = revision[d]
        /\ revision' \in [Editing -> Revision \cup {NoRevision}]
    BY <1>3, <1>4 DEF ProfileInv, ProfileTypes
  <1>6. ProfileTypes'
    BY <1>3, <1>4, <1>5 DEF ProfileInv, ProfileTypes
  <1>7. RevisionsSee'
    <2>1. ASSUME NEW d \in Editing, revision'[d] \in Revision
          PROVE /\ revision'[d].version <= facts'.version
                /\ revision'[d].version = facts'.version =>
                     \A f \in ProfileParts \ revision'[d].named : revision'[d].profile[f] = MapToDomain(facts')[f]
      <3>1. CASE d = e
        BY <1>1, <1>3, <1>4, <1>5, <3>1
      <3>2. CASE d # e
        BY <1>4, <1>5, <2>1, <3>2 DEF ProfileInv, RevisionsSee
      <3> QED BY <3>1, <3>2
    <2> QED BY <2>1 DEF RevisionsSee
  <1> QED BY <1>4, <1>6, <1>7 DEF ProfileInv

LEMMA AskUpdateKeeps ==
  ASSUME ProfileInv, NEW e \in Editing, NEW d \in UpdateProfileDto(facts.version + 1), AskUpdate(e, d)
  PROVE ProfileInv'
  <1>1. PICK n \in Stated : n = facts.version + 1
    BY DEF ProfileInv, ProfileTypes, WholeRow, FactRow, Stated
  <1>2. PICK q \in WholeProfile : q = MapToDomain(facts) /\ Ordered(q.range)
    BY ReadsWhole DEF ProfileInv, ProfileTypes
  <1>3. PICK named \in SUBSET ProfileParts :
          named = (IF d.name = Unstated THEN {} ELSE {"name"}) \cup (IF d.place = {} THEN {} ELSE {"place"})
    BY DEF ProfileParts
  <1>4. PICK a : a = IF d.name = Unstated THEN q.name ELSE d.name
    OBVIOUS
  <1>5. PICK b : b = IF d.place = {} THEN q.place ELSE d.place
    OBVIOUS
  <1>6. d.name \in {Unstated, n} /\ d.place \in {{}, {<<n, n>>}}
    BY <1>1 DEF UpdateProfileDto
  <1>7. q.name \in Nat /\ q.prefs \in Nat /\ q.place \in PlaceValue /\ q.range \in RangeValue
    BY DEF WholeProfile
  <1>8. a \in Nat /\ b \in PlaceValue
    BY <1>4, <1>5, <1>6, <1>7 DEF Unstated, Stated, PlaceValue
  <1>9. PICK w : w = [q EXCEPT !.name = a, !.place = b]
    OBVIOUS
  <1>10. w \in WholeProfile /\ w.name = a /\ w.prefs = q.prefs /\ w.place = b /\ w.range = q.range
    BY <1>8, <1>9 DEF WholeProfile
  <1>11. UpdateProfile(q, d) = w
    BY <1>4, <1>5, <1>9 DEF UpdateProfile
  <1>12. Reads(e, w, named)
    BY <1>2, <1>3, <1>11 DEF AskUpdate
  <1>13. \A f \in ProfileParts \ named : w[f] = q[f]
    <2>1. "name" \notin named => w["name"] = q["name"]
      BY <1>3, <1>4, <1>10
    <2>2. "place" \notin named => w["place"] = q["place"]
      BY <1>3, <1>5, <1>10
    <2>3. w["prefs"] = q["prefs"] /\ w["range"] = q["range"]
      BY <1>10
    <2> QED BY <2>1, <2>2, <2>3 DEF ProfileParts
  <1> QED BY <1>2, <1>10, <1>12, <1>13, ReadsKeeps

LEMMA PreferencesKeep ==
  ASSUME ProfileInv, NEW e \in Editing, UpdateWorkPreferences(e, facts.version + 1)
  PROVE ProfileInv'
  <1>1. PICK n \in Nat : n = facts.version + 1
    BY DEF ProfileInv, ProfileTypes, WholeRow, FactRow
  <1>2. PICK q \in WholeProfile : q = MapToDomain(facts) /\ Ordered(q.range)
    BY ReadsWhole DEF ProfileInv, ProfileTypes
  <1>3. PICK w : w = [q EXCEPT !.prefs = n]
    OBVIOUS
  <1>4. w \in WholeProfile /\ w.name = q.name /\ w.place = q.place /\ w.range = q.range
    BY <1>3 DEF WholeProfile
  <1>5. \A f \in ProfileParts \ {"prefs"} : w[f] = q[f]
    BY <1>4 DEF ProfileParts
  <1>6. Reads(e, w, {"prefs"}) /\ {"prefs"} \in SUBSET ProfileParts
    BY <1>1, <1>2, <1>3 DEF UpdateWorkPreferences, ProfileParts
  <1> QED BY <1>2, <1>4, <1>5, <1>6, ReadsKeeps

LEMMA SalaryKeeps ==
  ASSUME ProfileInv, NEW e \in Editing, NEW n \in Nat, n = facts.version + 1,
         NEW min \in {Unstated, n, n + 1}, NEW max \in {Unstated, n, n + 1}, UpdateSalaryExpectations(e, min, max)
  PROVE ProfileInv'
  <1>2. PICK q \in WholeProfile : q = MapToDomain(facts) /\ Ordered(q.range)
    BY ReadsWhole DEF ProfileInv, ProfileTypes
  <1>3. min \in Stated /\ max \in Stated /\ min < max
    BY DEF UpdateSalaryExpectations, Unstated, Stated
  <1>4. PICK s \in RangeValue : s = {<<min, max>>} /\ Ordered(s)
    <2>1. {<<min, max>>} \in RangeValue
      BY <1>3 DEF RangeValue
    <2>2. min \in Nat /\ max \in Nat /\ min <= max
      BY <1>3 DEF Stated
    <2>3. ASSUME NEW x \in Nat, NEW y \in Nat, {<<min, max>>} = {<<x, y>>} PROVE x <= y
      <3>1. <<min, max>> = <<x, y>>
        BY <2>3
      <3> QED BY <2>2, <3>1
    <2> QED BY <2>1, <2>3 DEF Ordered
  <1>5. PICK w : w = [q EXCEPT !.range = s]
    OBVIOUS
  <1>6. w \in WholeProfile /\ w.name = q.name /\ w.place = q.place /\ w.prefs = q.prefs /\ w.range = s
    BY <1>5 DEF WholeProfile
  <1>7. \A f \in ProfileParts \ {"range"} : w[f] = q[f]
    BY <1>6 DEF ProfileParts
  <1>8. Reads(e, w, {"range"}) /\ {"range"} \in SUBSET ProfileParts
    BY <1>2, <1>4, <1>5 DEF UpdateSalaryExpectations, ProfileParts
  <1> QED BY <1>2, <1>4, <1>6, <1>7, <1>8, ReadsKeeps

LEMMA WriteProfileKeeps == ASSUME ProfileInv, NEW e \in Editing, WriteProfile(e) PROVE ProfileInv'
  <1>1. PICK r \in Revision : r = revision[e]
    BY RevisionKinds DEF WriteProfile, ProfileInv, ProfileTypes
  <1>2. r.profile \in WholeProfile /\ r.named \in SUBSET ProfileParts /\ r.version \in Nat /\ Ordered(r.profile.range)
    BY <1>1, RevisionKinds DEF ProfileInv, ProfileTypes
  <1>3. /\ SaveProfile(r.profile, r.named)
        /\ crossed' = (crossed \ r.named) \cup IF r.version = facts.version THEN {} ELSE ProfileParts \ r.named
        /\ revision' = [revision EXCEPT ![e] = NoRevision]
    BY <1>1 DEF WriteProfile
  <1>4. /\ WholeRow(facts') /\ facts'.version = facts.version + 1 /\ facts.version \in Nat
        /\ \A f \in ProfileParts : /\ MapToDomain(facts')[f] = r.profile[f]
                                   /\ f \in r.named => answered'[f] = r.profile[f]
                                   /\ f \notin r.named => answered'[f] = answered[f]
    BY <1>2, <1>3, SaveFits
  <1>5. /\ revision'[e] = NoRevision /\ \A d \in Editing : d # e => revision'[d] = revision[d]
        /\ revision' \in [Editing -> Revision \cup {NoRevision}]
    BY <1>3 DEF ProfileInv, ProfileTypes
  <1>6. crossed' \subseteq ProfileParts
    BY <1>3 DEF ProfileInv, ProfileTypes
  <1>7. ProfileTypes'
    <2>1. \A d \in Editing : revision'[d] \in Revision => Ordered(revision'[d].profile.range)
      BY <1>5, RevisionKinds DEF ProfileInv, ProfileTypes
    <2> QED BY <1>4, <1>5, <1>6, <2>1 DEF ProfileTypes
  <1>8. RevisionsSee'
    <2>1. ASSUME NEW d \in Editing, revision'[d] \in Revision
          PROVE revision'[d].version <= facts'.version /\ revision'[d].version # facts'.version
      <3>1. revision'[d] = revision[d] /\ revision[d].version \in Nat /\ revision[d].version <= facts.version
        BY <1>5, <2>1, RevisionKinds DEF ProfileInv, RevisionsSee
      <3> QED BY <1>4, <3>1
    <2> QED BY <2>1 DEF RevisionsSee
  <1>9. ASSUME NEW f \in ProfileParts \ crossed' PROVE MapToDomain(facts')[f] = answered'[f]
    <2>1. CASE f \in r.named
      BY <1>4, <2>1
    <2>2. CASE f \notin r.named
      <3>1. r.version = facts.version /\ f \notin crossed
        BY <1>3, <2>2
      <3>2. r.profile[f] = MapToDomain(facts)[f]
        BY <1>1, <2>2, <3>1 DEF ProfileInv, RevisionsSee
      <3>3. MapToDomain(facts)[f] = answered[f]
        BY <3>1 DEF ProfileInv
      <3> QED BY <1>4, <2>2, <3>2, <3>3
    <2> QED BY <2>1, <2>2
  <1> QED BY <1>7, <1>8, <1>9 DEF ProfileInv

LEMMA ProfileStep == ASSUME ProfileInv, ProfileNext PROVE ProfileInv'
  <1>1. PICK n \in Nat : n = facts.version + 1
    BY DEF ProfileInv, ProfileTypes, WholeRow, FactRow
  <1>2. \/ \E d \in CreateProfileDto(n) : CreateProfile(d)
        \/ \E e \in Editing : \/ \E d \in UpdateProfileDto(n) : AskUpdate(e, d)
                              \/ UpdateWorkPreferences(e, n)
                              \/ \E min, max \in {Unstated, n, n + 1} : UpdateSalaryExpectations(e, min, max)
                              \/ WriteProfile(e)
    BY <1>1 DEF ProfileNext
  <1>3. CASE \E d \in CreateProfileDto(n) : CreateProfile(d)
    BY <1>1, <1>3, CreateKeeps
  <1>4. CASE \E e \in Editing, d \in UpdateProfileDto(n) : AskUpdate(e, d)
    BY <1>1, <1>4, AskUpdateKeeps
  <1>5. CASE \E e \in Editing : UpdateWorkPreferences(e, n) \/ WriteProfile(e)
    BY <1>1, <1>5, PreferencesKeep, WriteProfileKeeps
  <1>6. CASE \E e \in Editing, min \in {Unstated, n, n + 1}, max \in {Unstated, n, n + 1} : UpdateSalaryExpectations(e, min, max)
    BY <1>1, <1>6, SalaryKeeps
  <1> QED BY <1>2, <1>3, <1>4, <1>5, <1>6

LEMMA ProfileStands == ASSUME ProfileInv, UNCHANGED profileVars PROVE ProfileInv'
  BY DEF ProfileInv, profileVars, ProfileTypes, RevisionsSee

LEMMA ProfileSound == ProfileInv => ProfileIsAsAnswered
  BY DEF ProfileInv, ProfileTypes, WholeRow, ProfileIsAsAnswered

-----------------------------------------------------------------------------
(* Bookmarks. *)

BookmarkRow == [by : Keeper, ad : Ad \cup {NoAd}, title : {1}]
Tapped == [pc : {"copy", "insert", "remove"}, by : Keeper, ad : Ad, title : {0, 1}]
Clips == {NoClip} \cup [held : {TRUE}, salary : {"absent", "typed"}]

\* A row is free, or a bookmark that says which posting it was.
BookmarkTypes ==
  /\ wall \in [Ad -> {0, 1}] /\ mark \in [Mark -> BookmarkRow \cup {NoMark}]
  /\ tap \in [Tap -> Tapped \cup {NoTap}] /\ clip \in [Keeper \X Elsewhere -> Clips]
  /\ alone \in [Keeper \X Ad -> BOOLEAN]

\* A bookmark that still has its posting's id has its posting.
MarksAreLive == \A m \in Mark : mark[m].ad # NoAd => ~ Deleted(mark[m].ad)

\* What a save copied is the title, but of a posting that was gone.
CopiesAreTitles == \A t \in Tap : tap[t].pc = "insert" /\ ~ Deleted(tap[t].ad) => tap[t].title = 1

OnIt(t, u, a) == tap[t] # NoTap /\ tap[t].by = u /\ tap[t].ad = a

\* One request at a time about a user and a posting; while it works, the wish is what it will
\* leave, and otherwise what there is.
WishesCome ==
  \A u \in Keeper, a \in Ad : <<u, a>> \notin mixedUp =>
    /\ \A s, t \in Tap : OnIt(s, u, a) /\ OnIt(t, u, a) => s = t
    /\ \A t \in Tap : OnIt(t, u, a) => (alone[<<u, a>>] <=> tap[t].pc # "remove" /\ ~ Deleted(a))
    /\ (\A t \in Tap : ~ OnIt(t, u, a)) => (Marked(u, a) <=> alone[<<u, a>>])

BookmarkInv ==
  BookmarkTypes /\ MarksAreLive /\ CopiesAreTitles /\ OneBookmarkEach /\ WishesCome

LEMMA BookmarkKinds ==
  /\ NoMark \notin BookmarkRow /\ NoMark.ad = NoAd /\ NoMark.by \notin Keeper
  /\ NoTap \notin Tapped /\ NoTap.pc = "idle"
  /\ \A r \in BookmarkRow : r.by \in Keeper /\ r.ad \in Ad \cup {NoAd} /\ r.title = 1
  /\ \A q \in Tapped : q.pc \in {"copy", "insert", "remove"} /\ q.by \in Keeper /\ q.ad \in Ad /\ q.title \in {0, 1}
  /\ \A a \in Ad : a # NoAd
  BY BookmarksAssumption DEF NoMark, BookmarkRow, NoTap, Tapped, NoKeeper

LEMMA BookmarksStart == BookmarksInit => BookmarkInv
  <1> SUFFICES ASSUME BookmarksInit PROVE BookmarkInv
    OBVIOUS
  <1> USE DEF BookmarksInit
  <1>1. BookmarkTypes
    BY DEF BookmarkTypes, Clips
  <1>2. MarksAreLive /\ CopiesAreTitles /\ OneBookmarkEach
    BY BookmarkKinds DEF MarksAreLive, CopiesAreTitles, OneBookmarkEach
  <1>3. WishesCome
    BY BookmarkKinds DEF WishesCome, OnIt, Marked
  <1> QED BY <1>1, <1>2, <1>3 DEF BookmarkInv

LEMMA AskBookmarkKeeps ==
  ASSUME BookmarkInv, NEW t \in Tap, NEW u \in Keeper, NEW a \in Ad, NEW what \in {"save", "remove", "toggle"},
         AskBookmark(t, u, a, what)
  PROVE BookmarkInv'
  <1> USE DEF BookmarkInv
  <1>1. PICK does \in {"save", "remove"} :
          does = (IF what # "toggle" THEN what ELSE IF Marked(u, a) THEN "remove" ELSE "save")
    OBVIOUS
  <1> DEFINE q == [pc |-> IF does = "save" THEN "copy" ELSE "remove", by |-> u, ad |-> a, title |-> 0]
  <1>2. tap' = [tap EXCEPT ![t] = q] /\ tap[t] = NoTap /\ UNCHANGED <<wall, mark, clip>>
    BY <1>1 DEF AskBookmark
  <1>3. /\ q \in Tapped /\ q.by = u /\ q.ad = a /\ q.pc # "insert" /\ (q.pc # "remove" <=> does = "save")
        /\ q # NoTap
    BY BookmarkKinds DEF Tapped
  <1> HIDE DEF q
  <1>4. /\ mixedUp \subseteq mixedUp' /\ (<<u, a>> \in mixedUp' \/ \A s \in Tap : ~ OnIt(s, u, a))
    BY DEF AskBookmark, OnIt
  <1>5. alone' = [alone EXCEPT ![<<u, a>>] = CASE what = "save" -> ~ Deleted(a) [] what = "remove" -> FALSE
                                             [] OTHER -> ~ @ /\ ~ Deleted(a)]
    BY DEF AskBookmark
  <1>5a. PICK new \in BOOLEAN : /\ alone' = [alone EXCEPT ![<<u, a>>] = new]
                                /\ what = "save" => (new <=> ~ Deleted(a))
                                /\ what = "remove" => ~ new
                                /\ what = "toggle" => (new <=> ~ alone[<<u, a>>] /\ ~ Deleted(a))
    <2>1. CASE what = "save"
      BY <1>5, <2>1
    <2>2. CASE what = "remove"
      BY <1>5, <2>2
    <2>3. CASE what = "toggle"
      BY <1>5, <2>3 DEF BookmarkTypes
    <2> QED BY <2>1, <2>2, <2>3
  <1>6. alone'[<<u, a>>] = new /\ \A v \in Keeper, b \in Ad : <<v, b>> # <<u, a>> => alone'[<<v, b>>] = alone[<<v, b>>]
    BY <1>5a DEF BookmarkTypes
  <1>7. tap'[t] = q /\ \A s \in Tap : s # t => tap'[s] = tap[s]
    BY <1>2 DEF BookmarkTypes
  <1>8. BookmarkTypes'
    BY <1>2, <1>3, <1>5a DEF BookmarkTypes
  <1>9. MarksAreLive' /\ CopiesAreTitles' /\ OneBookmarkEach'
    BY <1>2, <1>3, <1>7 DEF MarksAreLive, CopiesAreTitles, OneBookmarkEach, Deleted
  <1>10. \A v \in Keeper, b \in Ad : (Marked(v, b)' <=> Marked(v, b)) /\ (Deleted(b)' <=> Deleted(b))
    BY <1>2 DEF Marked, Deleted
  <1>11. WishesCome'
    <2> SUFFICES ASSUME NEW v \in Keeper, NEW b \in Ad, <<v, b>> \notin mixedUp'
                 PROVE /\ \A r, s \in Tap : OnIt(r, v, b)' /\ OnIt(s, v, b)' => r = s
                       /\ \A s \in Tap : OnIt(s, v, b)' => (alone'[<<v, b>>] <=> tap'[s].pc # "remove" /\ ~ Deleted(b))
                       /\ (\A s \in Tap : ~ OnIt(s, v, b)') => (Marked(v, b) <=> alone'[<<v, b>>])
      BY <1>10 DEF WishesCome
    <2>1. CASE v = u /\ b = a
      <3>1. \A s \in Tap : ~ OnIt(s, v, b)
        BY <1>4, <2>1
      <3>2. \A s \in Tap : OnIt(s, v, b)' <=> s = t
        BY <1>3, <1>7, <2>1, <3>1 DEF OnIt
      <3>3. Marked(u, a) <=> alone[<<u, a>>]
        BY <1>4, <2>1, <3>1 DEF WishesCome
      <3>4. Marked(u, a) => ~ Deleted(a)
        BY BookmarkKinds DEF Marked, MarksAreLive
      <3>5. new <=> does = "save" /\ ~ Deleted(a)
        BY <1>1, <1>5a, <3>3, <3>4
      <3> QED BY <1>3, <1>6, <1>7, <2>1, <3>2, <3>5
    <2>2. CASE ~ (v = u /\ b = a)
      <3>1. \A s \in Tap : OnIt(s, v, b)' <=> OnIt(s, v, b)
        BY <1>2, <1>3, <1>7, <2>2 DEF OnIt
      <3>2. \A s \in Tap : OnIt(s, v, b)' => tap'[s] = tap[s]
        BY <1>3, <1>7, <2>2 DEF OnIt
      <3>3. <<v, b>> # <<u, a>> /\ <<v, b>> \notin mixedUp
        BY <1>4, <2>2
      <3>4. alone'[<<v, b>>] = alone[<<v, b>>]
        BY <1>6, <3>3
      <3>5. /\ \A r, s \in Tap : OnIt(r, v, b) /\ OnIt(s, v, b) => r = s
            /\ \A s \in Tap : OnIt(s, v, b) => (alone[<<v, b>>] <=> tap[s].pc # "remove" /\ ~ Deleted(b))
            /\ (\A s \in Tap : ~ OnIt(s, v, b)) => (Marked(v, b) <=> alone[<<v, b>>])
        BY <3>3 DEF WishesCome
      <3>6. \A s \in Tap : OnIt(s, v, b)' => (alone'[<<v, b>>] <=> tap'[s].pc # "remove" /\ ~ Deleted(b))
        BY <3>1, <3>2, <3>4, <3>5
      <3> QED BY <3>1, <3>4, <3>5, <3>6
    <2> QED BY <2>1, <2>2
  <1> QED BY <1>8, <1>9, <1>11

LEMMA CopyPostingKeeps == ASSUME BookmarkInv, NEW t \in Tap, CopyPosting(t) PROVE BookmarkInv'
  <1> USE DEF BookmarkInv, CopyPosting
  <1>0. tap[t] \in Tapped /\ tap[t].ad \in Ad /\ wall[tap[t].ad] \in {0, 1}
    BY BookmarkKinds DEF BookmarkTypes
  <1> DEFINE q == [tap[t] EXCEPT !.pc = "insert", !.title = wall[tap[t].ad]]
  <1>1. /\ q \in Tapped /\ q.pc = "insert" /\ q.by = tap[t].by /\ q.ad = tap[t].ad /\ q.title = wall[tap[t].ad]
        /\ q # NoTap
    BY <1>0, BookmarkKinds DEF Tapped
  <1>2. tap' = [tap EXCEPT ![t] = q] /\ UNCHANGED <<wall, mark, clip, alone, mixedUp>>
    BY <1>0 DEF Tapped
  <1> HIDE DEF q
  <1>3. tap'[t] = q /\ tap[t].pc = "copy" /\ \A s \in Tap : s # t => tap'[s] = tap[s]
    BY <1>2 DEF BookmarkTypes
  <1>4. BookmarkTypes'
    BY <1>1, <1>2 DEF BookmarkTypes
  <1>5. MarksAreLive' /\ OneBookmarkEach'
    BY <1>2 DEF MarksAreLive, OneBookmarkEach, Deleted
  <1>6. CopiesAreTitles'
    BY <1>0, <1>1, <1>2, <1>3 DEF CopiesAreTitles, Deleted
  <1>7. /\ \A s \in Tap, u \in Keeper, a \in Ad : OnIt(s, u, a)' <=> OnIt(s, u, a)
        /\ \A s \in Tap : tap'[s].pc # "remove" <=> tap[s].pc # "remove"
    BY <1>0, <1>1, <1>3, BookmarkKinds DEF OnIt
  <1>7a. \A u \in Keeper, a \in Ad : (Marked(u, a)' <=> Marked(u, a)) /\ (Deleted(a)' <=> Deleted(a))
    BY <1>2 DEF Marked, Deleted
  <1>8. WishesCome'
    <2> SUFFICES ASSUME NEW u \in Keeper, NEW a \in Ad, <<u, a>> \notin mixedUp
                 PROVE /\ \A r, s \in Tap : OnIt(r, u, a)' /\ OnIt(s, u, a)' => r = s
                       /\ \A s \in Tap : OnIt(s, u, a)' => (alone'[<<u, a>>] <=> tap'[s].pc # "remove" /\ ~ Deleted(a)')
                       /\ (\A s \in Tap : ~ OnIt(s, u, a)') => (Marked(u, a)' <=> alone'[<<u, a>>])
      BY <1>2 DEF WishesCome
    <2>1. /\ \A r, s \in Tap : OnIt(r, u, a) /\ OnIt(s, u, a) => r = s
          /\ \A s \in Tap : OnIt(s, u, a) => (alone[<<u, a>>] <=> tap[s].pc # "remove" /\ ~ Deleted(a))
          /\ (\A s \in Tap : ~ OnIt(s, u, a)) => (Marked(u, a) <=> alone[<<u, a>>])
      BY DEF WishesCome
    <2> QED BY <1>2, <1>7, <1>7a, <2>1
  <1> QED BY <1>4, <1>5, <1>6, <1>8

\* A request ends and leaves what its user wished for.
LEMMA DoneKeeps ==
  ASSUME BookmarkInv, NEW t \in Tap, tap[t] \in Tapped, DropTap(t), UNCHANGED <<wall, clip, alone, mixedUp>>,
         BookmarkTypes', MarksAreLive', OneBookmarkEach',
         NEW v \in Keeper, NEW b \in Ad, tap[t].by = v, tap[t].ad = b,
         \A u \in Keeper, a \in Ad : ~ (u = v /\ a = b) => (Marked(u, a)' <=> Marked(u, a)),
         Marked(v, b)' <=> tap[t].pc # "remove" /\ ~ Deleted(b)
  PROVE BookmarkInv'
  <1> USE DEF BookmarkInv
  <1>0. tap \in [Tap -> Tapped \cup {NoTap}] /\ tap' = [tap EXCEPT ![t] = NoTap]
    BY DEF DropTap, BookmarkTypes
  <1>1. tap'[t] = NoTap /\ (\A s \in Tap : s # t => tap'[s] = tap[s]) /\ NoTap.pc = "idle" /\ tap[t] # NoTap
    BY <1>0, BookmarkKinds
  <1>2. CopiesAreTitles'
    BY <1>1 DEF CopiesAreTitles, Deleted
  <1>3. \A s \in Tap, u \in Keeper, a \in Ad : OnIt(s, u, a)' <=> s # t /\ OnIt(s, u, a)
    BY <1>1 DEF OnIt
  <1>4. WishesCome'
    <2> SUFFICES ASSUME NEW u \in Keeper, NEW a \in Ad, <<u, a>> \notin mixedUp
                 PROVE /\ \A r, s \in Tap : OnIt(r, u, a)' /\ OnIt(s, u, a)' => r = s
                       /\ \A s \in Tap : OnIt(s, u, a)' => (alone[<<u, a>>] <=> tap'[s].pc # "remove" /\ ~ Deleted(a))
                       /\ (\A s \in Tap : ~ OnIt(s, u, a)') => (Marked(u, a)' <=> alone[<<u, a>>])
      BY DEF WishesCome, Deleted
    <2>1. CASE OnIt(t, u, a)
      <3>1. \A s \in Tap : ~ OnIt(s, u, a)'
        BY <1>3, <2>1 DEF WishesCome
      <3>2. Marked(u, a)' <=> alone[<<u, a>>]
        <4>1. u = v /\ a = b
          BY <2>1 DEF OnIt
        <4>2. alone[<<u, a>>] <=> tap[t].pc # "remove" /\ ~ Deleted(a)
          BY <2>1 DEF WishesCome
        <4> QED BY <4>1, <4>2
      <3> QED BY <3>1, <3>2
    <2>2. CASE ~ OnIt(t, u, a)
      <3>1. ~ (u = v /\ a = b)
        BY <1>1, <2>2 DEF OnIt
      <3>2. \A s \in Tap : OnIt(s, u, a)' <=> OnIt(s, u, a)
        BY <1>3, <2>2
      <3>3. \A s \in Tap : OnIt(s, u, a)' => tap'[s] = tap[s]
        BY <1>1, <1>3
      <3> QED BY <3>1, <3>2, <3>3 DEF WishesCome
    <2> QED BY <2>1, <2>2
  <1> QED BY <1>2, <1>4

LEMMA SaveBookmarkKeeps == ASSUME BookmarkInv, NEW t \in Tap, SaveBookmark(t) PROVE BookmarkInv'
  <1> USE DEF BookmarkInv, SaveBookmark
  <1>0. tap[t] \in Tapped /\ tap[t].by \in Keeper /\ tap[t].ad \in Ad /\ tap[t].pc = "insert" /\ tap[t].pc # "remove"
    BY BookmarkKinds DEF BookmarkTypes
  <1>v. PICK v \in Keeper : v = tap[t].by
    BY <1>0
  <1>b. PICK b \in Ad : b = tap[t].ad
    BY <1>0
  <1>1. DropTap(t) /\ UNCHANGED <<wall, clip, alone, mixedUp>> /\ tap' \in [Tap -> Tapped \cup {NoTap}]
    BY DEF DropTap, BookmarkTypes
  <1>2. CASE (IndexRefuses(t) \/ Deleted(tap[t].ad)) /\ mark' = mark
    <2>1. BookmarkTypes' /\ MarksAreLive' /\ OneBookmarkEach'
      BY <1>1, <1>2 DEF BookmarkTypes, MarksAreLive, OneBookmarkEach, Deleted
    <2>2. \A u \in Keeper, a \in Ad : Marked(u, a)' <=> Marked(u, a)
      BY <1>2 DEF Marked
    <2>4. Marked(v, b) <=> ~ Deleted(b)
      BY <1>2, <1>v, <1>b, BookmarkKinds DEF IndexRefuses, Marked, MarksAreLive
    <2> QED BY <1>0, <1>v, <1>b, <1>1, <2>1, <2>2, <2>4, DoneKeeps
  <1>3. CASE ~ (IndexRefuses(t) \/ Deleted(tap[t].ad))
    <2>1. PICK m \in Mark : mark[m] = NoMark /\ mark' = InsertBookmark(t, m)
      BY <1>3
    <2>r. PICK r \in BookmarkRow : r = [by |-> tap[t].by, ad |-> tap[t].ad, title |-> tap[t].title]
      BY <1>0, <1>3 DEF BookmarkRow, CopiesAreTitles
    <2>2. mark' = [mark EXCEPT ![m] = r] /\ r.by = tap[t].by /\ r.ad = tap[t].ad
      BY <2>1, <2>r DEF InsertBookmark
    <2>3. mark'[m] = r /\ \A n \in Mark : n # m => mark'[n] = mark[n]
      BY <2>2 DEF BookmarkTypes
    <2>4. BookmarkTypes'
      BY <1>1, <2>2 DEF BookmarkTypes
    <2>5. MarksAreLive'
      BY <1>1, <1>3, <2>2, <2>3 DEF MarksAreLive, Deleted
    <2>6. \A n \in Mark : mark[n].by = r.by => mark[n].ad # r.ad
      BY <1>3, <2>2 DEF IndexRefuses, Marked
    <2>7. OneBookmarkEach'
      BY <2>3, <2>6 DEF OneBookmarkEach
    <2>8. \A u \in Keeper, a \in Ad : Marked(u, a)' <=> Marked(u, a) \/ (r.by = u /\ r.ad = a)
      BY <2>1, <2>3, BookmarkKinds DEF Marked
    <2>9. \A u \in Keeper, a \in Ad : ~ (u = v /\ a = b) => (Marked(u, a)' <=> Marked(u, a))
      BY <1>v, <1>b, <2>2, <2>8
    <2>10. Marked(v, b)' <=> tap[t].pc # "remove" /\ ~ Deleted(b)
      BY <1>0, <1>v, <1>b, <1>3, <2>2, <2>8
    <2> QED BY <1>0, <1>v, <1>b, <1>1, <2>4, <2>5, <2>7, <2>9, <2>10, DoneKeeps
  <1> QED BY <1>2, <1>3

LEMMA DeleteBookmarkKeeps == ASSUME BookmarkInv, NEW t \in Tap, DeleteBookmark(t) PROVE BookmarkInv'
  <1> USE DEF BookmarkInv, DeleteBookmark
  <1>0. tap[t] \in Tapped /\ tap[t].by \in Keeper /\ tap[t].ad \in Ad /\ tap[t].pc = "remove"
    BY BookmarkKinds DEF BookmarkTypes
  <1>1. DropTap(t) /\ UNCHANGED <<wall, clip, alone, mixedUp>> /\ tap' \in [Tap -> Tapped \cup {NoTap}]
    BY DEF DropTap, BookmarkTypes
  <1>2. \A m \in Mark : mark'[m] = IF mark[m].by = tap[t].by /\ mark[m].ad = tap[t].ad THEN NoMark ELSE mark[m]
    BY DEF RemoveBookmark
  <1>3. BookmarkTypes'
    BY <1>1 DEF BookmarkTypes, RemoveBookmark
  <1>4. MarksAreLive' /\ OneBookmarkEach'
    BY <1>1, <1>2, BookmarkKinds DEF MarksAreLive, OneBookmarkEach, Deleted
  <1>5. \A u \in Keeper, a \in Ad : Marked(u, a)' <=> Marked(u, a) /\ ~ (tap[t].by = u /\ tap[t].ad = a)
    BY <1>2, BookmarkKinds DEF Marked
  <1>b. PICK b \in Keeper : b = tap[t].by
    BY <1>0
  <1>a. PICK a \in Ad : a = tap[t].ad
    BY <1>0
  <1>6. ~ Marked(b, a)'
    BY <1>5, <1>a, <1>b
  <1>7. \A u \in Keeper, c \in Ad : ~ (u = b /\ c = a) => (Marked(u, c)' <=> Marked(u, c))
    BY <1>5, <1>a, <1>b
  <1> QED BY <1>0, <1>1, <1>3, <1>4, <1>6, <1>7, <1>a, <1>b, DoneKeeps

LEMMA DropPostingKeeps == ASSUME BookmarkInv, NEW x \in Ad, DropPosting(x) PROVE BookmarkInv'
  <1> USE DEF BookmarkInv, DropPosting
  <1>1. /\ wall' = [wall EXCEPT ![x] = 0] /\ UNCHANGED <<clip, tap, mixedUp>>
        /\ \A a \in Ad : Deleted(a)' <=> a = x \/ Deleted(a)
    BY DEF Deleted, BookmarkTypes
  <1>2. \A m \in Mark : mark'[m] = IF mark[m].ad = x THEN [mark[m] EXCEPT !.ad = NoAd] ELSE mark[m]
    OBVIOUS
  <1>3. \A m \in Mark : mark'[m] \in BookmarkRow \cup {NoMark}
    BY <1>2, BookmarkKinds DEF BookmarkTypes, BookmarkRow
  <1>3a. mark' \in [Mark -> BookmarkRow \cup {NoMark}]
    BY <1>3
  <1>4. \A m \in Mark : mark'[m].ad = (IF mark[m].ad = x THEN NoAd ELSE mark[m].ad) /\ mark'[m].by = mark[m].by
    BY <1>2, BookmarkKinds DEF BookmarkTypes, BookmarkRow
  <1>5. \A u \in Keeper, a \in Ad : alone'[<<u, a>>] = IF a = x THEN FALSE ELSE alone[<<u, a>>]
    OBVIOUS
  <1>5a. alone' \in [Keeper \X Ad -> BOOLEAN]
    BY DEF BookmarkTypes
  <1>6. BookmarkTypes'
    BY <1>1, <1>3a, <1>5a DEF BookmarkTypes
  <1>7. MarksAreLive' /\ OneBookmarkEach'
    BY <1>1, <1>3, <1>4, BookmarkKinds DEF MarksAreLive, OneBookmarkEach, BookmarkTypes
  <1>8. CopiesAreTitles'
    BY <1>1, BookmarkKinds DEF CopiesAreTitles, BookmarkTypes
  <1>9. \A u \in Keeper, a \in Ad : Marked(u, a)' <=> a # x /\ Marked(u, a)
    BY <1>4, BookmarkKinds DEF Marked
  <1>10. \A s \in Tap, u \in Keeper, a \in Ad : OnIt(s, u, a)' <=> OnIt(s, u, a)
    BY <1>1 DEF OnIt
  <1>11. WishesCome'
    BY <1>1, <1>5, <1>9, <1>10 DEF WishesCome
  <1> QED BY <1>6, <1>7, <1>8, <1>11

LEMMA ElsewhereKeeps ==
  ASSUME BookmarkInv, NEW u \in Keeper, NEW x \in Elsewhere,
         RemoveElsewhere(u, x) \/ \E s \in {"blank", "typed"} : SaveElsewhere(u, x, s)
  PROVE BookmarkInv'
  <1> USE DEF BookmarkInv
  <1>1. UNCHANGED <<wall, mark, tap, alone, mixedUp>>
    BY DEF RemoveElsewhere, SaveElsewhere
  <1>2. clip' \in [Keeper \X Elsewhere -> Clips]
    <2>0. clip \in [Keeper \X Elsewhere -> Clips] /\ NoClip \in Clips
      BY DEF BookmarkTypes, Clips
    <2>1. CASE RemoveElsewhere(u, x)
      BY <2>0, <2>1 DEF RemoveElsewhere
    <2>2. CASE \E s \in {"blank", "typed"} : SaveElsewhere(u, x, s)
      <3>1. PICK s \in {"blank", "typed"} : SaveElsewhere(u, x, s)
        BY <2>2
      <3>2. [held |-> TRUE, salary |-> Clean(s)] \in Clips
        BY DEF Clips, Clean
      <3> QED BY <2>0, <3>1, <3>2 DEF SaveElsewhere
    <2> QED BY <2>1, <2>2
  <1>3. BookmarkTypes' /\ MarksAreLive' /\ CopiesAreTitles' /\ OneBookmarkEach' /\ WishesCome'
    BY <1>1, <1>2 DEF BookmarkTypes, MarksAreLive, CopiesAreTitles, OneBookmarkEach, WishesCome, Deleted, OnIt, Marked
  <1> QED BY <1>3

LEMMA BookmarksStep == ASSUME BookmarkInv, BookmarksNext PROVE BookmarkInv'
  BY AskBookmarkKeeps, CopyPostingKeeps, SaveBookmarkKeeps, DeleteBookmarkKeeps, DropPostingKeeps, ElsewhereKeeps
  DEF BookmarksNext

LEMMA BookmarksStand == ASSUME BookmarkInv, UNCHANGED bookmarkVars PROVE BookmarkInv'
  BY DEF BookmarkInv, bookmarkVars, BookmarkTypes, MarksAreLive, CopiesAreTitles, OneBookmarkEach, WishesCome, Deleted,
         OnIt, Marked

LEMMA BookmarksSound == BookmarkInv => BookmarksHold
  <1> SUFFICES ASSUME BookmarkInv PROVE BookmarksHold
    OBVIOUS
  <1> USE DEF BookmarkInv
  <1>1. BookmarksOutliveThePosting
    BY BookmarkKinds DEF BookmarksOutliveThePosting, BookmarkTypes, MarksAreLive, Orphans, FindJobIds
  <1>2. ASSUME NEW u \in Keeper, NEW a \in Ad, <<u, a>> \notin mixedUp,
               \A t \in Tap : tap[t] # NoTap => <<tap[t].by, tap[t].ad>> # <<u, a>>
        PROVE (a \in FindJobIds(u)) = alone[<<u, a>>]
    <2>0. \A t \in Tap : ~ OnIt(t, u, a)
      BY <1>2 DEF OnIt
    <2>1. Marked(u, a) <=> alone[<<u, a>>]
      BY <1>2, <2>0 DEF WishesCome
    <2>2. a \in FindJobIds(u) <=> Marked(u, a)
      BY BookmarkKinds DEF FindJobIds, Marked
    <2>3. alone[<<u, a>>] = TRUE \/ alone[<<u, a>>] = FALSE
      BY DEF BookmarkTypes
    <2>4. CASE alone[<<u, a>>] = TRUE
      BY <2>1, <2>2, <2>4
    <2>5. CASE alone[<<u, a>>] = FALSE
      <3>1. ~ (a \in FindJobIds(u))
        BY <2>1, <2>2, <2>5
      <3>2. (a \in FindJobIds(u)) = FALSE
        BY <3>1
      <3> QED BY <2>5, <3>2
    <2> QED BY <2>3, <2>4, <2>5
  <1>2a. BookmarksAreTheUsers
    BY <1>2 DEF BookmarksAreTheUsers
  <1>3. NothingBlankIsKept
    <2>1. \A k \in Keeper \X Elsewhere : clip[k] \in Clips
      BY DEF BookmarkTypes
    <2>2. ASSUME NEW c \in Clips, c.held PROVE c.salary # "blank"
      <3>1. c # NoClip
        BY <2>2 DEF NoClip
      <3> QED BY <3>1 DEF Clips
    <2> QED BY <2>1, <2>2 DEF NothingBlankIsKept
  <1> QED BY <1>1, <1>2a, <1>3 DEF BookmarksHold

-----------------------------------------------------------------------------
(* What administrators do. *)

\* A call that suppresses an address, and one that changes an account.
SuppressionTask ==
  [pc : {"write", "audit"}, what : {"suppress"}, by : Administrator, on : {NoAdmin}, box : Addresses]
AccountTask ==
  [pc : {"write", "audit"}, what : AdminStatus \cup {"delete"}, by : Administrator, on : Administrator, box : {<<>>}]
Mail ==
  [pc : {"gate", "transmit", "skipped", "refused", "sent", "failed"}, box : Mailbox, writing : Writing, barred : BOOLEAN]

AdminTypes ==
  /\ suppression \in [Addresses -> {Unlisted} \cup SuppressedEmail] /\ trail \in Seq(AuditLog)
  /\ notices \in [Notice -> SystemEvent]
  /\ member \in [Administrator -> [status : AdminStatus, deleted : BOOLEAN]]
  /\ task \in [Task -> {NoTask} \cup SuppressionTask \cup AccountTask]
  /\ mailing \in [Mailing -> {NoMail} \cup Mail]

\* A mail past its gate is not barred, and one at its gate that is will be found to be.
GatesHold ==
  \A m \in Mailing :
    /\ mailing[m].pc \in {"transmit", "sent"} => ~ mailing[m].barred
    /\ mailing[m].pc = "gate" /\ mailing[m].barred => Suppressed(mailing[m].box, mailing[m].writing)

Working(t, a) == task[t] # NoTask /\ task[t].on = a

\* What is about to be audited has happened, and so has what was.
TasksDone ==
  \A t \in Task : task[t].pc = "audit" =>
    /\ task[t].what = "suppress" => suppression[task[t].box] # Unlisted
    /\ task[t].what = "delete" => member[task[t].on].deleted
RowsDone ==
  \A i \in 1..Len(trail) :
    /\ trail[i].actionType = "EMAIL_SUPPRESSED" =>
         trail[i].resourceId \in Addresses /\ suppression[trail[i].resourceId] # Unlisted
    /\ trail[i].actionType = "USER_ACCOUNT_DELETED" =>
         trail[i].resourceId \in Administrator /\ member[trail[i].resourceId].deleted

\* On an account that is not tangled one call works at a time, and not one that sets the status of
\* a deleted account.
OneAtATime ==
  \A a \in Administrator \ tangled :
    /\ \A t, u \in Task : Working(t, a) /\ Working(u, a) => t = u
    /\ \A t \in Task : Working(t, a) /\ member[a].deleted => task[t].what = "delete"
    /\ member[a].deleted => member[a].status = "DEACTIVATED"

\* What an audit row says of an account, and what a call will say.
Says(r, a) ==
  IF r.actionType = "USER_ACCOUNT_DELETED" THEN member[a].status = "DEACTIVATED"
  ELSE r.actionType = StatusAuditAction[member[a].status]
About(i, a) == trail[i].resourceType = "USER" /\ trail[i].resourceId = a
LastSaid ==
  \A a \in Administrator \ tangled :
    /\ \A t \in Task : Working(t, a) /\ task[t].pc = "audit" => Says(AuditRow(task[t]), a)
    /\ \A i \in 1..Len(trail) : About(i, a) =>
         \E j \in 1..Len(trail) :
           /\ About(j, a) /\ \A k \in 1..Len(trail) : About(k, a) => k <= j
           /\ (\A t \in Task : Working(t, a) => task[t].pc = "write") => Says(trail[j], a)

AdminInv ==
  /\ AdminTypes /\ GatesHold /\ FirstSuppressionStands /\ TasksDone /\ RowsDone /\ OneAtATime /\ LastSaid
  /\ PageSeesTheAlarm

LEMMA AdminStart == AdminInit => AdminInv
  <1> SUFFICES ASSUME AdminInit PROVE AdminInv
    OBVIOUS
  <1> USE DEF AdminInit
  <1>1. AdminTypes
    BY DEF AdminTypes, SystemEvent, AdminStatus
  <1>2. GatesHold /\ FirstSuppressionStands /\ TasksDone /\ RowsDone /\ LastSaid /\ PageSeesTheAlarm
    BY DEF GatesHold, FirstSuppressionStands, TasksDone, RowsDone, LastSaid, PageSeesTheAlarm, NoMail, NoTask, NoPage, Working
  <1>3. OneAtATime
    BY DEF OneAtATime, Working
  <1> QED BY <1>1, <1>2, <1>3 DEF AdminInv

\* A step that touches neither the rows of users, the calls nor the trail.
LEMMA MailKeeps ==
  ASSUME AdminInv, AdminTypes', GatesHold', UNCHANGED <<suppression, member, task, trail, notices, page, tangled, firsts>>
  PROVE AdminInv'
  <1>1. FirstSuppressionStands' /\ TasksDone' /\ RowsDone' /\ OneAtATime' /\ PageSeesTheAlarm'
    BY DEF AdminInv, FirstSuppressionStands, TasksDone, RowsDone, OneAtATime, PageSeesTheAlarm, Working
  <1>2. LastSaid'
    BY DEF AdminInv, LastSaid, Working, About, Says, AuditRow
  <1> QED BY <1>1, <1>2 DEF AdminInv

\* What one mailbox is suppressed by, it is suppressed by however it is written.
LEMMA OneWriting == \A b, v, w : Suppressed(b, v) = Suppressed(b, w)
  BY DEF Suppressed, NormaliseEmail

LEMMA MailsKeep ==
  ASSUME AdminInv, NEW m \in Mailing,
         (\E b \in Mailbox, w \in Writing : CallSend(m, b, w)) \/ PassGate(m) \/ SendMail(m)
  PROVE AdminInv'
  <1> USE DEF AdminInv
  <1>0. mailing[m] \in {NoMail} \cup Mail /\ NoMail.pc = "none" /\ NoMail \notin Mail
    BY DEF AdminTypes, NoMail, Mail
  <1>1. CASE \E b \in Mailbox, w \in Writing : CallSend(m, b, w)
    <2>1. PICK b \in Mailbox, w \in Writing : CallSend(m, b, w)
      BY <1>1
    <2> DEFINE r == [pc |-> "gate", box |-> b, writing |-> w, barred |-> \E x \in Writing : Suppressed(b, x)]
    <2>2. r \in Mail
      BY DEF Mail
    <2>3. mailing' = [mailing EXCEPT ![m] = r] /\ UNCHANGED <<suppression, member, task, trail, notices, page, tangled, firsts>>
      BY <2>1 DEF CallSend
    <2>4. AdminTypes'
      BY <2>2, <2>3 DEF AdminTypes
    <2>5. r.pc = "gate" /\ r.box = b /\ r.writing = w /\ (r.barred => Suppressed(b, w))
      BY OneWriting
    <2> HIDE DEF r
    <2>6. GatesHold'
      BY <2>2, <2>3, <2>5 DEF GatesHold, AdminTypes, Suppressed
    <2> QED BY <2>3, <2>4, <2>6, MailKeeps
  <1>2. CASE PassGate(m)
    <2>1. PICK verdict \in AssertSendable(m) : mailing' = [mailing EXCEPT ![m].pc = verdict]
      BY <1>2 DEF PassGate
    <2>2. mailing[m] \in Mail /\ mailing[m].pc = "gate"
      BY <1>0, <1>2 DEF PassGate
    <2>3. verdict \in {"refused", "skipped", "transmit"} /\ (verdict = "transmit" => ~ mailing[m].barred)
      BY <2>2 DEF AssertSendable, GatesHold
    <2>4. AdminTypes'
      BY <1>2, <2>1, <2>2, <2>3 DEF PassGate, AdminTypes, Mail
    <2>5. GatesHold'
      BY <1>2, <2>1, <2>2, <2>3 DEF PassGate, AdminTypes, Mail, GatesHold, Suppressed
    <2> QED BY <1>2, <2>4, <2>5, MailKeeps DEF PassGate
  <1>3. CASE SendMail(m)
    <2>1. PICK outcome \in {"sent", "failed"} : mailing' = [mailing EXCEPT ![m].pc = outcome]
      BY <1>3 DEF SendMail
    <2>2. mailing[m] \in Mail /\ mailing[m].pc = "transmit"
      BY <1>0, <1>3 DEF SendMail
    <2>3. AdminTypes'
      BY <1>3, <2>1, <2>2 DEF SendMail, AdminTypes, Mail
    <2>4. GatesHold'
      BY <1>3, <2>1, <2>2 DEF SendMail, AdminTypes, Mail, GatesHold, Suppressed
    <2> QED BY <1>3, <2>3, <2>4, MailKeeps DEF SendMail
  <1> QED BY <1>1, <1>2, <1>3

\* What a step that writes no account needs to leave the audits true.
TaskBegun(t, r) == task[t] = NoTask /\ task' = [task EXCEPT ![t] = r]

LEMMA TaskKinds ==
  /\ NoTask.pc = "idle" /\ NoTask \notin SuppressionTask \cup AccountTask
  /\ \A r \in SuppressionTask : r.what = "suppress" /\ r.on = NoAdmin /\ r.box \in Addresses /\ r.on \notin Administrator
                                  /\ r.pc \in {"write", "audit"} /\ r.by \in Administrator
  /\ \A r \in AccountTask : r.what \in AdminStatus \cup {"delete"} /\ r.what # "suppress" /\ r.on \in Administrator
                              /\ r.pc \in {"write", "audit"} /\ r.by \in Administrator
  BY AdministrationAssumption DEF NoTask, SuppressionTask, AccountTask, AdminStatus

LEMMA BeginKeeps ==
  ASSUME AdminInv, NEW t \in Task, NEW r \in SuppressionTask \cup AccountTask, r.pc = "write", TaskBegun(t, r),
         r \in AccountTask => (r.what # "delete" => ~ member[r.on].deleted),
         tangled' = IF Overlapped(r) /\ r \in AccountTask THEN tangled \cup {r.on} ELSE tangled,
         UNCHANGED <<suppression, mailing, member, trail, notices, page, firsts>>
  PROVE AdminInv'
  <1> USE DEF AdminInv, TaskBegun
  <1>0. task'[t] = r /\ \A u \in Task : u # t => task'[u] = task[u]
    BY DEF AdminTypes
  <1>1. AdminTypes' /\ FirstSuppressionStands' /\ PageSeesTheAlarm'
    BY DEF AdminTypes, FirstSuppressionStands, PageSeesTheAlarm
  <1>2. GatesHold' /\ RowsDone'
    BY DEF GatesHold, RowsDone, Suppressed
  <1>3. TasksDone'
    BY <1>0 DEF TasksDone
  <1>4. tangled \subseteq tangled' /\ \A u \in Task, a \in Administrator : Working(u, a)' => Working(u, a) \/ (u = t /\ r.on = a)
    BY <1>0 DEF Working
  <1>5. \A a \in Administrator \ tangled' : r.on = a => \A u \in Task : ~ Working(u, a)
    BY TaskKinds DEF Overlapped, Working
  <1>6. OneAtATime'
    <2> SUFFICES ASSUME NEW a \in Administrator \ tangled'
                 PROVE /\ \A e, u \in Task : Working(e, a)' /\ Working(u, a)' => e = u
                       /\ \A e \in Task : Working(e, a)' /\ member'[a].deleted => task'[e].what = "delete"
                       /\ member'[a].deleted => member'[a].status = "DEACTIVATED"
      BY DEF OneAtATime
    <2>1. a \in Administrator \ tangled /\ member' = member
      BY <1>4
    <2>2. \A e, u \in Task : Working(e, a)' /\ Working(u, a)' => e = u
      BY <1>4, <1>5, <2>1 DEF OneAtATime
    <2>3. \A e \in Task : Working(e, a)' /\ member'[a].deleted => task'[e].what = "delete"
      <3> SUFFICES ASSUME NEW e \in Task, Working(e, a)', member'[a].deleted PROVE task'[e].what = "delete"
        OBVIOUS
      <3>1. CASE e = t
        BY <3>1, <1>0, <2>1, TaskKinds DEF Working
      <3>2. CASE e # t
        BY <3>2, <1>0, <2>1 DEF Working, OneAtATime
      <3> QED BY <3>1, <3>2
    <2> QED BY <2>1, <2>2, <2>3 DEF OneAtATime
  <1>7. LastSaid'
    <2> SUFFICES ASSUME NEW a \in Administrator \ tangled'
                 PROVE /\ \A e \in Task : Working(e, a)' /\ task'[e].pc = "audit" => Says(AuditRow(task[e]), a)'
                       /\ \A i \in 1..Len(trail) : About(i, a) =>
                            \E j \in 1..Len(trail) :
                              /\ About(j, a) /\ \A k \in 1..Len(trail) : About(k, a) => k <= j
                              /\ (\A e \in Task : Working(e, a)' => task'[e].pc = "write") => Says(trail[j], a)
      BY DEF LastSaid, About, Says
    <2>1. a \in Administrator \ tangled
      BY <1>4
    <2>2. \A e \in Task : Working(e, a)' /\ task'[e].pc = "audit" => Says(AuditRow(task[e]), a)'
      BY <1>0, <2>1 DEF LastSaid, Says, AuditRow, Working
    <2>3. (\A e \in Task : Working(e, a)' => task'[e].pc = "write") => \A e \in Task : Working(e, a) => task[e].pc = "write"
      BY <1>0 DEF Working
    <2> QED BY <2>1, <2>2, <2>3 DEF LastSaid
  <1> QED BY <1>1, <1>2, <1>3, <1>6, <1>7

LEMMA AsksKeep ==
  ASSUME AdminInv, NEW t \in Task, NEW a \in Administrator,
         \/ \E b \in Mailbox, w \in Writing : AskSuppression(t, a, b, w)
         \/ \E b \in Administrator, s \in AdminStatus : AskStatus(t, a, b, s)
         \/ \E b \in Administrator : AskDeletion(t, a, b)
  PROVE AdminInv'
  <1>1. CASE \E b \in Mailbox, w \in Writing : AskSuppression(t, a, b, w)
    <2>1. PICK b \in Mailbox, w \in Writing : AskSuppression(t, a, b, w)
      BY <1>1
    <2> DEFINE r == [pc |-> "write", what |-> "suppress", by |-> a, on |-> NoAdmin, box |-> NormaliseEmail(b, w)]
    <2>2. r \in SuppressionTask /\ r.pc = "write"
      BY DEF SuppressionTask, Addresses
    <2>3. TaskBegun(t, r) /\ UNCHANGED <<suppression, mailing, member, trail, notices, page, tangled, firsts>>
      BY <2>1 DEF AskSuppression, BeginTask, TaskBegun
    <2>4. r \notin AccountTask
      BY <2>2, TaskKinds
    <2> QED BY <2>2, <2>3, <2>4, BeginKeeps
  <1>2. CASE \E b \in Administrator, s \in AdminStatus : AskStatus(t, a, b, s)
    <2>1. PICK b \in Administrator, s \in AdminStatus : AskStatus(t, a, b, s)
      BY <1>2
    <2> DEFINE r == [pc |-> "write", what |-> s, by |-> a, on |-> b, box |-> <<>>]
    <2>2. r \in AccountTask /\ r.pc = "write" /\ r.on = b
      BY DEF AccountTask
    <2>3. /\ TaskBegun(t, r) /\ UNCHANGED <<suppression, mailing, member, trail, notices, page, firsts>>
          /\ tangled' = (IF Overlapped(r) THEN tangled \cup {r.on} ELSE tangled) /\ ~ member[b].deleted
      BY <2>1 DEF AskStatus, BeginTask, TaskBegun
    <2> QED BY <2>2, <2>3, BeginKeeps
  <1>3. CASE \E b \in Administrator : AskDeletion(t, a, b)
    <2>1. PICK b \in Administrator : AskDeletion(t, a, b)
      BY <1>3
    <2> DEFINE r == [pc |-> "write", what |-> "delete", by |-> a, on |-> b, box |-> <<>>]
    <2>2. r \in AccountTask /\ r.pc = "write" /\ r.on = b /\ r.what = "delete"
      BY DEF AccountTask
    <2>3. /\ TaskBegun(t, r) /\ UNCHANGED <<suppression, mailing, member, trail, notices, page, firsts>>
          /\ tangled' = (IF Overlapped(r) THEN tangled \cup {r.on} ELSE tangled)
      BY <2>1 DEF AskDeletion, BeginTask, TaskBegun
    <2> QED BY <2>2, <2>3, BeginKeeps
  <1> QED BY <1>1, <1>2, <1>3

LEMMA WriteSuppressionKeeps == ASSUME AdminInv, NEW t \in Task, WriteSuppression(t) PROVE AdminInv'
  <1> USE DEF AdminInv, WriteSuppression
  <1>0. task[t] \in SuppressionTask /\ task[t].box \in Addresses /\ task[t].on \notin Administrator
    BY TaskKinds DEF AdminTypes
  <1> DEFINE x == task[t].box
             new == IF suppression[x] = Unlisted THEN [by |-> task[t].by] ELSE suppression[x]
  <1>1. new \in SuppressedEmail /\ new # Unlisted
    BY <1>0, TaskKinds, AdministrationAssumption DEF AdminTypes, SuppressedEmail, Unlisted, NoAdmin
  <1>2. suppression' = [suppression EXCEPT ![x] = new] /\ firsts' = suppression'
    BY DEF Suppress, FirstSuppressionStands
  <1>3. \A y \in Addresses : suppression[y] # Unlisted \/ y = x => suppression'[y] # Unlisted
    BY <1>1, <1>2 DEF AdminTypes
  <1> HIDE DEF new, x
  <1>3a. x \in Addresses /\ suppression'[x] # Unlisted
    BY <1>0, <1>3 DEF x
  <1>4. task' = [task EXCEPT ![t] = [task[t] EXCEPT !.pc = "audit"]] /\ [task[t] EXCEPT !.pc = "audit"] \in SuppressionTask
    BY <1>0 DEF SuppressionTask
  <1>5. AdminTypes' /\ FirstSuppressionStands' /\ PageSeesTheAlarm'
    <2>1. suppression' \in [Addresses -> {Unlisted} \cup SuppressedEmail]
      BY <1>1, <1>2 DEF AdminTypes
    <2>2. task' \in [Task -> {NoTask} \cup SuppressionTask \cup AccountTask]
      BY <1>4 DEF AdminTypes
    <2> QED BY <1>2, <2>1, <2>2 DEF AdminTypes, FirstSuppressionStands, PageSeesTheAlarm
  <1>6. \A b \in Mailbox, w \in Writing : Suppressed(b, w) => Suppressed(b, w)'
    BY <1>3 DEF Suppressed, Addresses
  <1>7. GatesHold'
    BY <1>0, <1>6 DEF GatesHold, AdminTypes, Mail, NoMail
  <1>8. \A u \in Task : u # t => task'[u] = task[u]
    BY DEF AdminTypes
  <1>9. task'[t].pc = "audit" /\ task'[t].what = "suppress" /\ task'[t].box = x /\ task'[t].on = task[t].on
    BY <1>0, <1>4 DEF AdminTypes, SuppressionTask, x
  <1>10. TasksDone'
    <2> SUFFICES ASSUME NEW u \in Task, task'[u].pc = "audit"
                 PROVE /\ task'[u].what = "suppress" => suppression'[task'[u].box] # Unlisted
                       /\ task'[u].what = "delete" => member'[task'[u].on].deleted
      BY DEF TasksDone
    <2>1. CASE u = t
      BY <2>1, <1>3a, <1>9
    <2>2. CASE u # t
      <3>1. task'[u] = task[u] /\ task[u] \in SuppressionTask \cup AccountTask
        BY <1>8, <2>2, TaskKinds DEF AdminTypes
      <3> QED BY <3>1, <1>3, TaskKinds DEF TasksDone
    <2> QED BY <2>1, <2>2
  <1>11. RowsDone'
    BY <1>3 DEF RowsDone
  <1>12. \A u \in Task, a \in Administrator : Working(u, a)' = Working(u, a) /\ (Working(u, a) => u # t)
    BY <1>0, <1>8, <1>9 DEF Working, NoTask, SuppressionTask
  <1>13. OneAtATime'
    BY <1>8, <1>12 DEF OneAtATime
  <1>14. LastSaid'
    <2> SUFFICES ASSUME NEW a \in Administrator \ tangled
                 PROVE /\ \A e \in Task : Working(e, a)' /\ task'[e].pc = "audit" => Says(AuditRow(task[e]), a)'
                       /\ \A i \in 1..Len(trail) : About(i, a) =>
                            \E j \in 1..Len(trail) :
                              /\ About(j, a) /\ \A k \in 1..Len(trail) : About(k, a) => k <= j
                              /\ (\A e \in Task : Working(e, a)' => task'[e].pc = "write") => Says(trail[j], a)
      BY DEF LastSaid, About, Says
    <2>1. \A e \in Task : Working(e, a)' => Working(e, a) /\ task'[e] = task[e]
      BY <1>8, <1>12
    <2>2. (\A e \in Task : Working(e, a)' => task'[e].pc = "write") => \A e \in Task : Working(e, a) => task[e].pc = "write"
      BY <1>8, <1>12
    <2>3. \A e \in Task : Working(e, a)' /\ task'[e].pc = "audit" => Says(AuditRow(task[e]), a)'
      <3> SUFFICES ASSUME NEW e \in Task, Working(e, a), task[e].pc = "audit", task'[e] = task[e]
                   PROVE Says(AuditRow(task[e]), a)'
        BY <2>1
      <3>1. Says(AuditRow(task[e]), a)
        BY DEF LastSaid
      <3> QED BY <3>1 DEF Says, AuditRow
    <2> QED BY <2>2, <2>3 DEF LastSaid
  <1> QED BY <1>5, <1>7, <1>10, <1>11, <1>13, <1>14

\* What each status is audited as, one action for each.
LEMMA StatusAudits ==
  /\ \A s \in AdminStatus : StatusAuditAction[s] \in {"USER_REACTIVATED", "USER_SUSPENDED", "USER_DEACTIVATED"}
  /\ \A s \in AdminStatus : StatusAuditAction[s] \in AuditActionType
  <1>1. /\ StatusAuditAction["ACTIVE"] = "USER_REACTIVATED" /\ StatusAuditAction["SUSPENDED"] = "USER_SUSPENDED"
        /\ StatusAuditAction["DEACTIVATED"] = "USER_DEACTIVATED"
    BY DEF StatusAuditAction, AdminStatus
  <1> QED BY <1>1 DEF AdminStatus, AuditActionType

LEMMA WriteMemberKeeps == ASSUME AdminInv, NEW t \in Task, WriteMember(t) PROVE AdminInv'
  <1> USE DEF AdminInv, WriteMember
  <1>0. task[t] \in AccountTask
    BY TaskKinds DEF AdminTypes, SuppressionTask
  <1>b. PICK b \in Administrator : b = task[t].on
    BY <1>0, TaskKinds
  <1>k. task[t].what \in AdminStatus \cup {"delete"} /\ "delete" \notin AdminStatus
    BY <1>0, TaskKinds DEF AdminStatus
  <1>m. member[b] \in [status : AdminStatus, deleted : BOOLEAN]
    BY DEF AdminTypes
  <1>1. PICK new \in [status : AdminStatus, deleted : BOOLEAN] :
          /\ member' = [member EXCEPT ![b] = new]
          /\ member[b].deleted => new.deleted
          /\ task[t].what = "delete" => new.deleted /\ (~ member[b].deleted => new.status = "DEACTIVATED")
          /\ task[t].what = "delete" /\ member[b].deleted => new.status = member[b].status
          /\ task[t].what # "delete" => new.status = task[t].what /\ new.deleted = member[b].deleted
    <2>1. CASE task[t].what = "delete"
      <3>1. CASE member[b].deleted
        <4>1. member' = [member EXCEPT ![b] = member[b]]
          BY <1>b, <2>1, <3>1 DEF SoftDeleteMember
        <4> QED BY <1>m, <2>1, <3>1, <4>1
      <3>2. CASE ~ member[b].deleted
        <4> DEFINE new == [deleted |-> TRUE, status |-> "DEACTIVATED"]
        <4>1. member' = [member EXCEPT ![b] = new]
          BY <1>b, <2>1, <3>2 DEF SoftDeleteMember
        <4>2. new \in [status : AdminStatus, deleted : BOOLEAN] /\ new.deleted /\ new.status = "DEACTIVATED"
          BY DEF AdminStatus
        <4> QED BY <2>1, <3>2, <4>1, <4>2
      <3> QED BY <3>1, <3>2
    <2>2. CASE task[t].what # "delete"
      <3> DEFINE new == [member[b] EXCEPT !.status = task[t].what]
      <3>1. member' = [member EXCEPT ![b] = new]
        BY <1>b, <2>2 DEF WriteStatus
      <3>2. new \in [status : AdminStatus, deleted : BOOLEAN] /\ new.status = task[t].what /\ new.deleted = member[b].deleted
        BY <1>m, <1>k, <2>2
      <3> QED BY <2>2, <3>1, <3>2
    <2> QED BY <2>1, <2>2
  <1>2. member'[b] = new /\ \A a \in Administrator : a # b => member'[a] = member[a]
    BY <1>1 DEF AdminTypes
  <1>3. task' = [task EXCEPT ![t] = [task[t] EXCEPT !.pc = "audit"]] /\ [task[t] EXCEPT !.pc = "audit"] \in AccountTask
    BY <1>0 DEF AccountTask
  <1>4. \A u \in Task : u # t => task'[u] = task[u]
    BY DEF AdminTypes
  <1>5. /\ task'[t].pc = "audit" /\ task'[t].what = task[t].what /\ task'[t].on = b /\ task'[t] # NoTask
        /\ task'[t].by = task[t].by /\ task[t] # NoTask
    BY <1>0, <1>3, <1>b, TaskKinds DEF AdminTypes, AccountTask
  <1>6. AdminTypes'
    <2>1. task' \in [Task -> {NoTask} \cup SuppressionTask \cup AccountTask]
      BY <1>3 DEF AdminTypes
    <2>2. member' \in [Administrator -> [status : AdminStatus, deleted : BOOLEAN]]
      BY <1>1 DEF AdminTypes
    <2> QED BY <2>1, <2>2 DEF AdminTypes
  <1>7. GatesHold' /\ FirstSuppressionStands' /\ PageSeesTheAlarm'
    BY DEF GatesHold, Suppressed, FirstSuppressionStands, PageSeesTheAlarm
  <1>8. \A a \in Administrator : member[a].deleted => member'[a].deleted
    BY <1>1, <1>2
  <1>9. TasksDone'
    <2> SUFFICES ASSUME NEW u \in Task, task'[u].pc = "audit"
                 PROVE /\ task'[u].what = "suppress" => suppression'[task'[u].box] # Unlisted
                       /\ task'[u].what = "delete" => member'[task'[u].on].deleted
      BY DEF TasksDone
    <2>1. CASE u = t
      BY <2>1, <1>1, <1>2, <1>5
    <2>2. CASE u # t
      <3>1. task'[u] = task[u] /\ task[u] \in SuppressionTask \cup AccountTask
        BY <1>4, <2>2, TaskKinds DEF AdminTypes
      <3> QED BY <3>1, <1>8, TaskKinds DEF TasksDone
    <2> QED BY <2>1, <2>2
  <1>10. RowsDone'
    BY <1>8 DEF RowsDone
  <1>11. \A u \in Task, a \in Administrator : Working(u, a)' <=> Working(u, a)
    BY <1>4, <1>5, <1>b DEF Working
  <1>12. Working(t, b)
    BY <1>5, <1>b DEF Working
  <1>13. OneAtATime'
    <2> SUFFICES ASSUME NEW a \in Administrator \ tangled
                 PROVE /\ \A e, u \in Task : Working(e, a) /\ Working(u, a) => e = u
                       /\ \A e \in Task : Working(e, a) /\ member'[a].deleted => task'[e].what = "delete"
                       /\ member'[a].deleted => member'[a].status = "DEACTIVATED"
      BY <1>11 DEF OneAtATime
    <2>1. \A e, u \in Task : Working(e, a) /\ Working(u, a) => e = u
      BY DEF OneAtATime
    <2>2. CASE a = b
      <3>1. \A e \in Task : Working(e, a) => e = t
        BY <1>12, <2>1, <2>2
      <3>2. member'[a].deleted => task[t].what = "delete"
        BY <1>1, <1>2, <1>12, <2>2 DEF OneAtATime
      <3>3. member'[a].deleted => member'[a].status = "DEACTIVATED"
        BY <1>1, <1>2, <2>2, <3>2 DEF OneAtATime
      <3> QED BY <1>5, <2>1, <3>1, <3>2, <3>3
    <2>3. CASE a # b
      <3>1. \A e \in Task : Working(e, a) => task'[e] = task[e]
        BY <1>4, <1>b, <2>3 DEF Working
      <3> QED BY <1>2, <2>1, <2>3, <3>1 DEF OneAtATime
    <2> QED BY <2>2, <2>3
  <1>14. LastSaid'
    <2> SUFFICES ASSUME NEW a \in Administrator \ tangled
                 PROVE /\ \A e \in Task : Working(e, a) /\ task'[e].pc = "audit" => Says(AuditRow(task[e]), a)'
                       /\ \A i \in 1..Len(trail) : About(i, a) =>
                            \E j \in 1..Len(trail) :
                              /\ About(j, a) /\ \A k \in 1..Len(trail) : About(k, a) => k <= j
                              /\ (\A e \in Task : Working(e, a) => task'[e].pc = "write") => Says(trail[j], a)'
      BY <1>11 DEF LastSaid, About
    <2>1. CASE a = b
      <3>1. \A e \in Task : Working(e, a) => e = t
        BY <1>12, <2>1 DEF OneAtATime
      <3>2. Says(AuditRow(task[t]), a)'
        <4>0. task[t].what # "suppress"
          BY <1>0, TaskKinds
        <4>1. AuditRow(task[t])'.actionType = (IF task[t].what = "delete" THEN "USER_ACCOUNT_DELETED" ELSE StatusAuditAction[task[t].what])
          BY <1>5, <4>0 DEF AuditRow
        <4>2. CASE task[t].what = "delete"
          BY <1>1, <1>2, <2>1, <4>1, <4>2 DEF Says, OneAtATime
        <4>3. CASE task[t].what # "delete"
          BY <1>1, <1>2, <1>k, <2>1, <4>1, <4>3, StatusAudits DEF Says
        <4> QED BY <4>2, <4>3
      <3> QED BY <1>5, <1>12, <2>1, <3>1, <3>2 DEF LastSaid
    <2>2. CASE a # b
      <3>1. \A e \in Task : Working(e, a) => task'[e] = task[e]
        BY <1>4, <1>b, <2>2 DEF Working
      <3>2. \A r : Says(r, a)' = Says(r, a)
        BY <1>2, <2>2 DEF Says
      <3>3. \A e \in Task : Working(e, a) /\ task'[e].pc = "audit" => Says(AuditRow(task[e]), a)'
        <4> SUFFICES ASSUME NEW e \in Task, Working(e, a), task[e].pc = "audit", task'[e] = task[e]
                     PROVE Says(AuditRow(task[e]), a)'
          BY <3>1
        <4>1. Says(AuditRow(task[e]), a)
          BY DEF LastSaid
        <4> QED BY <4>1, <1>2, <2>2 DEF Says, AuditRow
      <3>4. (\A e \in Task : Working(e, a) => task'[e].pc = "write") => \A e \in Task : Working(e, a) => task[e].pc = "write"
        BY <3>1
      <3>5. \A j \in 1..Len(trail) : Says(trail[j], a) => Says(trail[j], a)'
        BY <1>2, <2>2 DEF Says
      <3> QED BY <3>3, <3>4, <3>5 DEF LastSaid
    <2> QED BY <2>1, <2>2
  <1> QED BY <1>6, <1>7, <1>9, <1>10, <1>13, <1>14

LEMMA FailTaskKeeps == ASSUME AdminInv, NEW t \in Task, FailTask(t) PROVE AdminInv'
  <1> USE DEF AdminInv, FailTask
  <1>1. /\ task' = [task EXCEPT ![t] = NoTask] /\ task[t].pc \in {"write", "audit"} /\ tangled \subseteq tangled'
        /\ task[t].pc = "audit" => task[t].on \in tangled'
        /\ UNCHANGED <<suppression, mailing, member, trail, notices, page, tasks, firsts>>
    OBVIOUS
  <1>2. \A u \in Task : u # t => task'[u] = task[u]
    BY <1>1 DEF AdminTypes
  <1>3. task'[t] = NoTask /\ NoTask.pc = "idle"
    BY <1>1 DEF AdminTypes, NoTask
  <1>4. AdminTypes' /\ FirstSuppressionStands' /\ PageSeesTheAlarm' /\ GatesHold' /\ RowsDone'
    BY <1>1 DEF AdminTypes, FirstSuppressionStands, PageSeesTheAlarm, GatesHold, Suppressed, RowsDone
  <1>5. TasksDone'
    BY <1>1, <1>2, <1>3 DEF TasksDone
  <1>6. \A u \in Task, a \in Administrator : Working(u, a)' => u # t /\ Working(u, a)
    BY <1>2, <1>3 DEF Working
  <1>7. OneAtATime'
    BY <1>1, <1>2, <1>6 DEF OneAtATime
  <1>8. LastSaid'
    <2> SUFFICES ASSUME NEW a \in Administrator \ tangled'
                 PROVE /\ \A e \in Task : Working(e, a)' /\ task'[e].pc = "audit" => Says(AuditRow(task[e]), a)'
                       /\ \A i \in 1..Len(trail) : About(i, a) =>
                            \E j \in 1..Len(trail) :
                              /\ About(j, a) /\ \A k \in 1..Len(trail) : About(k, a) => k <= j
                              /\ (\A e \in Task : Working(e, a)' => task'[e].pc = "write") => Says(trail[j], a)
      BY <1>1 DEF LastSaid, About, Says
    <2>0. a \in Administrator \ tangled
      BY <1>1
    <2>1. \A e \in Task : Working(e, a)' => Working(e, a) /\ task'[e] = task[e]
      BY <1>2, <1>6
    <2>2. (\A e \in Task : Working(e, a)' => task'[e].pc = "write") => \A e \in Task : Working(e, a) => task[e].pc = "write"
      <3> SUFFICES ASSUME \A e \in Task : Working(e, a)' => task'[e].pc = "write", NEW e \in Task, Working(e, a)
                   PROVE task[e].pc = "write"
        OBVIOUS
      <3>1. CASE e = t
        BY <3>1, <1>1 DEF Working
      <3>2. CASE e # t
        BY <3>2, <1>2 DEF Working
      <3> QED BY <3>1, <3>2
    <2>3. \A e \in Task : Working(e, a)' /\ task'[e].pc = "audit" => Says(AuditRow(task[e]), a)'
      <3> SUFFICES ASSUME NEW e \in Task, Working(e, a), task[e].pc = "audit", task'[e] = task[e]
                   PROVE Says(AuditRow(task[e]), a)'
        BY <2>1
      <3>1. Says(AuditRow(task[e]), a)
        BY <2>0 DEF LastSaid
      <3> QED BY <3>1, <1>1 DEF Says, AuditRow
    <2> QED BY <2>0, <2>2, <2>3 DEF LastSaid
  <1> QED BY <1>4, <1>5, <1>7, <1>8

\* The audit row of a call: about an address that is listed, or about the account it changed.
LEMMA RowFits ==
  ASSUME AdminInv, NEW t \in Task, task[t].pc = "audit"
  PROVE /\ AuditRow(task[t]) \in AuditLog
        /\ AuditRow(task[t]).resourceType = "USER" =>
             AuditRow(task[t]).resourceId = task[t].on /\ task[t].on \in Administrator
        /\ \A a \in Administrator : task[t].on = a => AuditRow(task[t]).resourceType = "USER"
        /\ AuditRow(task[t]).actionType = "EMAIL_SUPPRESSED" =>
             AuditRow(task[t]).resourceId \in Addresses /\ suppression[AuditRow(task[t]).resourceId] # Unlisted
        /\ AuditRow(task[t]).actionType = "USER_ACCOUNT_DELETED" =>
             AuditRow(task[t]).resourceId \in Administrator /\ member[AuditRow(task[t]).resourceId].deleted
  <1>0. task[t] \in SuppressionTask \cup AccountTask
    BY TaskKinds DEF AdminInv, AdminTypes
  <1>1. CASE task[t] \in SuppressionTask
    <2>1. AuditRow(task[t]) = [adminId |-> task[t].by, actionType |-> "EMAIL_SUPPRESSED", resourceType |-> "EMAIL", resourceId |-> task[t].box]
      BY <1>1, TaskKinds DEF AuditRow
    <2>2. AuditRow(task[t]) \in AuditLog
      BY <1>1, <2>1, TaskKinds DEF AuditLog
    <2>3. "EMAIL_SUPPRESSED" \in AuditActionType
      BY DEF AuditActionType
    <2>4. suppression[task[t].box] # Unlisted /\ task[t].box \in Addresses /\ task[t].on \notin Administrator
      BY <1>1, TaskKinds DEF AdminInv, TasksDone
    <2> QED BY <2>1, <2>2, <2>3, <2>4
  <1>2. CASE task[t] \in AccountTask
    <2> DEFINE action == IF task[t].what = "delete" THEN "USER_ACCOUNT_DELETED" ELSE StatusAuditAction[task[t].what]
    <2>1. AuditRow(task[t]) = [adminId |-> task[t].by, resourceType |-> "USER", resourceId |-> task[t].on, actionType |-> action]
      BY <1>2, TaskKinds DEF AuditRow
    <2>2. action \in AuditActionType /\ action # "EMAIL_SUPPRESSED"
      <3>1. CASE task[t].what = "delete"
        BY <3>1 DEF AuditActionType
      <3>2. CASE task[t].what # "delete"
        <4>1. task[t].what \in AdminStatus
          BY <1>2, <3>2, TaskKinds
        <4> QED BY <3>2, <4>1, StatusAudits
      <3> QED BY <3>1, <3>2
    <2>3. action = "USER_ACCOUNT_DELETED" => task[t].what = "delete"
      BY <1>2, TaskKinds, StatusAudits
    <2>4. task[t].what = "delete" => member[task[t].on].deleted
      BY DEF AdminInv, TasksDone
    <2> HIDE DEF action
    <2>5. AuditRow(task[t]) \in AuditLog
      BY <1>2, <2>1, <2>2, TaskKinds DEF AuditLog
    <2> QED BY <1>2, <2>1, <2>2, <2>3, <2>4, <2>5, TaskKinds
  <1> QED BY <1>0, <1>1, <1>2

LEMMA RecordAuditKeeps == ASSUME AdminInv, NEW t \in Task, RecordAudit(t) PROVE AdminInv'
  <1> USE DEF AdminInv
  <1>a. task[t].pc = "audit"
    BY DEF RecordAudit
  <1>p. PICK r \in AuditLog : r = AuditRow(task[t])
    BY <1>a, RowFits
  <1>n. PICK n \in Nat : n = Len(trail) + 1
    BY DEF AdminTypes
  <1>1. /\ task' = [task EXCEPT ![t] = NoTask] /\ task[t].pc = "audit" /\ trail' = Append(trail, r)
        /\ UNCHANGED <<suppression, mailing, member, notices, page, tasks, tangled, firsts>>
    BY <1>p DEF RecordAudit
  <1>r. /\ r \in AuditLog
        /\ r.resourceType = "USER" => r.resourceId = task[t].on /\ task[t].on \in Administrator
        /\ \A a \in Administrator : task[t].on = a => r.resourceType = "USER"
        /\ r.actionType = "EMAIL_SUPPRESSED" => r.resourceId \in Addresses /\ suppression[r.resourceId] # Unlisted
        /\ r.actionType = "USER_ACCOUNT_DELETED" => r.resourceId \in Administrator /\ member[r.resourceId].deleted
    BY <1>1, <1>p, RowFits
  <1>l. /\ n \in Nat /\ Len(trail) \in Nat /\ Len(trail') = n /\ trail'[n] = r /\ trail' \in Seq(AuditLog)
        /\ \A i \in 1..Len(trail) : trail'[i] = trail[i]
    BY <1>1, <1>r, <1>n DEF AdminTypes
  <1>i. \A i \in 1..n : i \in 1..Len(trail) \/ i = n
    BY <1>l, <1>n
  <1>2. \A u \in Task : u # t => task'[u] = task[u]
    BY <1>1 DEF AdminTypes
  <1>3. task'[t] = NoTask /\ NoTask.pc = "idle" /\ task[t] # NoTask
    BY <1>1 DEF AdminTypes, NoTask
  <1>4. AdminTypes' /\ FirstSuppressionStands' /\ PageSeesTheAlarm' /\ GatesHold'
    <2>1. task' \in [Task -> {NoTask} \cup SuppressionTask \cup AccountTask]
      BY <1>1 DEF AdminTypes
    <2> QED BY <1>1, <1>l, <2>1 DEF AdminTypes, FirstSuppressionStands, PageSeesTheAlarm, GatesHold, Suppressed
  <1>5. TasksDone'
    BY <1>1, <1>2, <1>3 DEF TasksDone
  <1>6. RowsDone'
    BY <1>1, <1>r, <1>l, <1>i DEF RowsDone
  <1>7. \A u \in Task, a \in Administrator : Working(u, a)' => u # t /\ Working(u, a)
    BY <1>2, <1>3 DEF Working
  <1>8. OneAtATime'
    BY <1>1, <1>2, <1>7 DEF OneAtATime
  <1>9. LastSaid'
    <2> SUFFICES ASSUME NEW a \in Administrator \ tangled
                 PROVE /\ \A e \in Task : Working(e, a)' /\ task'[e].pc = "audit" => Says(AuditRow(task[e]), a)'
                       /\ \A i \in 1..n : About(i, a)' =>
                            \E j \in 1..n :
                              /\ About(j, a)' /\ \A k \in 1..n : About(k, a)' => k <= j
                              /\ (\A e \in Task : Working(e, a)' => task'[e].pc = "write") => Says(trail'[j], a)
      BY <1>1, <1>l DEF LastSaid, Says
    <2>1. \A e \in Task : Working(e, a)' /\ task'[e].pc = "audit" => Says(AuditRow(task[e]), a)'
      <3> SUFFICES ASSUME NEW e \in Task, Working(e, a), task[e].pc = "audit", task'[e] = task[e]
                   PROVE Says(AuditRow(task[e]), a)'
        BY <1>2, <1>7
      <3>1. Says(AuditRow(task[e]), a)
        BY DEF LastSaid
      <3> QED BY <3>1, <1>1 DEF Says, AuditRow
    <2>2. \A i \in 1..Len(trail) : About(i, a)' <=> About(i, a)
      BY <1>l DEF About
    <2>3. CASE task[t].on = a
      <3>1. About(n, a)' /\ n \in 1..n
        BY <1>l, <1>n, <1>r, <2>3 DEF About
      <3>2. Says(r, a)
        BY <1>1, <1>3, <1>p, <2>3 DEF LastSaid, Working
      <3>3. \A k \in 1..n : k <= n
        BY <1>l
      <3>4. Says(trail'[n], a)
        BY <1>l, <3>2 DEF Says
      <3> QED BY <2>1, <3>1, <3>3, <3>4
    <2>4. CASE task[t].on # a
      <3>1. ~ About(n, a)'
        BY <1>l, <1>r, <2>4 DEF About
      <3>2. \A e \in Task : Working(e, a) <=> Working(e, a)'
        BY <1>2, <1>3, <2>4 DEF Working
      <3>3. (\A e \in Task : Working(e, a)' => task'[e].pc = "write") => \A e \in Task : Working(e, a) => task[e].pc = "write"
        BY <1>2, <1>7, <3>2
      <3> SUFFICES ASSUME NEW i \in 1..n, About(i, a)'
                   PROVE \E j \in 1..n :
                           /\ About(j, a)' /\ \A k \in 1..n : About(k, a)' => k <= j
                           /\ (\A e \in Task : Working(e, a)' => task'[e].pc = "write") => Says(trail'[j], a)
        BY <2>1
      <3>4. i \in 1..Len(trail) /\ About(i, a)
        BY <1>i, <2>2, <3>1
      <3>5. PICK j \in 1..Len(trail) :
              /\ About(j, a) /\ \A k \in 1..Len(trail) : About(k, a) => k <= j
              /\ (\A e \in Task : Working(e, a) => task[e].pc = "write") => Says(trail[j], a)
        BY <3>4 DEF LastSaid
      <3>6. j \in 1..n /\ About(j, a)' /\ \A k \in 1..n : About(k, a)' => k <= j
        BY <1>i, <1>l, <1>n, <2>2, <3>1, <3>5
      <3>7. (\A e \in Task : Working(e, a)' => task'[e].pc = "write") => Says(trail'[j], a)
        BY <1>l, <3>3, <3>5
      <3> QED BY <3>6, <3>7
    <2> QED BY <2>3, <2>4
  <1> QED BY <1>4, <1>5, <1>6, <1>8, <1>9

\* The alerts and the page touch nothing else.
LEMMA NoticesKeep ==
  ASSUME AdminInv,
         \/ \E n \in Notice, s \in {"CRITICAL", "WARNING"} : RaiseNotice(n, s)
         \/ \E n \in Notice, a \in Administrator : Acknowledge(n, a)
         \/ \E answers \in BOOLEAN : ShowPage(answers)
  PROVE AdminInv'
  <1> USE DEF AdminInv
  <1>1. UNCHANGED <<suppression, mailing, member, task, trail, tangled, firsts>>
    BY DEF RaiseNotice, Acknowledge, ShowPage
  <1>2. notices' \in [Notice -> SystemEvent]
    <2>1. CASE \E n \in Notice, s \in {"CRITICAL", "WARNING"} : RaiseNotice(n, s)
      <3>1. PICK n \in Notice, s \in {"CRITICAL", "WARNING"} : RaiseNotice(n, s)
        BY <2>1
      <3>2. s \in SystemEventSeverity \cup {"none"}
        BY DEF SystemEventSeverity
      <3>3. notices \in [Notice -> SystemEvent] /\ notices' = [notices EXCEPT ![n].severity = s]
        BY <3>1 DEF RaiseNotice, AdminTypes
      <3>4. [notices[n] EXCEPT !.severity = s] \in SystemEvent
        BY <3>2, <3>3 DEF SystemEvent
      <3> QED BY <3>3, <3>4
    <2>2. CASE \E n \in Notice, a \in Administrator : Acknowledge(n, a)
      <3>1. PICK n \in Notice, a \in Administrator : Acknowledge(n, a)
        BY <2>2
      <3>2. {a} \in {{}} \cup {{b} : b \in Administrator}
        OBVIOUS
      <3> QED BY <3>1, <3>2 DEF Acknowledge, AdminTypes, SystemEvent
    <2>3. CASE \E answers \in BOOLEAN : ShowPage(answers)
      BY <2>3 DEF ShowPage, AdminTypes
    <2> QED BY <2>1, <2>2, <2>3
  <1>3. PageSeesTheAlarm'
    BY DEF PageSeesTheAlarm, RaiseNotice, Acknowledge, ShowPage, DeriveStatus
  <1>4. AdminTypes' /\ GatesHold' /\ FirstSuppressionStands' /\ TasksDone' /\ RowsDone' /\ OneAtATime'
    BY <1>1, <1>2 DEF AdminTypes, GatesHold, Suppressed, FirstSuppressionStands, TasksDone, RowsDone, OneAtATime, Working
  <1>5. LastSaid'
    BY <1>1 DEF LastSaid, Working, About, Says, AuditRow
  <1> QED BY <1>3, <1>4, <1>5

LEMMA AdminStep == ASSUME AdminInv, AdminNext PROVE AdminInv'
  <1>1. CASE \/ \E m \in Mailing, b \in Mailbox, w \in Writing : CallSend(m, b, w)
             \/ \E m \in Mailing : PassGate(m) \/ SendMail(m)
    BY <1>1, MailsKeep
  <1>2. CASE \/ \E t \in Task, a \in Administrator, b \in Mailbox, w \in Writing : AskSuppression(t, a, b, w)
             \/ \E t \in Task, a, b \in Administrator, s \in AdminStatus : AskStatus(t, a, b, s)
             \/ \E t \in Task, a, b \in Administrator : AskDeletion(t, a, b)
    BY <1>2, AsksKeep
  <1>3. CASE \E t \in Task : WriteSuppression(t) \/ WriteMember(t) \/ FailTask(t) \/ RecordAudit(t)
    BY <1>3, WriteSuppressionKeeps, WriteMemberKeeps, FailTaskKeeps, RecordAuditKeeps
  <1>4. CASE \/ \E n \in Notice, s \in {"CRITICAL", "WARNING"} : RaiseNotice(n, s)
             \/ \E n \in Notice, a \in Administrator : Acknowledge(n, a)
             \/ \E answers \in BOOLEAN : ShowPage(answers)
    BY <1>4, NoticesKeep
  <1> QED BY <1>1, <1>2, <1>3, <1>4 DEF AdminNext

LEMMA AdminRest == ASSUME AdminInv, UNCHANGED adminVars PROVE AdminInv'
  <1>1. AdminTypes' /\ GatesHold' /\ FirstSuppressionStands' /\ TasksDone' /\ RowsDone' /\ OneAtATime' /\ PageSeesTheAlarm'
    BY DEF AdminInv, adminVars, AdminTypes, GatesHold, Suppressed, FirstSuppressionStands, TasksDone, RowsDone, OneAtATime,
           Working, PageSeesTheAlarm
  <1>2. LastSaid'
    BY DEF AdminInv, adminVars, LastSaid, Working, About, Says, AuditRow
  <1> QED BY <1>1, <1>2 DEF AdminInv

\* What the invariant says of the rows is what AuditIsTrue does.
LEMMA AuditHolds == AdminInv => AdministrationIsTrue
  <1> SUFFICES ASSUME AdminInv PROVE AdministrationIsTrue
    OBVIOUS
  <1> USE DEF AdminInv
  <1>1. AdministrationTypeOK /\ BarredMailStaysUnsent
    BY DEF AdminTypes, AdministrationTypeOK, GatesHold, BarredMailStaysUnsent
  <1>2. ASSUME NEW a \in Administrator \ tangled,
               {i \in 1..Len(trail) : trail[i].resourceType = "USER" /\ trail[i].resourceId = a} # {},
               \A t \in Task : task[t] # NoTask => task[t].on # a
        PROVE LET rows == {i \in 1..Len(trail) : trail[i].resourceType = "USER" /\ trail[i].resourceId = a}
              IN  Says(trail[CHOOSE i \in rows : \A j \in rows : j <= i], a)
    <2> DEFINE rows == {i \in 1..Len(trail) : trail[i].resourceType = "USER" /\ trail[i].resourceId = a}
               last == CHOOSE i \in rows : \A j \in rows : j <= i
    <2>1. \A i \in 1..Len(trail) : i \in rows <=> About(i, a)
      BY DEF About
    <2>2. PICK i \in 1..Len(trail) : About(i, a)
      BY <1>2, <2>1
    <2>3. PICK j \in 1..Len(trail) : /\ About(j, a) /\ \A k \in 1..Len(trail) : About(k, a) => k <= j
                                     /\ Says(trail[j], a)
      BY <1>2, <2>2 DEF LastSaid, Working
    <2>4. j \in rows /\ \A k \in rows : k <= j
      BY <2>1, <2>3
    <2>5. last \in rows /\ \A k \in rows : k <= last
      BY <2>4
    <2>6. last = j
      BY <2>4, <2>5
    <2> QED BY <2>3, <2>6
  <1>3. AuditIsTrue
    BY <1>2 DEF AuditIsTrue, RowsDone, Says
  <1> QED BY <1>1, <1>3 DEF AdministrationIsTrue

-----------------------------------------------------------------------------
(* The failed passwords. *)

LockTypes ==
  /\ up \in BOOLEAN /\ blocked \in BOOLEAN /\ count \in Nat /\ guesses \in Nat /\ outages \in Nat
  /\ fallback \in [Process -> [attempts : Nat, locked : BOOLEAN]]
  /\ attempt \in [Process -> {"idle", "checked", "expire", "block"}]

\* What the counters still let through: the failures each process has not counted yet, one more
\* when it counted to the threshold and forgot the lock; those Redis has not; and, while Redis
\* answers, one login of each process that may be past its check when the lock is set.
Failures == Process \X (1..Threshold)
Spare ==
  {x \in Failures : ~ fallback[x[1]].locked /\ (x[2] > fallback[x[1]].attempts \/ x[2] = Threshold)}
Left == IF count < Threshold THEN Threshold - 1 - count ELSE 0
PastCheck(p) ==
  \/ attempt[p] = "checked"
  \/ ~ blocked /\ (attempt[p] = "idle" \/ (attempt[p] = "expire" /\ Threshold # 1))
PastChecks == {p \in Process : up /\ PastCheck(p)}
Allowed ==
  Cardinality(Process) * Threshold + (Threshold - 1) + Cardinality(Process) * outages
    + (IF up THEN Cardinality(Process) ELSE 0)
WithinBudget == guesses + Cardinality(Spare) + Left + Cardinality(PastChecks) <= Allowed

CheckedIsUnlocked == \A p \in Process : attempt[p] = "checked" => ~ fallback[p].locked

LockoutInv == LockTypes /\ CheckedIsUnlocked /\ WithinBudget

LEMMA Smaller ==
  ASSUME NEW S, IsFiniteSet(S), NEW R \in SUBSET S
  PROVE /\ IsFiniteSet(R) /\ Cardinality(R) \in Nat /\ Cardinality(S) \in Nat /\ Cardinality(R) <= Cardinality(S)
        /\ \A x \in S : x \notin R => Cardinality(R) + 1 <= Cardinality(S)
  <1>1. IsFiniteSet(R) /\ Cardinality(R) <= Cardinality(S) /\ (Cardinality(S) = Cardinality(R) => S = R)
    BY FS_Subset
  <1>2. Cardinality(R) \in Nat /\ Cardinality(S) \in Nat
    BY <1>1, FS_CardinalityType
  <1> QED BY <1>1, <1>2

\* The sizes of the three counts, and their most.
LEMMA Sizes ==
  ASSUME LockTypes
  PROVE /\ IsFiniteSet(Failures) /\ IsFiniteSet(Process) /\ Cardinality(Process) \in Nat
        /\ Cardinality(Spare) \in Nat /\ Cardinality(Spare) <= Cardinality(Process) * Threshold
        /\ Cardinality(PastChecks) \in Nat /\ Cardinality(PastChecks) <= Cardinality(Process)
        /\ Left \in Nat /\ Left <= Threshold - 1 /\ Allowed \in Nat
        /\ Cardinality(Process) * Threshold \in Nat /\ Cardinality(Process) * outages \in Nat
        /\ Threshold \in Nat /\ Threshold >= 1
  <1>1. IsFiniteSet(Process) /\ Threshold \in Nat /\ Threshold >= 1
    BY LockoutAssumption
  <1>2. Cardinality(Process) \in Nat
    BY <1>1, FS_CardinalityType
  <1>3. IsFiniteSet(1..Threshold) /\ Cardinality(1..Threshold) = Threshold
    BY <1>1, FS_Interval
  <1>4. IsFiniteSet(Failures) /\ Cardinality(Failures) = Cardinality(Process) * Threshold
    BY <1>1, <1>3, FS_Product DEF Failures
  <1>5. Spare \in SUBSET Failures /\ PastChecks \in SUBSET Process
    BY DEF Spare, PastChecks
  <1>6. Cardinality(Spare) \in Nat /\ Cardinality(Spare) <= Cardinality(Process) * Threshold
    BY <1>4, <1>5, Smaller
  <1>7. Cardinality(PastChecks) \in Nat /\ Cardinality(PastChecks) <= Cardinality(Process)
    BY <1>1, <1>5, Smaller
  <1>8. Left \in Nat /\ Left <= Threshold - 1
    BY <1>1 DEF Left, LockTypes
  <1>9. outages \in Nat
    BY DEF LockTypes
  <1>10. Cardinality(Process) * Threshold \in Nat /\ Cardinality(Process) * outages \in Nat
    BY <1>1, <1>2, <1>9
  <1>11. Allowed \in Nat
    BY <1>1, <1>2, <1>10 DEF Allowed
  <1> QED BY <1>1, <1>2, <1>4, <1>6, <1>7, <1>8, <1>10, <1>11

\* When the counts start again.
LEMMA StartAgain == ASSUME LockTypes, guesses = 0 PROVE WithinBudget
  <1>1. up => Cardinality(PastChecks) <= Cardinality(Process)
    BY Sizes
  <1>2. ~ up => Cardinality(PastChecks) = 0
    <2>1. ~ up => PastChecks = {}
      BY DEF PastChecks
    <2> QED BY <2>1, FS_EmptySet
  <1> QED BY Sizes, <1>1, <1>2 DEF WithinBudget, Allowed

LEMMA StartAgainNext == ASSUME LockTypes', guesses' = 0 PROVE WithinBudget'
  <1>1. (LockTypes /\ guesses = 0 => WithinBudget)'
    BY StartAgain, PTL
  <1> QED BY <1>1

LEMMA SizesNext ==
  ASSUME LockTypes'
  PROVE /\ Cardinality(Spare') \in Nat /\ Cardinality(Spare') <= Cardinality(Process) * Threshold
        /\ Cardinality(PastChecks') \in Nat /\ Cardinality(PastChecks') <= Cardinality(Process)
        /\ Left' \in Nat /\ Allowed' \in Nat
  <1>1. (LockTypes =>
           /\ Cardinality(Spare) \in Nat /\ Cardinality(Spare) <= Cardinality(Process) * Threshold
           /\ Cardinality(PastChecks) \in Nat /\ Cardinality(PastChecks) <= Cardinality(Process)
           /\ Left \in Nat /\ Allowed \in Nat)'
    BY Sizes, PTL
  <1> QED BY <1>1

\* A step that tries no password and takes no count back.
LEMMA NothingTried ==
  ASSUME LockTypes, LockTypes', WithinBudget, UNCHANGED <<up, outages, guesses>>,
         Spare' \subseteq Spare, PastChecks' \subseteq PastChecks, Left' <= Left
  PROVE WithinBudget'
  <1>1. Spare \in SUBSET Failures /\ PastChecks \in SUBSET Process
    BY DEF Spare, PastChecks
  <1>2. IsFiniteSet(Spare) /\ IsFiniteSet(PastChecks)
    BY <1>1, Sizes, FS_Subset
  <1>3. Cardinality(Spare') <= Cardinality(Spare) /\ Cardinality(PastChecks') <= Cardinality(PastChecks)
    BY <1>2, Smaller
  <1>4. Allowed' = Allowed
    BY DEF Allowed
  <1>5. guesses \in Nat
    BY DEF LockTypes
  <1> QED BY <1>3, <1>4, <1>5, Sizes, SizesNext DEF WithinBudget

\* A wrong password, paid for by one of the three counts.
LEMMA OneTried ==
  ASSUME LockTypes, LockTypes', WithinBudget, UNCHANGED <<up, outages>>, guesses' = guesses + 1,
         Spare' \subseteq Spare, PastChecks' \subseteq PastChecks, Left' <= Left,
         \/ \E x \in Spare : x \notin Spare'
         \/ \E p \in PastChecks : p \notin PastChecks'
         \/ Left' + 1 <= Left
  PROVE WithinBudget'
  <1>1. Spare \in SUBSET Failures /\ PastChecks \in SUBSET Process
    BY DEF Spare, PastChecks
  <1>2. IsFiniteSet(Spare) /\ IsFiniteSet(PastChecks)
    BY <1>1, Sizes, FS_Subset
  <1>3. Cardinality(Spare') <= Cardinality(Spare) /\ Cardinality(PastChecks') <= Cardinality(PastChecks)
    BY <1>2, Smaller
  <1>4. \/ Cardinality(Spare') + 1 <= Cardinality(Spare)
        \/ Cardinality(PastChecks') + 1 <= Cardinality(PastChecks)
        \/ Left' + 1 <= Left
    BY <1>2, Smaller
  <1>5. Allowed' = Allowed
    BY DEF Allowed
  <1>6. guesses \in Nat
    BY DEF LockTypes
  <1> QED BY <1>3, <1>4, <1>5, <1>6, Sizes, SizesNext DEF WithinBudget

LEMMA StepFits ==
  ASSUME LockTypes, NEW p \in Process, NEW s \in {"idle", "checked", "expire", "block"}, Step(p, s)
  PROVE /\ attempt' \in [Process -> {"idle", "checked", "expire", "block"}]
        /\ attempt'[p] = s /\ \A q \in Process : q # p => attempt'[q] = attempt[q]
  BY DEF LockTypes, Step

\* A process counts a failure by itself.
LEMMA BumpFits ==
  ASSUME LockTypes, NEW p \in Process, FallbackBump(p)
  PROVE /\ fallback' \in [Process -> [attempts : Nat, locked : BOOLEAN]]
        /\ \A q \in Process : q # p => fallback'[q] = fallback[q]
        /\ fallback[p].locked => fallback'[p].locked
        /\ Spare' \subseteq Spare
        /\ ~ fallback[p].locked => \E x \in Spare : x \notin Spare'
  <1>0. /\ fallback[p].attempts \in Nat /\ fallback[p].locked \in BOOLEAN
        /\ Threshold \in Nat /\ Threshold >= 1
    BY LockoutAssumption DEF LockTypes
  <1>1. PICK n \in Nat : n = fallback[p].attempts + 1
    BY <1>0
  <1>2. PICK b \in BOOLEAN : b <=> fallback[p].locked \/ n >= Threshold
    OBVIOUS
  <1>3. (fallback[p].locked \/ fallback[p].attempts + 1 >= Threshold) = b
    BY <1>0, <1>1, <1>2
  <1>4. fallback' = [fallback EXCEPT ![p] = [attempts |-> n, locked |-> b]]
    BY <1>1, <1>3 DEF FallbackBump
  <1>5. /\ fallback' \in [Process -> [attempts : Nat, locked : BOOLEAN]]
        /\ \A q \in Process : q # p => fallback'[q] = fallback[q]
        /\ fallback'[p].attempts = n /\ fallback'[p].locked = b
    BY <1>4 DEF LockTypes
  <1>6. ASSUME NEW x \in Spare' PROVE x \in Spare
    <2>1. /\ x \in Failures /\ ~ fallback'[x[1]].locked
          /\ x[2] > fallback'[x[1]].attempts \/ x[2] = Threshold
      BY DEF Spare
    <2>2. x[1] \in Process /\ x[2] \in Nat
      BY <2>1, <1>0 DEF Failures
    <2>3. CASE x[1] # p
      BY <1>5, <2>1, <2>2, <2>3 DEF Spare
    <2>4. CASE x[1] = p
      BY <1>0, <1>1, <1>2, <1>5, <2>1, <2>2, <2>4 DEF Spare
    <2> QED BY <2>3, <2>4
  <1>7. ASSUME ~ fallback[p].locked PROVE \E x \in Spare : x \notin Spare'
    <2>1. CASE n >= Threshold
      <3>1. <<p, Threshold>> \in Failures
        BY <1>0 DEF Failures
      <3>2. <<p, Threshold>> \in Spare
        BY <1>7, <3>1 DEF Spare
      <3>3. <<p, Threshold>> \notin Spare'
        BY <1>2, <1>5, <2>1 DEF Spare
      <3> QED BY <3>2, <3>3
    <2>2. CASE n < Threshold
      <3>1. <<p, n>> \in Failures
        BY <1>0, <1>1, <2>2 DEF Failures
      <3>2. <<p, n>> \in Spare
        BY <1>0, <1>1, <1>7, <3>1 DEF Spare
      <3>3. <<p, n>> \notin Spare'
        BY <1>0, <1>1, <1>5, <2>2 DEF Spare
      <3> QED BY <3>2, <3>3
    <2> QED BY <1>0, <1>1, <2>1, <2>2
  <1> QED BY <1>2, <1>5, <1>6, <1>7

LEMMA CheckLockKeeps == ASSUME LockoutInv, NEW p \in Process, CheckLock(p) PROVE LockoutInv'
  <1> USE DEF LockoutInv
  <1>1. /\ attempt[p] = "idle" /\ ~ IsLocked(p) /\ Step(p, "checked")
        /\ UNCHANGED <<up, outages, count, timed, blocked, fallback, guesses, tries>>
    BY DEF CheckLock
  <1>2. /\ attempt' \in [Process -> {"idle", "checked", "expire", "block"}]
        /\ attempt'[p] = "checked" /\ \A q \in Process : q # p => attempt'[q] = attempt[q]
    BY <1>1, StepFits
  <1>3. LockTypes'
    BY <1>1, <1>2 DEF LockTypes
  <1>4. CheckedIsUnlocked'
    BY <1>1, <1>2 DEF CheckedIsUnlocked, IsLocked
  <1>5. Spare' \subseteq Spare /\ Left' = Left
    BY <1>1 DEF Spare, Left
  <1>6. PastChecks' \subseteq PastChecks
    BY <1>1, <1>2 DEF PastChecks, PastCheck, IsLocked
  <1>7. Left' <= Left
    BY <1>5, Sizes
  <1> QED BY <1>1, <1>3, <1>4, <1>5, <1>6, <1>7, NothingTried

LEMMA WrongKeeps == ASSUME LockoutInv, NEW p \in Process, WrongPassword(p) PROVE LockoutInv'
  <1> USE DEF LockoutInv
  <1>1. /\ attempt[p] = "checked" /\ guesses' = guesses + 1 /\ UNCHANGED <<up, outages, timed, blocked>>
        /\ ~ fallback[p].locked
    BY DEF WrongPassword, Guess, CheckedIsUnlocked
  <1>0. Threshold \in Nat /\ Threshold >= 1 /\ count \in Nat /\ guesses + 1 \in Nat /\ up \in BOOLEAN
    BY LockoutAssumption DEF LockTypes
  <1>2. CASE up
    <2>1. PICK s \in {"idle", "expire", "block"} :
            /\ Step(p, s) /\ (count = 0 => s = "expire") /\ (count # 0 => s # "expire")
      <3>1. PICK s : /\ Step(p, s)
                     /\ s = CASE count = 0 -> "expire"
                              [] count # 0 /\ count + 1 >= Threshold -> "block"
                              [] OTHER -> "idle"
        BY <1>2 DEF WrongPassword
      <3>2. (count = 0 => s = "expire") /\ (count # 0 => s \in {"idle", "block"})
        BY <3>1
      <3> QED BY <3>1, <3>2
    <2>2. count' = count + 1 /\ UNCHANGED fallback
      BY <1>2 DEF WrongPassword
    <2>3. /\ attempt' \in [Process -> {"idle", "checked", "expire", "block"}]
          /\ attempt'[p] = s /\ \A q \in Process : q # p => attempt'[q] = attempt[q]
      BY <2>1, StepFits
    <2>4. LockTypes'
      BY <1>0, <1>1, <2>2, <2>3 DEF LockTypes
    <2>5. CheckedIsUnlocked'
      BY <2>1, <2>2, <2>3 DEF CheckedIsUnlocked
    <2>6. Spare' \subseteq Spare
      BY <2>2 DEF Spare
    <2>7. p \in PastChecks
      BY <1>1, <1>2 DEF PastChecks, PastCheck
    <2>8. PastChecks' \subseteq PastChecks
      BY <1>1, <2>3, <2>7 DEF PastChecks, PastCheck
    <2>9. CASE count < Threshold - 1
      <3>1. Left = Threshold - 1 - count /\ Left' = Threshold - 1 - (count + 1)
        BY <1>0, <2>2, <2>9 DEF Left
      <3> QED BY <1>0, <1>1, <2>4, <2>5, <2>6, <2>8, <2>9, <3>1, OneTried
    <2>10. CASE count >= Threshold - 1
      <3>1. Left = 0 /\ Left' = 0
        BY <1>0, <2>2, <2>10 DEF Left
      <3>2. s = "block" \/ (s = "expire" /\ Threshold = 1)
        <4>1. CASE count = 0
          BY <1>0, <2>1, <2>10, <4>1
        <4>2. CASE count # 0
          <5>1. count + 1 >= Threshold
            BY <1>0, <2>10
          <5>2. Step(p, "block")
            BY <1>2, <4>2, <5>1 DEF WrongPassword
          <5> QED BY <2>3, <5>2, StepFits
        <4> QED BY <4>1, <4>2
      <3>3. p \notin PastChecks'
        BY <2>3, <3>2 DEF PastChecks, PastCheck
      <3> QED BY <1>1, <2>4, <2>5, <2>6, <2>7, <2>8, <3>1, <3>3, OneTried
    <2> QED BY <1>0, <2>9, <2>10
  <1>3. CASE ~ up
    <2>1. FallbackBump(p) /\ Step(p, "idle") /\ UNCHANGED count
      BY <1>3 DEF WrongPassword
    <2>2. /\ attempt' \in [Process -> {"idle", "checked", "expire", "block"}]
          /\ attempt'[p] = "idle" /\ \A q \in Process : q # p => attempt'[q] = attempt[q]
      BY <2>1, StepFits
    <2>3. LockTypes'
      BY <1>0, <1>1, <2>1, <2>2, BumpFits DEF LockTypes
    <2>4. CheckedIsUnlocked'
      BY <2>1, <2>2, BumpFits DEF CheckedIsUnlocked
    <2>5. PastChecks' \subseteq PastChecks /\ Left' = Left
      BY <1>1, <1>3, <2>1 DEF PastChecks, Left
    <2>6. Left' <= Left
      BY <2>5, Sizes
    <2> QED BY <1>1, <2>1, <2>3, <2>4, <2>5, <2>6, BumpFits, OneTried
  <1> QED BY <1>2, <1>3

\* The second command of a failed login, for Redis or for the process itself.
LEMMA CommandKeeps ==
  ASSUME LockoutInv, NEW p \in Process, StartWindow(p) \/ Block(p)
  PROVE LockoutInv'
  <1> USE DEF LockoutInv
  <1>1. PICK s \in {"idle", "block"} :
          /\ Step(p, s) /\ UNCHANGED <<up, outages, count, guesses>>
          /\ \/ up /\ UNCHANGED fallback
             \/ ~ up /\ FallbackBump(p)
          /\ \/ attempt[p] = "expire" /\ UNCHANGED blocked /\ (up => (s = "idle" => Threshold # 1))
             \/ attempt[p] = "block" /\ (up => blocked') /\ (~ up => UNCHANGED blocked)
    <2>1. CASE StartWindow(p)
      <3>1. CASE up /\ Threshold = 1
        BY <2>1, <3>1 DEF StartWindow
      <3>2. CASE ~ (up /\ Threshold = 1)
        BY <2>1, <3>2 DEF StartWindow
      <3> QED BY <3>1, <3>2
    <2>2. CASE Block(p)
      BY <2>2 DEF Block
    <2> QED BY <2>1, <2>2
  <1>2. /\ attempt' \in [Process -> {"idle", "checked", "expire", "block"}]
        /\ attempt'[p] = s /\ \A q \in Process : q # p => attempt'[q] = attempt[q]
    BY <1>1, StepFits
  <1>3. /\ fallback' \in [Process -> [attempts : Nat, locked : BOOLEAN]] /\ Spare' \subseteq Spare
        /\ \A q \in Process : q # p => fallback'[q] = fallback[q]
    <2>1. CASE UNCHANGED fallback
      BY <2>1 DEF Spare, LockTypes
    <2> QED BY <1>1, <2>1, BumpFits
  <1>4. blocked' \in BOOLEAN /\ (blocked => blocked')
    <2>1. blocked' \in BOOLEAN
      BY DEF StartWindow, Block, LockTypes
    <2> QED BY <1>1, <2>1
  <1>5. LockTypes'
    BY <1>1, <1>2, <1>3, <1>4 DEF LockTypes
  <1>6. CheckedIsUnlocked'
    BY <1>2, <1>3 DEF CheckedIsUnlocked
  <1>7. PastChecks' \subseteq PastChecks
    BY <1>1, <1>2, <1>4 DEF PastChecks, PastCheck
  <1>8. Left' <= Left
    BY <1>1, Sizes DEF Left
  <1> QED BY <1>1, <1>3, <1>5, <1>6, <1>7, <1>8, NothingTried

\* A counter is given up: the guesses count again from none.
LEMMA GivenUpKeeps ==
  ASSUME LockoutInv,
         \/ RedisLapses
         \/ \E p \in Process : RightPassword(p) \/ FallbackLapses(p) \/ ProcessRestarts(p)
  PROVE LockoutInv'
  <1> USE DEF LockoutInv
  <1>1. guesses' = 0 /\ UNCHANGED <<up, outages>>
    BY DEF RedisLapses, RightPassword, FallbackLapses, ProcessRestarts
  <1>2. /\ Clear \in [attempts : Nat, locked : BOOLEAN] /\ ~ Clear.locked
        /\ \A q \in [attempts : Nat, locked : BOOLEAN] :
             /\ [q EXCEPT !.attempts = 0] \in [attempts : Nat, locked : BOOLEAN]
             /\ [q EXCEPT !.attempts = 0].locked = q.locked
             /\ [q EXCEPT !.locked = FALSE] \in [attempts : Nat, locked : BOOLEAN]
             /\ ~ [q EXCEPT !.locked = FALSE].locked
    BY DEF Clear
  <1>3. CASE RedisLapses
    <2>1. /\ count' \in Nat /\ blocked' \in BOOLEAN /\ UNCHANGED <<fallback, attempt>>
      <3>1. (count' = 0 \/ count' = count) /\ UNCHANGED <<fallback, attempt>>
        BY <1>3 DEF RedisLapses
      <3>2. blocked' = FALSE \/ blocked' = blocked
        BY <1>3 DEF RedisLapses
      <3>3. blocked' \in BOOLEAN
        BY <3>2 DEF LockTypes
      <3> QED BY <3>1, <3>3 DEF LockTypes
    <2>2. LockTypes'
      BY <1>1, <2>1 DEF LockTypes
    <2>3. CheckedIsUnlocked'
      BY <2>1 DEF CheckedIsUnlocked
    <2> QED BY <1>1, <2>2, <2>3, StartAgainNext
  <1>4. CASE \E p \in Process : RightPassword(p) \/ ProcessRestarts(p)
    <2>1. PICK p \in Process : RightPassword(p) \/ ProcessRestarts(p)
      BY <1>4
    <2>2. /\ fallback' = [fallback EXCEPT ![p] = Clear] /\ Step(p, "idle")
      BY <2>1 DEF RightPassword, ProcessRestarts, Step
    <2>3. count' \in Nat /\ blocked' \in BOOLEAN
      <3>1. count' = 0 \/ count' = count
        BY <2>1 DEF RightPassword, ProcessRestarts
      <3>2. blocked' = FALSE \/ blocked' = blocked
        BY <2>1 DEF RightPassword, ProcessRestarts
      <3>3. blocked' \in BOOLEAN
        BY <3>2 DEF LockTypes
      <3> QED BY <3>1, <3>3 DEF LockTypes
    <2>4. /\ attempt' \in [Process -> {"idle", "checked", "expire", "block"}]
          /\ attempt'[p] = "idle" /\ \A q \in Process : q # p => attempt'[q] = attempt[q]
      BY <2>2, StepFits
    <2>5. /\ fallback' \in [Process -> [attempts : Nat, locked : BOOLEAN]]
          /\ \A q \in Process : q # p => fallback'[q] = fallback[q]
      BY <1>2, <2>2 DEF LockTypes
    <2>6. LockTypes'
      BY <1>1, <2>3, <2>4, <2>5 DEF LockTypes
    <2>7. CheckedIsUnlocked'
      BY <2>4, <2>5 DEF CheckedIsUnlocked
    <2> QED BY <1>1, <2>6, <2>7, StartAgainNext
  <1>5. CASE \E p \in Process : FallbackLapses(p)
    <2>1. PICK p \in Process : FallbackLapses(p)
      BY <1>5
    <2>2. PICK q \in [attempts : Nat, locked : BOOLEAN] : q = fallback[p]
      BY DEF LockTypes
    <2>3. PICK r \in [attempts : Nat, locked : BOOLEAN] :
            /\ fallback' = [fallback EXCEPT ![p] = r] /\ (~ q.locked => ~ r.locked)
      <3>1. CASE fallback' = [fallback EXCEPT ![p].attempts = 0]
        <4>1. fallback' = [fallback EXCEPT ![p] = [q EXCEPT !.attempts = 0]]
          BY <2>2, <3>1
        <4> QED BY <1>2, <4>1
      <3>2. CASE fallback' = [fallback EXCEPT ![p].locked = FALSE]
        <4>1. fallback' = [fallback EXCEPT ![p] = [q EXCEPT !.locked = FALSE]]
          BY <2>2, <3>2
        <4> QED BY <1>2, <4>1
      <3> QED BY <2>1, <3>1, <3>2 DEF FallbackLapses
    <2>4. UNCHANGED <<count, blocked, attempt>>
      BY <2>1 DEF FallbackLapses
    <2>5. /\ fallback' \in [Process -> [attempts : Nat, locked : BOOLEAN]] /\ fallback'[p] = r
          /\ \A d \in Process : d # p => fallback'[d] = fallback[d]
      BY <2>3 DEF LockTypes
    <2>6. LockTypes'
      BY <1>1, <2>4, <2>5 DEF LockTypes
    <2>7. CheckedIsUnlocked'
      BY <2>2, <2>3, <2>4, <2>5 DEF CheckedIsUnlocked
    <2> QED BY <1>1, <2>6, <2>7, StartAgainNext
  <1> QED BY <1>3, <1>4, <1>5

\* Redis goes and comes back: each return lets the logins past their checks guess once more.
LEMMA OutageKeeps == ASSUME LockoutInv, RedisFalls \/ RedisReturns PROVE LockoutInv'
  <1> USE DEF LockoutInv
  <1>0. /\ UNCHANGED <<count, blocked, fallback, attempt, guesses>> /\ outages \in Nat /\ guesses \in Nat
    BY DEF RedisFalls, RedisReturns, counters, LockTypes
  <1>1. LockTypes'
    <2>1. up' = TRUE \/ up' = FALSE
      BY DEF RedisFalls, RedisReturns
    <2>2. up' \in BOOLEAN /\ blocked' \in BOOLEAN
      BY <1>0, <2>1 DEF LockTypes
    <2>3. outages' \in Nat
      BY <1>0 DEF RedisFalls, RedisReturns
    <2> QED BY <1>0, <2>2, <2>3 DEF LockTypes
  <1>2. CheckedIsUnlocked' /\ Spare' = Spare /\ Left' = Left
    BY <1>0 DEF CheckedIsUnlocked, Spare, Left
  <1>3. PICK n \in Nat : n = Cardinality(Process)
    BY Sizes
  <1>4. n * (outages + 1) = n * outages + n /\ n * outages \in Nat /\ n * Threshold \in Nat
    BY <1>0, <1>3, LockoutAssumption
  <1>5. CASE RedisFalls
    <2>1. up /\ ~ up' /\ outages' = outages + 1
      BY <1>5 DEF RedisFalls
    <2>2. Allowed' = Allowed
      BY <1>0, <1>3, <1>4, <2>1, LockoutAssumption DEF Allowed
    <2>3. Cardinality(PastChecks') = 0
      <3>1. PastChecks' = {}
        BY <2>1 DEF PastChecks
      <3> QED BY <3>1, FS_EmptySet
    <2> QED BY <1>0, <1>1, <1>2, <2>2, <2>3, Sizes DEF WithinBudget
  <1>6. CASE RedisReturns
    <2>1. ~ up /\ up' /\ outages' = outages
      BY <1>6 DEF RedisReturns
    <2>2. Allowed' = Allowed + n
      BY <1>0, <1>3, <1>4, <2>1, LockoutAssumption DEF Allowed
    <2>3. Cardinality(PastChecks) = 0
      <3>1. PastChecks = {}
        BY <2>1 DEF PastChecks
      <3> QED BY <3>1, FS_EmptySet
    <2>4. Cardinality(PastChecks') \in Nat /\ Cardinality(PastChecks') <= n
      BY <1>1, <1>3, SizesNext
    <2> QED BY <1>0, <1>1, <1>2, <2>2, <2>3, <2>4, Sizes DEF WithinBudget
  <1> QED BY <1>5, <1>6

LEMMA LockoutStart == LockoutInit => LockoutInv
  <1> SUFFICES ASSUME LockoutInit PROVE LockoutInv
    OBVIOUS
  <1>1. LockTypes /\ CheckedIsUnlocked
    BY DEF LockoutInit, LockTypes, CheckedIsUnlocked, Clear
  <1> QED BY <1>1, StartAgain DEF LockoutInit, LockoutInv

LEMMA LockoutStep == ASSUME LockoutInv, LockoutNext PROVE LockoutInv'
  <1>1. CASE \E p \in Process : CheckLock(p) \/ WrongPassword(p) \/ StartWindow(p) \/ Block(p)
    BY <1>1, CheckLockKeeps, WrongKeeps, CommandKeeps
  <1>2. CASE \/ RedisLapses
             \/ \E p \in Process : RightPassword(p) \/ FallbackLapses(p) \/ ProcessRestarts(p)
    BY <1>2, GivenUpKeeps
  <1>3. CASE RedisFalls \/ RedisReturns
    BY <1>3, OutageKeeps
  <1> QED BY <1>1, <1>2, <1>3 DEF LockoutNext

LEMMA LockoutStands == ASSUME LockoutInv, UNCHANGED lockoutVars PROVE LockoutInv'
  BY DEF LockoutInv, lockoutVars, counters, LockTypes, CheckedIsUnlocked, WithinBudget, Spare, Left, PastChecks, PastCheck,
         Allowed

LEMMA LockoutBounds == LockoutInv => GuessesAreBounded
  <1> SUFFICES ASSUME LockoutInv PROVE GuessesAreBounded
    OBVIOUS
  <1>1. PICK n \in Nat : n = Cardinality(Process)
    BY Sizes DEF LockoutInv
  <1>2. guesses \in Nat /\ outages \in Nat /\ Threshold \in Nat /\ Threshold >= 1
    BY LockoutAssumption DEF LockoutInv, LockTypes
  <1>3. /\ (n + 1) * Threshold = n * Threshold + Threshold /\ n * (outages + 1) = n * outages + n
        /\ n * Threshold \in Nat /\ n * outages \in Nat
    BY <1>2
  <1>4. Allowed <= n * Threshold + (Threshold - 1) + n * outages + n
    BY <1>1, <1>2, <1>3 DEF Allowed
  <1>5. guesses <= Allowed
    BY <1>2, Sizes DEF LockoutInv, WithinBudget
  <1> QED BY <1>1, <1>2, <1>3, <1>4, <1>5, Sizes DEF GuessesAreBounded, LockoutInv

-----------------------------------------------------------------------------
(* The revoked access tokens. *)

\* A map of a process: keys with their places, each a place of its own.
Orders == UNION {[keys -> Nat] : keys \in SUBSET Jti}
InOrder(m) ==
  /\ \A k \in DOMAIN m : m[k] \in 1..Cardinality(DOMAIN m)
  /\ \A k, l \in DOMAIN m : m[k] = m[l] => k = l

BlacklistTypes ==
  /\ mirror \in [Instance -> Orders] /\ \A p \in Instance : InOrder(mirror[p])
  /\ dead \subseteq Jti /\ \A j \in dead, k \in Jti : k < j => k \in dead
  /\ revoked \in [Jti -> SUBSET (Instance \cup {Restarted})] /\ \A j \in dead : revoked[j] = {}
  /\ revoking \in [Instance -> Jti \cup {NoJti}]

\* A live entry was revoked.
EntriesWereRevoked == \A p \in Instance : \A k \in Mirrored(p) : k \in dead \/ revoked[k] # {}
\* A process holds what it revoked, unless it was pressed for room.
OwnAreHeld == \A p \in Instance, j \in Jti : p \in revoked[j] => j \in Mirrored(p) \/ p \in pressed
\* Redis knows a revocation, refused it, or is about to be told.
RedisIsTold ==
  \A j \in Jti : revoked[j] # {} => j \in listed \/ j \in refused \/ \E r \in Instance : revoking[r] = j

BlacklistInv == BlacklistTypes /\ EntriesWereRevoked /\ OwnAreHeld /\ RedisIsTold

LEMMA SmallestOf ==
  ASSUME NEW S \in SUBSET Nat, S # {}
  PROVE \E n \in S : \A k \in S : n <= k
  <1>1. \E n \in S : \A k \in S : ~(<<k, n>> \in OpToRel(<, Nat))
    BY WFMin, NatLessThanWellFounded
  <1>2. PICK n \in S : \A k \in S : ~(<<k, n>> \in OpToRel(<, Nat))
    BY <1>1
  <1>3. ASSUME NEW k \in S PROVE n <= k
    <2>1. n \in Nat /\ k \in Nat
      OBVIOUS
    <2>2. ~(k < n)
      BY <1>2, <2>1, Zenon DEF OpToRel
    <2> QED BY <2>1, <2>2
  <1> QED BY <1>3

\* The keys of a map are finitely many.
LEMMA OrderKinds ==
  ASSUME NEW m \in Orders
  PROVE /\ DOMAIN m \subseteq Jti /\ m \in [DOMAIN m -> Nat] /\ IsFiniteSet(DOMAIN m)
        /\ Cardinality(DOMAIN m) \in Nat /\ \A k \in DOMAIN m : k \in Nat /\ m[k] \in Nat
  <1>1. PICK keys \in SUBSET Jti : m \in [keys -> Nat]
    BY DEF Orders
  <1>2. DOMAIN m \subseteq Jti /\ m \in [DOMAIN m -> Nat]
    BY <1>1
  <1>3. IsFiniteSet(DOMAIN m)
    BY <1>2, BlacklistAssumption, FS_Subset
  <1>4. Cardinality(DOMAIN m) \in Nat
    BY <1>3, FS_CardinalityType
  <1> QED BY <1>2, <1>3, <1>4, BlacklistAssumption

\* Removing entries leaves the others in their order.
LEMMA KeepFits ==
  ASSUME NEW m \in Orders, InOrder(m), NEW keys \in SUBSET DOMAIN m
  PROVE Keep(m, keys) \in Orders /\ DOMAIN Keep(m, keys) = keys /\ InOrder(Keep(m, keys))
  <1> DEFINE Upto(k) == {l \in keys : m[l] <= m[k]}
  <1>0. DOMAIN m \subseteq Jti /\ IsFiniteSet(keys) /\ \A k \in keys : m[k] \in Nat
    BY OrderKinds, FS_Subset
  <1>1. ASSUME NEW k \in keys
        PROVE /\ IsFiniteSet(Upto(k)) /\ k \in Upto(k) /\ Upto(k) \in SUBSET keys
              /\ Cardinality(Upto(k)) \in Nat /\ Cardinality(Upto(k)) >= 1 /\ Cardinality(keys) \in Nat
              /\ Cardinality(Upto(k)) <= Cardinality(keys)
    <2>1. k \in Upto(k) /\ Upto(k) \in SUBSET keys
      BY <1>0
    <2>2. IsFiniteSet(Upto(k)) /\ Cardinality(Upto(k)) <= Cardinality(keys)
      BY <1>0, <2>1, FS_Subset
    <2>3. Cardinality(Upto(k)) \in Nat /\ Cardinality(keys) \in Nat
      BY <1>0, <2>2, FS_CardinalityType
    <2>4. Cardinality(Upto(k)) # 0
      BY <2>1, <2>2, FS_EmptySet
    <2> QED BY <2>1, <2>2, <2>3, <2>4
  <1>2. ASSUME NEW k \in keys, NEW l \in keys, m[k] < m[l] PROVE Cardinality(Upto(k)) # Cardinality(Upto(l))
    <2>1. Upto(k) \in SUBSET Upto(l) /\ l \in Upto(l) /\ l \notin Upto(k)
      BY <1>0, <1>2
    <2>2. Cardinality(Upto(k)) + 1 <= Cardinality(Upto(l))
      BY <1>1, <2>1, Smaller
    <2>3. Cardinality(Upto(k)) \in Nat /\ Cardinality(Upto(l)) \in Nat
      BY <1>1
    <2> HIDE DEF Upto
    <2> QED BY <2>2, <2>3
  <1>3. Keep(m, keys) = [k \in keys |-> Cardinality(Upto(k))]
    BY DEF Keep
  <1> HIDE DEF Upto
  <1>4. Keep(m, keys) \in [keys -> Nat] /\ \A k \in keys : Keep(m, keys)[k] = Cardinality(Upto(k))
    BY <1>1, <1>3
  <1>5. Keep(m, keys) \in Orders /\ DOMAIN Keep(m, keys) = keys
    BY <1>0, <1>4 DEF Orders
  <1>6. \A k \in keys : Keep(m, keys)[k] \in 1..Cardinality(keys)
    BY <1>1, <1>4
  <1>7. ASSUME NEW k \in keys, NEW l \in keys, Keep(m, keys)[k] = Keep(m, keys)[l] PROVE k = l
    <2>1. Cardinality(Upto(k)) = Cardinality(Upto(l))
      BY <1>4, <1>7
    <2>2. m[k] = m[l]
      BY <1>0, <1>2, <2>1
    <2> QED BY <2>2 DEF InOrder
  <1> QED BY <1>5, <1>6, <1>7 DEF InOrder

\* A new entry comes last.
LEMMA InsertFits ==
  ASSUME NEW m \in Orders, InOrder(m), NEW j \in Jti, j \notin DOMAIN m
  PROVE Inserted(m, j) \in Orders /\ DOMAIN Inserted(m, j) = DOMAIN m \cup {j} /\ InOrder(Inserted(m, j))
  <1>0. DOMAIN m \subseteq Jti /\ IsFiniteSet(DOMAIN m) /\ \A k \in DOMAIN m : m[k] \in Nat
    BY OrderKinds
  <1>1. PICK n \in Nat : n = Cardinality(DOMAIN m)
    BY OrderKinds
  <1>2. Cardinality(DOMAIN m \cup {j}) = n + 1
    BY <1>0, <1>1, FS_AddElement
  <1>3. PICK keys \in SUBSET Jti : keys = DOMAIN m \cup {j}
    BY <1>0
  <1>4. Inserted(m, j) = [k \in keys |-> IF k = j THEN n + 1 ELSE m[k]]
    BY <1>1, <1>3 DEF Inserted
  <1>5. /\ Inserted(m, j) \in [keys -> Nat] /\ Inserted(m, j)[j] = n + 1
        /\ \A k \in DOMAIN m : Inserted(m, j)[k] = m[k]
    BY <1>0, <1>3, <1>4
  <1>6. \A k \in DOMAIN m : m[k] \in 1..n
    BY <1>1 DEF InOrder
  <1>7. \A k \in keys : Inserted(m, j)[k] \in 1..(n + 1)
    BY <1>0, <1>3, <1>5, <1>6
  <1>8. \A k, l \in keys : Inserted(m, j)[k] = Inserted(m, j)[l] => k = l
    BY <1>0, <1>3, <1>5, <1>6 DEF InOrder
  <1>9. DOMAIN Inserted(m, j) = keys
    BY <1>4
  <1> QED BY <1>2, <1>3, <1>5, <1>7, <1>8, <1>9 DEF Orders, InOrder

\* What a full map gives up has lapsed, or the process is pressed.
LEMMA EvictFits ==
  ASSUME NEW m \in Orders, InOrder(m), Cardinality(DOMAIN m) >= MirrorCap,
         \A j \in dead, k \in Jti : k < j => k \in dead
  PROVE \E k \in DOMAIN m : EvictOne(m) = Without(m, k) /\ (k \in dead \/ Presses(m))
  <1> DEFINE scanned == {k \in DOMAIN m : m[k] <= ScanLimit}
             lapsed == scanned \cap dead
             oldest == CHOOSE k \in lapsed : \A l \in lapsed : m[k] <= m[l]
             soonest == CHOOSE k \in scanned : \A l \in scanned : k <= l
  <1>0. /\ DOMAIN m \subseteq Jti /\ IsFiniteSet(DOMAIN m) /\ \A k \in DOMAIN m : k \in Nat /\ m[k] \in Nat
        /\ m \in [DOMAIN m -> Nat] /\ ScanLimit \in Nat /\ ScanLimit >= 1 /\ MirrorCap >= 1 /\ MirrorCap \in Nat
    BY OrderKinds, BlacklistAssumption
  <1>1. EvictOne(m) = Without(m, IF lapsed # {} THEN oldest ELSE soonest)
    BY DEF EvictOne
  <1>2. CASE lapsed # {}
    <2>1. PICK places \in SUBSET Nat : places = {m[k] : k \in lapsed}
      BY <1>0
    <2>2. \E n \in places : \A k \in places : n <= k
      <3>1. places # {}
        BY <1>2, <2>1
      <3> QED BY <3>1, SmallestOf
    <2>3. \E k \in lapsed : \A l \in lapsed : m[k] <= m[l]
      BY <2>1, <2>2
    <2>4. oldest \in lapsed
      BY <2>3
    <2> QED BY <1>1, <1>2, <2>4
  <1>3. CASE lapsed = {}
    <2>1. scanned # {}
      <3>1. PICK n \in Nat : n = Cardinality(DOMAIN m) /\ n >= 1
        BY <1>0, OrderKinds
      <3>2. IsFiniteSet(2..n) /\ Cardinality(2..n) = n - 1
        BY <3>1, FS_Interval
      <3>3. (\A k \in DOMAIN m : m[k] \in 1..n) /\ \A k, l \in DOMAIN m : m[k] = m[l] => k = l
        BY <3>1 DEF InOrder
      <3>4. m \notin [DOMAIN m -> 2..n]
        BY <1>0, <3>1, <3>2, <3>3, FS_PigeonHole
      <3>5. \E k \in DOMAIN m : m[k] \notin 2..n
        BY <1>0, <3>4
      <3>6. PICK k \in DOMAIN m : m[k] = 1
        BY <1>0, <3>1, <3>3, <3>5
      <3> QED BY <1>0, <3>6
    <2>2. \E k \in scanned : \A l \in scanned : k <= l
      <3>1. scanned \in SUBSET Nat
        BY <1>0
      <3> QED BY <2>1, <3>1, SmallestOf
    <2>3. soonest \in scanned
      BY <2>2
    <2>4. EvictOne(m) = Without(m, soonest)
      BY <1>1, <1>3
    <2>5. soonest \notin dead
      BY <1>3, <2>3
    <2>6. \A k \in DOMAIN m : m[k] <= ScanLimit => Alive(k)
      BY <1>3 DEF Alive
    <2>7. PICK s \in scanned : s = soonest
      BY <2>3
    <2> HIDE DEF soonest, oldest
    <2>8. Presses(m)
      <3>1. CASE \A k \in DOMAIN m : Alive(k)
        BY <3>1 DEF Presses
      <3>2. CASE \E k \in DOMAIN m : ~ Alive(k)
        <4>1. PICK k \in DOMAIN m : k \in dead
          BY <3>2 DEF Alive
        <4>2. ~ (m[k] <= ScanLimit)
          BY <1>3, <4>1
        <4>3. s \in DOMAIN m /\ m[s] <= ScanLimit /\ s \notin dead
          BY <2>5, <2>7
        <4>4. m[s] < m[k]
          BY <1>0, <4>2, <4>3
        <4>5. ~ (s < k) /\ s # k
          BY <1>0, <4>1, <4>3
        <4>6. k < s
          BY <1>0, <4>3, <4>5
        <4> QED BY <2>6, <4>3, <4>4, <4>6 DEF Presses
      <3> QED BY <3>1, <3>2
    <2> QED BY <2>3, <2>4, <2>8
  <1> QED BY <1>2, <1>3

LEMMA BlacklistStart == BlacklistInit => BlacklistInv
  <1> SUFFICES ASSUME BlacklistInit PROVE BlacklistInv
    OBVIOUS
  <1> USE DEF BlacklistInit
  <1>1. NoEntry \in Orders /\ DOMAIN NoEntry = {} /\ InOrder(NoEntry)
    BY DEF Orders, NoEntry, InOrder
  <1>2. BlacklistTypes
    BY <1>1 DEF BlacklistTypes
  <1>3. EntriesWereRevoked /\ OwnAreHeld /\ RedisIsTold
    BY <1>1 DEF EntriesWereRevoked, OwnAreHeld, RedisIsTold, Mirrored
  <1> QED BY <1>2, <1>3 DEF BlacklistInv

LEMMA RevokeKeeps == ASSUME BlacklistInv, NEW p \in Instance, NEW j \in Jti, Revoke(p, j) PROVE BlacklistInv'
  <1> USE DEF BlacklistInv
  <1>1. PICK due \in BOOLEAN : LET m == Swept(mirror[p], due) IN
          /\ mirror' = [mirror EXCEPT ![p] = MirrorRevocation(m, j)]
          /\ pressed' = IF Presses(m) THEN pressed \cup {p} ELSE pressed
    BY DEF Revoke
  <1>2. /\ revoking[p] = NoJti /\ revoked[j] = {} /\ j \notin dead
        /\ revoking' = [revoking EXCEPT ![p] = j] /\ revoked' = [revoked EXCEPT ![j] = revoked[j] \cup {p}]
        /\ UNCHANGED <<reachable, listed, dead, refused>>
    BY DEF Revoke, Alive
  <1>3. mirror[p] \in Orders /\ InOrder(mirror[p])
    BY DEF BlacklistTypes
  <1>4. PICK m \in Orders : /\ m = Swept(mirror[p], due) /\ InOrder(m)
                            /\ DOMAIN m \subseteq DOMAIN mirror[p] /\ DOMAIN mirror[p] \subseteq DOMAIN m \cup dead
    <2>1. CASE due
      <3>1. Swept(mirror[p], due) = Keep(mirror[p], DOMAIN mirror[p] \ dead)
        BY <2>1 DEF Swept
      <3> QED BY <1>3, <3>1, KeepFits
    <2>2. CASE ~ due
      BY <1>3, <2>2 DEF Swept
    <2> QED BY <2>1, <2>2
  <1>5. PICK n \in Orders : /\ n = (IF Cardinality(DOMAIN m) >= MirrorCap THEN EvictOne(m) ELSE m) /\ InOrder(n)
                            /\ DOMAIN n \subseteq DOMAIN m
                            /\ DOMAIN m \subseteq DOMAIN n \cup dead \/ Presses(m)
    <2>1. CASE Cardinality(DOMAIN m) >= MirrorCap
      <3>1. PICK k \in DOMAIN m : EvictOne(m) = Without(m, k) /\ (k \in dead \/ Presses(m))
        BY <1>4, <2>1, EvictFits DEF BlacklistTypes
      <3>2. EvictOne(m) = Keep(m, DOMAIN m \ {k})
        BY <3>1 DEF Without
      <3>3. /\ EvictOne(m) \in Orders /\ InOrder(EvictOne(m)) /\ DOMAIN EvictOne(m) = DOMAIN m \ {k}
        BY <1>4, <3>2, KeepFits
      <3> QED BY <2>1, <3>1, <3>3
    <2>2. CASE ~ (Cardinality(DOMAIN m) >= MirrorCap)
      BY <1>4, <2>2
    <2> QED BY <2>1, <2>2
  <1>6. j \notin DOMAIN n
    <2>1. j \notin DOMAIN mirror[p]
      BY <1>2 DEF EntriesWereRevoked, Mirrored
    <2> QED BY <1>4, <1>5, <2>1
  <1>7. PICK q \in Orders : q = MirrorRevocation(m, j) /\ DOMAIN q = DOMAIN n \cup {j} /\ InOrder(q)
    <2>1. MirrorRevocation(m, j) = Inserted(n, j)
      BY <1>5 DEF MirrorRevocation
    <2> QED BY <1>5, <1>6, <2>1, InsertFits
  <1>8. /\ mirror' = [mirror EXCEPT ![p] = q]
        /\ pressed' = IF Presses(m) THEN pressed \cup {p} ELSE pressed
    BY <1>1, <1>4, <1>7
  <1>9. /\ mirror' \in [Instance -> Orders] /\ mirror'[p] = q
        /\ \A r \in Instance : r # p => mirror'[r] = mirror[r]
    BY <1>8 DEF BlacklistTypes
  <1>10. /\ revoked' \in [Jti -> SUBSET (Instance \cup {Restarted})] /\ revoked'[j] = {p}
         /\ \A k \in Jti : k # j => revoked'[k] = revoked[k]
    BY <1>2 DEF BlacklistTypes
  <1>11. /\ revoking' \in [Instance -> Jti \cup {NoJti}] /\ revoking'[p] = j
         /\ \A r \in Instance : r # p => revoking'[r] = revoking[r]
    BY <1>2 DEF BlacklistTypes
  <1>12. BlacklistTypes'
    <2>1. \A r \in Instance : InOrder(mirror'[r])
      BY <1>7, <1>9 DEF BlacklistTypes
    <2>2. \A k \in dead' : revoked'[k] = {}
      BY <1>2, <1>10 DEF BlacklistTypes
    <2> QED BY <1>2, <1>9, <1>10, <1>11, <2>1, <2>2 DEF BlacklistTypes
  <1>13. EntriesWereRevoked'
    <2>1. ASSUME NEW r \in Instance, NEW k \in DOMAIN mirror'[r] PROVE k \in dead' \/ revoked'[k] # {}
      <3>1. CASE k = j
        BY <1>10, <3>1
      <3>2. CASE k # j
        <4>1. k \in DOMAIN mirror[r]
          BY <1>4, <1>5, <1>7, <1>9, <2>1, <3>2
        <4>2. k \in Jti
          BY <4>1, OrderKinds DEF BlacklistTypes
        <4> QED BY <1>2, <1>10, <3>2, <4>1, <4>2 DEF EntriesWereRevoked, Mirrored
      <3> QED BY <3>1, <3>2
    <2> QED BY <2>1 DEF EntriesWereRevoked, Mirrored
  <1>14. OwnAreHeld'
    <2>1. ASSUME NEW r \in Instance, NEW k \in Jti, r \in revoked'[k] PROVE k \in DOMAIN mirror'[r] \/ r \in pressed'
      <3>1. CASE k = j
        BY <1>7, <1>9, <1>10, <2>1, <3>1
      <3>2. CASE k # j
        <4>1. r \in revoked[k] /\ k \notin dead
          BY <1>10, <2>1, <3>2 DEF BlacklistTypes
        <4>2. k \in DOMAIN mirror[r] \/ r \in pressed
          BY <4>1 DEF OwnAreHeld, Mirrored
        <4>3. CASE r = p
          BY <1>4, <1>5, <1>7, <1>8, <1>9, <4>1, <4>2, <4>3
        <4>4. CASE r # p
          BY <1>8, <1>9, <4>2, <4>4
        <4> QED BY <4>3, <4>4
      <3> QED BY <3>1, <3>2
    <2> QED BY <2>1 DEF OwnAreHeld, Mirrored
  <1>15. RedisIsTold'
    <2>1. ASSUME NEW k \in Jti, revoked'[k] # {}
          PROVE k \in listed' \/ k \in refused' \/ \E r \in Instance : revoking'[r] = k
      <3>1. CASE k = j
        BY <1>11, <3>1
      <3>2. CASE k # j
        <4>1. k \in listed \/ k \in refused \/ \E r \in Instance : revoking[r] = k
          BY <1>10, <2>1, <3>2 DEF RedisIsTold
        <4>2. \A r \in Instance : revoking[r] = k => revoking'[r] = k
          BY <1>2, <1>11, BlacklistAssumption DEF NoJti
        <4> QED BY <1>2, <4>1, <4>2
      <3> QED BY <3>1, <3>2
    <2> QED BY <2>1 DEF RedisIsTold
  <1> QED BY <1>12, <1>13, <1>14, <1>15

LEMMA ListKeeps == ASSUME BlacklistInv, NEW p \in Instance, List(p) PROVE BlacklistInv'
  <1> USE DEF BlacklistInv
  <1>1. PICK j \in Jti : j = revoking[p]
    BY DEF List, BlacklistTypes
  <1>2. /\ listed \subseteq listed' /\ refused \subseteq refused' /\ j \in listed' \cup refused'
        /\ revoking' = [revoking EXCEPT ![p] = NoJti] /\ UNCHANGED <<mirror, dead, revoked, pressed>>
    BY <1>1 DEF List
  <1>3. /\ revoking' \in [Instance -> Jti \cup {NoJti}]
        /\ \A r \in Instance : r # p => revoking'[r] = revoking[r]
    BY <1>2 DEF BlacklistTypes
  <1>4. BlacklistTypes'
    BY <1>2, <1>3 DEF BlacklistTypes
  <1>5. EntriesWereRevoked' /\ OwnAreHeld'
    BY <1>2 DEF EntriesWereRevoked, OwnAreHeld, Mirrored
  <1>6. RedisIsTold'
    BY <1>1, <1>2, <1>3 DEF RedisIsTold
  <1> QED BY <1>4, <1>5, <1>6

LEMMA LapsedKeeps == ASSUME BlacklistInv, NEW p \in Instance, NEW j \in Jti, DropLapsed(p, j) PROVE BlacklistInv'
  <1> USE DEF BlacklistInv
  <1>1. /\ j \in dead /\ mirror' = [mirror EXCEPT ![p] = Keep(mirror[p], DOMAIN mirror[p] \ {j})]
        /\ UNCHANGED <<reachable, listed, dead, revoking, revoked, refused, pressed>>
    BY DEF DropLapsed, Alive, Without
  <1>2. mirror[p] \in Orders /\ InOrder(mirror[p])
    BY DEF BlacklistTypes
  <1>3. PICK q \in Orders : /\ q = Keep(mirror[p], DOMAIN mirror[p] \ {j})
                            /\ DOMAIN q = DOMAIN mirror[p] \ {j} /\ InOrder(q)
    BY <1>2, KeepFits
  <1>4. /\ mirror' \in [Instance -> Orders] /\ mirror'[p] = q
        /\ \A r \in Instance : r # p => mirror'[r] = mirror[r]
    BY <1>1, <1>3 DEF BlacklistTypes
  <1>5. BlacklistTypes'
    <2>1. \A r \in Instance : InOrder(mirror'[r])
      BY <1>3, <1>4 DEF BlacklistTypes
    <2> QED BY <1>1, <1>4, <2>1 DEF BlacklistTypes
  <1>6. \A r \in Instance : DOMAIN mirror'[r] \subseteq DOMAIN mirror[r] /\ DOMAIN mirror[r] \subseteq DOMAIN mirror'[r] \cup {j}
    BY <1>3, <1>4
  <1>7. EntriesWereRevoked'
    BY <1>1, <1>6 DEF EntriesWereRevoked, Mirrored
  <1>8. OwnAreHeld'
    <2>1. ASSUME NEW r \in Instance, NEW k \in Jti, r \in revoked'[k] PROVE k \in DOMAIN mirror'[r] \/ r \in pressed'
      <3>1. r \in revoked[k] /\ k # j
        BY <1>1, <2>1 DEF BlacklistTypes
      <3>2. k \in DOMAIN mirror[r] \/ r \in pressed
        BY <3>1 DEF OwnAreHeld, Mirrored
      <3> QED BY <1>1, <1>6, <3>1, <3>2
    <2> QED BY <2>1 DEF OwnAreHeld, Mirrored
  <1>9. RedisIsTold'
    BY <1>1 DEF RedisIsTold
  <1> QED BY <1>5, <1>7, <1>8, <1>9

LEMMA ExpiryKeeps == ASSUME BlacklistInv, NEW j \in Jti, TokenExpires(j) PROVE BlacklistInv'
  <1> USE DEF BlacklistInv
  <1>1. /\ j \notin dead /\ (\A k \in Jti : k < j => k \in dead) /\ \A p \in Instance : revoking[p] # j
        /\ dead' = dead \cup {j} /\ listed' = listed \ {j} /\ refused' = refused \ {j}
        /\ revoked' = [revoked EXCEPT ![j] = {}] /\ UNCHANGED <<reachable, mirror, revoking, pressed>>
    BY DEF TokenExpires, Alive
  <1>2. /\ revoked' \in [Jti -> SUBSET (Instance \cup {Restarted})] /\ revoked'[j] = {}
        /\ \A k \in Jti : k # j => revoked'[k] = revoked[k]
    BY <1>1 DEF BlacklistTypes
  <1>3. BlacklistTypes'
    <2>1. dead' \subseteq Jti /\ \A i \in dead', k \in Jti : k < i => k \in dead'
      BY <1>1 DEF BlacklistTypes
    <2>2. \A k \in dead' : revoked'[k] = {}
      BY <1>1, <1>2 DEF BlacklistTypes
    <2> QED BY <1>1, <1>2, <2>1, <2>2 DEF BlacklistTypes
  <1>4. EntriesWereRevoked'
    <2>1. ASSUME NEW r \in Instance, NEW k \in DOMAIN mirror[r] PROVE k \in dead' \/ revoked'[k] # {}
      <3>1. k \in Jti
        BY OrderKinds DEF BlacklistTypes
      <3> QED BY <1>1, <1>2, <3>1 DEF EntriesWereRevoked, Mirrored
    <2> QED BY <1>1, <2>1 DEF EntriesWereRevoked, Mirrored
  <1>5. OwnAreHeld'
    BY <1>1, <1>2 DEF OwnAreHeld, Mirrored
  <1>6. RedisIsTold'
    BY <1>1, <1>2 DEF RedisIsTold
  <1> QED BY <1>3, <1>4, <1>5, <1>6

LEMMA RestartKeeps == ASSUME BlacklistInv, NEW p \in Instance, InstanceRestarts(p) PROVE BlacklistInv'
  <1> USE DEF BlacklistInv
  <1>1. /\ mirror' = [mirror EXCEPT ![p] = NoEntry] /\ pressed' = pressed \ {p}
        /\ refused \subseteq refused' /\ (revoking[p] # NoJti => revoking[p] \in refused')
        /\ revoking' = [revoking EXCEPT ![p] = NoJti] /\ UNCHANGED <<reachable, listed, dead>>
        /\ revoked' = [j \in Jti |-> IF p \in revoked[j] THEN (revoked[j] \ {p}) \cup {Restarted} ELSE revoked[j]]
    BY DEF InstanceRestarts
  <1>2. NoEntry \in Orders /\ DOMAIN NoEntry = {} /\ InOrder(NoEntry)
    BY DEF Orders, NoEntry, InOrder
  <1>3. /\ mirror' \in [Instance -> Orders] /\ mirror'[p] = NoEntry
        /\ \A r \in Instance : r # p => mirror'[r] = mirror[r]
    BY <1>1, <1>2 DEF BlacklistTypes
  <1>4. ASSUME NEW j \in Jti
        PROVE /\ revoked'[j] \subseteq Instance \cup {Restarted} /\ (revoked'[j] = {} <=> revoked[j] = {})
              /\ p \notin revoked'[j] /\ \A r \in Instance : r \in revoked'[j] => r \in revoked[j]
    <2>1. revoked'[j] = IF p \in revoked[j] THEN (revoked[j] \ {p}) \cup {Restarted} ELSE revoked[j]
      BY <1>1
    <2>2. revoked[j] \subseteq Instance \cup {Restarted} /\ Restarted \notin Instance
      BY BlacklistAssumption DEF BlacklistTypes
    <2>3. CASE p \in revoked[j]
      BY <2>1, <2>2, <2>3
    <2>4. CASE p \notin revoked[j]
      BY <2>1, <2>2, <2>4
    <2> QED BY <2>3, <2>4
  <1>5. revoked' \in [Jti -> SUBSET (Instance \cup {Restarted})]
    <2>1. PICK f : f = [j \in Jti |-> IF p \in revoked[j] THEN (revoked[j] \ {p}) \cup {Restarted} ELSE revoked[j]]
      OBVIOUS
    <2>2. revoked' = f /\ f = [j \in Jti |-> f[j]]
      BY <1>1, <2>1
    <2>3. \A j \in Jti : f[j] \in SUBSET (Instance \cup {Restarted})
      BY <1>4, <2>2
    <2> QED BY <2>2, <2>3
  <1>6. /\ revoking' \in [Instance -> Jti \cup {NoJti}]
        /\ \A r \in Instance : r # p => revoking'[r] = revoking[r]
    BY <1>1 DEF BlacklistTypes
  <1>7. BlacklistTypes'
    <2>1. \A r \in Instance : InOrder(mirror'[r])
      BY <1>2, <1>3 DEF BlacklistTypes
    <2>2. \A k \in dead' : revoked'[k] = {}
      BY <1>1, <1>4 DEF BlacklistTypes
    <2> QED BY <1>1, <1>3, <1>5, <1>6, <2>1, <2>2 DEF BlacklistTypes
  <1>8. EntriesWereRevoked'
    <2>1. ASSUME NEW r \in Instance, NEW k \in DOMAIN mirror'[r] PROVE k \in dead' \/ revoked'[k] # {}
      <3>1. r # p /\ k \in DOMAIN mirror[r]
        BY <1>2, <1>3, <2>1
      <3>2. k \in Jti
        BY <3>1, OrderKinds DEF BlacklistTypes
      <3> QED BY <1>1, <1>4, <3>1, <3>2 DEF EntriesWereRevoked, Mirrored
    <2> QED BY <2>1 DEF EntriesWereRevoked, Mirrored
  <1>9. OwnAreHeld'
    BY <1>1, <1>3, <1>4 DEF OwnAreHeld, Mirrored
  <1>10. RedisIsTold'
    <2>1. ASSUME NEW k \in Jti, revoked'[k] # {}
          PROVE k \in listed' \/ k \in refused' \/ \E r \in Instance : revoking'[r] = k
      <3>1. k \in listed \/ k \in refused \/ \E r \in Instance : revoking[r] = k
        BY <1>4, <2>1 DEF RedisIsTold
      <3>2. revoking[p] = k => k \in refused'
        BY <1>1, BlacklistAssumption DEF NoJti
      <3> QED BY <1>1, <1>6, <3>1, <3>2
    <2> QED BY <2>1 DEF RedisIsTold
  <1> QED BY <1>7, <1>8, <1>9, <1>10

LEMMA BlacklistStands == ASSUME BlacklistInv, UNCHANGED <<listed, mirror, dead, revoking, revoked, refused, pressed>> PROVE BlacklistInv'
  BY DEF BlacklistInv, BlacklistTypes, EntriesWereRevoked, OwnAreHeld, RedisIsTold, Mirrored

LEMMA BlacklistStep == ASSUME BlacklistInv, BlacklistNext PROVE BlacklistInv'
  <1>1. CASE \E p \in Instance : List(p) \/ InstanceRestarts(p)
    BY <1>1, ListKeeps, RestartKeeps
  <1>2. CASE \E p \in Instance, j \in Jti : Revoke(p, j) \/ DropLapsed(p, j)
    BY <1>2, RevokeKeeps, LapsedKeeps
  <1>3. CASE \E j \in Jti : TokenExpires(j)
    BY <1>3, ExpiryKeeps
  <1>4. CASE RedisToggles
    BY <1>4, BlacklistStands DEF RedisToggles
  <1> QED BY <1>1, <1>2, <1>3, <1>4 DEF BlacklistNext

LEMMA BlacklistSound == BlacklistInv => RevokedStaysRevoked
  <1> SUFFICES ASSUME BlacklistInv, NEW p \in Instance, NEW j \in Jti, revoked[j] # {}, Accepts(p, j)
               PROVE /\ p \notin revoked[j] \/ p \in pressed
                     /\ ~reachable \/ j \in refused \/ \E r \in Instance : revoking[r] = j
    BY DEF RevokedStaysRevoked
  <1>1. j \notin dead
    BY DEF BlacklistInv, BlacklistTypes
  <1>2. j \notin Mirrored(p) /\ ~(reachable /\ j \in listed)
    BY <1>1 DEF Accepts, Alive
  <1> QED BY <1>2 DEF BlacklistInv, OwnAreHeld, RedisIsTold

-----------------------------------------------------------------------------
(* What these come to. *)

LEMMA SectionsHeld == Spec => [](part = "sections" => SectionInv)
  <1>1. Init => (part = "sections" => SectionInv)
    BY SectionsStart DEF Init
  <1>2. (part = "sections" => SectionInv) /\ [Next]_vars => (part = "sections" => SectionInv)'
    BY SectionsStep, SectionsStand DEF Next, vars
  <1> QED BY <1>1, <1>2, PTL DEF Spec

LEMMA ProfileHeld == Spec => [](part = "profile" => ProfileInv)
  <1>1. Init => (part = "profile" => ProfileInv)
    BY ProfileStart DEF Init
  <1>2. (part = "profile" => ProfileInv) /\ [Next]_vars => (part = "profile" => ProfileInv)'
    BY ProfileStep, ProfileStands DEF Next, vars
  <1> QED BY <1>1, <1>2, PTL DEF Spec

LEMMA BookmarksHeld == Spec => [](part = "bookmarks" => BookmarkInv)
  <1>1. Init => (part = "bookmarks" => BookmarkInv)
    BY BookmarksStart DEF Init
  <1>2. (part = "bookmarks" => BookmarkInv) /\ [Next]_vars => (part = "bookmarks" => BookmarkInv)'
    BY BookmarksStep, BookmarksStand DEF Next, vars
  <1> QED BY <1>1, <1>2, PTL DEF Spec

LEMMA AdminHeld == Spec => [](part = "admin" => AdminInv)
  <1>1. Init => (part = "admin" => AdminInv)
    BY AdminStart DEF Init
  <1>2. (part = "admin" => AdminInv) /\ [Next]_vars => (part = "admin" => AdminInv)'
    BY AdminStep, AdminRest DEF Next, vars
  <1> QED BY <1>1, <1>2, PTL DEF Spec

LEMMA LockoutHeld == Spec => [](part = "lockout" => LockoutInv)
  <1>1. Init => (part = "lockout" => LockoutInv)
    BY LockoutStart DEF Init
  <1>2. (part = "lockout" => LockoutInv) /\ [Next]_vars => (part = "lockout" => LockoutInv)'
    BY LockoutStep, LockoutStands DEF Next, vars
  <1> QED BY <1>1, <1>2, PTL DEF Spec

LEMMA BlacklistHeld == Spec => [](part = "blacklist" => BlacklistInv)
  <1>1. Init => (part = "blacklist" => BlacklistInv)
    BY BlacklistStart DEF Init
  <1>2. (part = "blacklist" => BlacklistInv) /\ [Next]_vars => (part = "blacklist" => BlacklistInv)'
    BY BlacklistStep, BlacklistStands DEF Next, vars, blacklistVars
  <1> QED BY <1>1, <1>2, PTL DEF Spec

\* What a user keeps on the platform is as the user left it, through requests that overlap: an
\* edit replaces the text its client saw, what was deleted stays deleted, every endorsement is in
\* the count, a part of the profile is what it was last answered to be, and a bookmark is what the
\* last request about it wished, each but for the races on record (OwnRowsHold).
THEOREM RowsAreTheirUsers == Spec => []OwnRowsHold
  <1>1. (/\ part = "sections" => SectionInv
         /\ part = "profile" => ProfileInv
         /\ part = "bookmarks" => BookmarkInv)
        => OwnRowsHold
    BY SectionsSound, ProfileSound, BookmarksSound DEF OwnRowsHold
  <1> QED BY <1>1, SectionsHeld, ProfileHeld, BookmarksHeld, PTL

\* What administrators are told they did is done and is audited as it was, and no mail goes to an
\* address that was barred before it was asked for (AdministrationHolds).
THEOREM AdministrationIsAudited == Spec => []AdministrationHolds
  <1>1. (part = "admin" => AdminInv) => AdministrationHolds
    BY AuditHolds DEF AdministrationHolds
  <1> QED BY <1>1, AdminHeld, PTL

\* However the processes share the attempts and Redis goes and comes back, the wrong passwords
\* tried before a counter is given up stay within a constant; and a process honours each revocation
\* it made until it restarts or is pressed for room, every process each that Redis took while
\* Redis answers (BarsHold).
THEOREM BarsStay == Spec => []BarsHold
  <1>1. (part = "lockout" => LockoutInv) /\ (part = "blacklist" => BlacklistInv) => BarsHold
    BY LockoutBounds, BlacklistSound DEF BarsHold
  <1> QED BY <1>1, LockoutHeld, BlacklistHeld, PTL
=============================================================================
