----------------------------- MODULE ServicesProofs -----------------------------
(***************************************************************************)
(* Theorems about Services: what a client keeps of the server - the copy a *)
(* delta builds, the answer to a repeated POST, a browser's posting, the   *)
(* news of the scout - is what the server holds, and what the backend says *)
(* of the AI service and of its own errors is what happened. Then lemmas   *)
(* for RecordProofs: letters, the worker that reads scans, the builder's   *)
(* documents, notices, limits and vectors.                                 *)
(*                                                                         *)
(* As in AccountProofs, each part is proved on its own, from the invariant *)
(* of that part, because the others rest.                                  *)
(***************************************************************************)
EXTENDS Services, FiniteSetTheorems, WellFoundedInduction, TLAPS

-----------------------------------------------------------------------------
(* Finite sets and numbers. *)

LEMMA SubsetIsSmaller ==
  ASSUME NEW U, IsFiniteSet(U), NEW R \in SUBSET U
  PROVE /\ IsFiniteSet(R) /\ Cardinality(R) \in Nat /\ Cardinality(U) \in Nat /\ Cardinality(R) <= Cardinality(U)
        /\ \A x \in U : x \notin R => Cardinality(R) + 1 <= Cardinality(U)
  <1>1. IsFiniteSet(R) /\ Cardinality(R) <= Cardinality(U) /\ (Cardinality(U) = Cardinality(R) => U = R)
    BY FS_Subset
  <1>2. Cardinality(R) \in Nat /\ Cardinality(U) \in Nat
    BY <1>1, FS_CardinalityType
  <1> QED BY <1>1, <1>2

LEMMA SmallestOf ==
  ASSUME NEW U \in SUBSET Nat, U # {}
  PROVE \E n \in U : \A k \in U : n <= k
  <1>1. \E n \in U : \A k \in U : ~(<<k, n>> \in OpToRel(<, Nat))
    BY WFMin, NatLessThanWellFounded, Zenon
  <1>2. PICK n \in U : \A k \in U : ~(<<k, n>> \in OpToRel(<, Nat))
    BY <1>1, Zenon
  <1>3. ASSUME NEW k \in U PROVE n <= k
    <2>1. n \in Nat /\ k \in Nat
      OBVIOUS
    <2>2. ~(k < n)
      BY <1>2, <2>1, Zenon DEF OpToRel
    <2> QED BY <2>1, <2>2
  <1> QED BY <1>3

-----------------------------------------------------------------------------
(* A delta, page by page. *)

RowVersion == [at : Nat, change : Nat, deleted : BOOLEAN]
DeltaPoint == [at : Nat, id : Nat]
Question == [pc : {"asked"}, serverTime : Nat, since : Nat, cursor : DeltaPoint]
DeltaPage ==
  [pc : {"read", "answered"}, serverTime : Nat, upserts : SUBSET Id, deletes : SUBSET Id,
   content : UNION {[rs -> Nat] : rs \in SUBSET Id}, next : DeltaPoint]

SyncTypes ==
  /\ row \in [Id -> RowVersion] /\ writing \in [Id -> RowVersion]
  /\ clock \in Nat /\ changes \in Nat /\ watermark \in Nat /\ passed \in Nat
  /\ cursor \in DeltaPoint /\ late \subseteq Id
  /\ request \in {NoCall0} \cup Question \cup DeltaPage

\* A watermark is the serverTime of a query that ran; a call asks from where the client stands.
CallStands ==
  /\ watermark <= passed
  /\ request.pc = "asked" => request.since = watermark /\ request.cursor \in {cursor, Start}
  /\ request.pc \in {"read", "answered"} => request.serverTime <= passed

AsItIs(r) == IF row[r].deleted THEN Nothing ELSE row[r].change
PlaceOf(r) == Position(r, row[r])

\* What a client that stands there has gone past.
Drained(r, mark, point) == row[r].at # 0 /\ (row[r].at <= mark \/ ~Before(point, PlaceOf(r)))
CopyKeepsUp == \A r \in Id \ late : Drained(r, watermark, cursor) => local[r] = AsItIs(r)

\* Where it will stand with the page it is sent, and what it will have then.
NextMark == IF request.next = Start THEN request.serverTime ELSE watermark
Delivered(r) == IF r \in request.deletes THEN Nothing ELSE IF r \in request.upserts THEN request.content[r] ELSE local[r]
PageKeepsUp ==
  request.pc \in {"read", "answered"} =>
    \A r \in Id \ late : Drained(r, NextMark, request.next) => Delivered(r) = AsItIs(r)

SyncInv == SyncTypes /\ CallStands /\ CopyKeepsUp /\ PageKeepsUp

\* The rows of a set that come before one.
RowsBefore(rs, r) == {s \in rs : Before(PlaceOf(s), PlaceOf(r))}

\* (at, id) is a strict total order of the rows.
LEMMA PlacesAreOrdered ==
  ASSUME SyncTypes
  PROVE /\ \A r \in Id : PlaceOf(r) \in DeltaPoint /\ PlaceOf(r).at = row[r].at /\ row[r].at \in Nat
        /\ \A r \in Id : ~ Before(PlaceOf(r), PlaceOf(r))
        /\ \A r, s \in Id : r # s => Before(PlaceOf(r), PlaceOf(s)) \/ Before(PlaceOf(s), PlaceOf(r))
        /\ \A p, q, o \in DeltaPoint : Before(p, q) /\ Before(q, o) => Before(p, o)
        /\ \A p, q, o \in DeltaPoint : Before(p, q) /\ ~Before(o, q) => Before(p, o)
        /\ \A r \in Id : row[r].at # 0 => Before(Start, PlaceOf(r)) /\ PlaceOf(r) # Start
  <1>1. \A r \in Id : r \in Nat /\ PlaceOf(r) = [at |-> row[r].at, id |-> r] /\ row[r].at \in Nat
    BY SyncAssumption DEF SyncTypes, RowVersion, PlaceOf, Position
  <1>2. \A r \in Id : PlaceOf(r) \in DeltaPoint /\ PlaceOf(r).at = row[r].at /\ PlaceOf(r).id = r
    BY <1>1 DEF DeltaPoint
  <1>3. \A r \in Id : ~ Before(PlaceOf(r), PlaceOf(r))
    BY <1>1, <1>2 DEF Before
  <1>4. \A r, s \in Id : r # s => Before(PlaceOf(r), PlaceOf(s)) \/ Before(PlaceOf(s), PlaceOf(r))
    BY <1>1, <1>2 DEF Before
  <1>5. \A p, q, o \in DeltaPoint : Before(p, q) /\ Before(q, o) => Before(p, o)
    BY DEF Before, DeltaPoint
  <1>6. \A p, q, o \in DeltaPoint : Before(p, q) /\ ~Before(o, q) => Before(p, o)
    BY DEF Before, DeltaPoint
  <1>7. \A r \in Id : row[r].at # 0 => Before(Start, PlaceOf(r)) /\ PlaceOf(r) # Start
    BY <1>1, <1>2 DEF Before, Start
  <1> QED BY <1>1, <1>2, <1>3, <1>4, <1>5, <1>6, <1>7

LEMMA AheadGrows ==
  ASSUME SyncTypes, NEW rs \in SUBSET Id
  PROVE /\ IsFiniteSet(rs) /\ Cardinality(rs) \in Nat
        /\ \A r \in rs : Cardinality(RowsBefore(rs, r)) \in Nat /\ Cardinality(RowsBefore(rs, r)) <= Cardinality(rs)
        /\ \A r, s \in rs : Before(PlaceOf(r), PlaceOf(s)) => Cardinality(RowsBefore(rs, r)) + 1 <= Cardinality(RowsBefore(rs, s))
  <1>1. IsFiniteSet(rs)
    BY SyncAssumption, FS_Subset, Zenon
  <1>2. ASSUME NEW r \in rs
        PROVE /\ RowsBefore(rs, r) \in SUBSET rs /\ IsFiniteSet(RowsBefore(rs, r))
              /\ Cardinality(RowsBefore(rs, r)) \in Nat /\ Cardinality(RowsBefore(rs, r)) <= Cardinality(rs)
    <2>1. RowsBefore(rs, r) \in SUBSET rs
      BY DEF RowsBefore
    <2> QED BY <1>1, <2>1, SubsetIsSmaller
  <1>3. ASSUME NEW r \in rs, NEW s \in rs, Before(PlaceOf(r), PlaceOf(s))
        PROVE Cardinality(RowsBefore(rs, r)) + 1 <= Cardinality(RowsBefore(rs, s))
    <2>1. RowsBefore(rs, r) \in SUBSET RowsBefore(rs, s)
      <3> SUFFICES ASSUME NEW t \in rs, Before(PlaceOf(t), PlaceOf(r)) PROVE Before(PlaceOf(t), PlaceOf(s))
        BY DEF RowsBefore
      <3> QED BY <1>3, PlacesAreOrdered
    <2>2. r \in RowsBefore(rs, s) /\ r \notin RowsBefore(rs, r)
      BY <1>3, PlacesAreOrdered DEF RowsBefore
    <2> QED BY <1>2, <2>1, <2>2, SubsetIsSmaller
  <1> QED BY <1>1, <1>2, <1>3, FS_CardinalityType

\* A set of rows has a first, and a last.
LEMMA RowsEnd ==
  ASSUME SyncTypes, NEW rs \in SUBSET Id, rs # {}
  PROVE /\ \E r \in rs : RowsBefore(rs, r) = {}
        /\ \E r \in rs : \A s \in rs : ~ Before(PlaceOf(r), PlaceOf(s))
  <1>1. \E r \in rs : RowsBefore(rs, r) = {}
    <2>1. PICK R : R = {Cardinality(RowsBefore(rs, r)) : r \in rs}
      BY Zenon
    <2>2. R \in SUBSET Nat /\ R # {}
      BY <2>1, AheadGrows, Zenon
    <2>n. PICK n \in R : \A k \in R : n <= k
      BY <2>2, SmallestOf
    <2>3. PICK r \in rs : \A s \in rs : Cardinality(RowsBefore(rs, r)) <= Cardinality(RowsBefore(rs, s))
      <3>1. PICK r \in rs : n = Cardinality(RowsBefore(rs, r))
        BY <2>1
      <3> QED BY <2>1, <2>n, <3>1
    <2>4. ASSUME NEW s \in RowsBefore(rs, r) PROVE FALSE
      <3>1. s \in rs /\ Before(PlaceOf(s), PlaceOf(r))
        BY <2>4 DEF RowsBefore
      <3>2. Cardinality(RowsBefore(rs, s)) + 1 <= Cardinality(RowsBefore(rs, r)) /\ Cardinality(RowsBefore(rs, s)) \in Nat
            /\ Cardinality(RowsBefore(rs, r)) \in Nat
        BY <3>1, AheadGrows, Zenon
      <3> QED BY <2>3, <3>1, <3>2
    <2> QED BY <2>4
  <1>2. \E r \in rs : \A s \in rs : ~ Before(PlaceOf(r), PlaceOf(s))
    <2>1. PICK R : R = {Cardinality(rs) - Cardinality(RowsBefore(rs, r)) : r \in rs}
      BY Zenon
    <2>2. R \in SUBSET Nat /\ R # {}
      <3>1. ASSUME NEW r \in rs PROVE Cardinality(rs) - Cardinality(RowsBefore(rs, r)) \in Nat
        <4>1. Cardinality(rs) \in Nat /\ Cardinality(RowsBefore(rs, r)) \in Nat /\ Cardinality(RowsBefore(rs, r)) <= Cardinality(rs)
          BY AheadGrows
        <4> QED BY <4>1
      <3> QED BY <2>1, <3>1
    <2>n. PICK n \in R : \A k \in R : n <= k
      BY <2>2, SmallestOf
    <2>3. PICK r \in rs : \A s \in rs :
            Cardinality(rs) - Cardinality(RowsBefore(rs, r)) <= Cardinality(rs) - Cardinality(RowsBefore(rs, s))
      <3>1. PICK r \in rs : n = Cardinality(rs) - Cardinality(RowsBefore(rs, r))
        BY <2>1
      <3> QED BY <2>1, <2>n, <3>1, Zenon
    <2>4. ASSUME NEW s \in rs, Before(PlaceOf(r), PlaceOf(s)) PROVE FALSE
      <3>1. Cardinality(RowsBefore(rs, r)) + 1 <= Cardinality(RowsBefore(rs, s)) /\ Cardinality(RowsBefore(rs, s)) \in Nat
            /\ Cardinality(RowsBefore(rs, r)) \in Nat /\ Cardinality(rs) \in Nat
        BY <2>4, AheadGrows
      <3> QED BY <2>3, <3>1
    <2> QED BY <2>4
  <1> QED BY <1>1, <1>2

\* A page is the front of what changed, is empty only if nothing was, and LastOf is its end.
LEMMA PagesAreFronts ==
  ASSUME SyncTypes, NEW rs \in SUBSET Id
  PROVE /\ FirstPage(rs) \subseteq rs
        /\ \A r \in FirstPage(rs), s \in rs : Before(PlaceOf(s), PlaceOf(r)) => s \in FirstPage(rs)
        /\ rs # {} => FirstPage(rs) # {}
        /\ FirstPage(rs) # {} => LastOf(FirstPage(rs)) \in FirstPage(rs)
                                /\ \A s \in FirstPage(rs) : ~ Before(PlaceOf(LastOf(FirstPage(rs))), PlaceOf(s))
  <1>1. FirstPage(rs) = {r \in rs : Cardinality(RowsBefore(rs, r)) < PageLimit}
    BY DEF FirstPage, RowsBefore, PlaceOf
  <1>2. ASSUME NEW r \in FirstPage(rs), NEW s \in rs, Before(PlaceOf(s), PlaceOf(r)) PROVE s \in FirstPage(rs)
    <2>1. /\ Cardinality(RowsBefore(rs, s)) + 1 <= Cardinality(RowsBefore(rs, r)) /\ Cardinality(RowsBefore(rs, s)) \in Nat
          /\ Cardinality(RowsBefore(rs, r)) \in Nat /\ Cardinality(RowsBefore(rs, r)) < PageLimit /\ PageLimit \in Nat
      BY <1>1, <1>2, AheadGrows, SyncAssumption, Zenon
    <2>2. Cardinality(RowsBefore(rs, s)) < PageLimit
      BY <2>1
    <2> QED BY <1>1, <2>2
  <1>3. rs # {} => FirstPage(rs) # {}
    <2> SUFFICES ASSUME rs # {} PROVE FirstPage(rs) # {}
      OBVIOUS
    <2>1. PICK r \in rs : RowsBefore(rs, r) = {}
      BY RowsEnd
    <2>2. Cardinality(RowsBefore(rs, r)) = 0 /\ 0 < PageLimit
      BY <2>1, FS_EmptySet, SyncAssumption
    <2> QED BY <1>1, <2>1, <2>2
  <1>4. FirstPage(rs) # {} => LastOf(FirstPage(rs)) \in FirstPage(rs)
                             /\ \A s \in FirstPage(rs) : ~ Before(PlaceOf(LastOf(FirstPage(rs))), PlaceOf(s))
    <2> SUFFICES ASSUME FirstPage(rs) # {}
                 PROVE LastOf(FirstPage(rs)) \in FirstPage(rs)
                       /\ \A s \in FirstPage(rs) : ~ Before(PlaceOf(LastOf(FirstPage(rs))), PlaceOf(s))
      OBVIOUS
    <2>1. PICK page : page = FirstPage(rs)
      OBVIOUS
    <2>2. \E r \in page : \A s \in page : ~ Before(PlaceOf(r), PlaceOf(s))
      BY <1>1, <2>1, RowsEnd
    <2>3. LastOf(page) \in page /\ \A s \in page : ~ Before(PlaceOf(LastOf(page)), PlaceOf(s))
      BY <2>2 DEF LastOf, PlaceOf
    <2> QED BY <2>1, <2>3
  <1> QED BY <1>1, <1>2, <1>3, <1>4

LEMMA SyncStart == SyncInit => SyncInv
  <1> SUFFICES ASSUME SyncInit PROVE SyncInv
    OBVIOUS
  <1>1. NoVersion \in RowVersion /\ NoVersion.at = 0 /\ Start \in DeltaPoint /\ NoCall0.pc = "idle"
    BY DEF NoVersion, RowVersion, Nothing, Start, DeltaPoint, NoCall0
  <1>2. SyncTypes
    BY <1>1 DEF SyncInit, SyncTypes
  <1>3. \A r \in Id : row[r].at = 0
    BY <1>1 DEF SyncInit
  <1> QED BY <1>1, <1>2, <1>3 DEF SyncInit, SyncInv, CallStands, CopyKeepsUp, PageKeepsUp, Drained

\* What kind of record a call is.
LEMMA CallKinds ==
  ASSUME SyncTypes
  PROVE /\ request.pc \in {"idle", "asked", "read", "answered"}
        /\ request.pc = "idle" => request = NoCall0
        /\ request.pc = "asked" => request \in Question
        /\ request.pc \in {"read", "answered"} => request \in DeltaPage
  BY DEF SyncTypes, NoCall0, Question, DeltaPage

\* A row is as it was, or unsaid, or late: nothing is promised that was not.
LEMMA RowsApart ==
  ASSUME SyncInv, SyncTypes', late' \subseteq Id, UNCHANGED <<request, client>>, passed' = passed,
         \A r \in Id : \/ r \in late'
                       \/ row'[r].at = 0
                       \/ row'[r] = row[r] /\ r \notin late
                       \/ /\ row'[r].at > passed /\ Before(cursor, Position(r, row'[r]))
                          /\ request.pc \in {"read", "answered"} => Before(request.next, Position(r, row'[r]))
  PROVE SyncInv'
  <1> USE DEF SyncInv
  <1>1. UNCHANGED <<request, local, watermark, cursor>>
    BY DEF client
  <1>2. CallStands'
    BY <1>1 DEF CallStands
  <1>3. CopyKeepsUp'
    <2> SUFFICES ASSUME NEW r \in Id, r \notin late', row'[r].at # 0,
                        row'[r].at <= watermark \/ ~Before(cursor, Position(r, row'[r]))
                 PROVE local[r] = IF row'[r].deleted THEN Nothing ELSE row'[r].change
      BY <1>1 DEF CopyKeepsUp, Drained, AsItIs, PlaceOf
    <2>1. watermark \in Nat /\ passed \in Nat /\ watermark <= passed /\ row'[r].at \in Nat
      BY DEF SyncTypes, CallStands, RowVersion
    <2>2. row'[r] = row[r] /\ r \notin late
      BY <2>1
    <2> QED BY <2>2 DEF CopyKeepsUp, Drained, AsItIs, PlaceOf
  <1>4. PageKeepsUp'
    <2> SUFFICES ASSUME request.pc \in {"read", "answered"}, NEW r \in Id, r \notin late', row'[r].at # 0,
                        row'[r].at <= NextMark \/ ~Before(request.next, Position(r, row'[r]))
                 PROVE Delivered(r) = IF row'[r].deleted THEN Nothing ELSE row'[r].change
      BY <1>1 DEF PageKeepsUp, Drained, AsItIs, PlaceOf, NextMark, Delivered
    <2>1. NextMark \in Nat /\ NextMark <= passed /\ passed \in Nat /\ row'[r].at \in Nat
      BY CallKinds DEF SyncTypes, CallStands, RowVersion, NextMark, DeltaPage
    <2>2. row'[r] = row[r] /\ r \notin late
      BY <2>1
    <2> QED BY <2>2 DEF PageKeepsUp, Drained, AsItIs, PlaceOf
  <1> QED BY <1>2, <1>3, <1>4

LEMMA WritesKeep ==
  ASSUME SyncInv, NEW r \in Id, (\E deletes \in BOOLEAN : Write(r, deletes)) \/ RollBack(r) \/ Withdraw(r)
  PROVE SyncInv'
  <1>1. UNCHANGED <<request, client, passed, late>>
    BY DEF Write, RollBack, Withdraw
  <1>2. NoVersion \in RowVersion /\ NoVersion.at = 0
    BY DEF NoVersion, RowVersion, Nothing
  <1>3. SyncTypes'
    <2>1. CASE \E deletes \in BOOLEAN : Write(r, deletes)
      <3>1. PICK deletes \in BOOLEAN : Write(r, deletes)
        BY <2>1
      <3>2. PICK v : v = [at |-> clock, change |-> changes + 1, deleted |-> deletes]
        BY Zenon
      <3>3. v \in RowVersion
        BY <3>2 DEF SyncInv, SyncTypes, RowVersion
      <3>4. writing' = [writing EXCEPT ![r] = v] /\ changes' = changes + 1 /\ UNCHANGED <<clock, row>>
        BY <3>1, <3>2 DEF Write
      <3> QED BY <1>1, <3>3, <3>4 DEF SyncInv, SyncTypes, client
    <2>2. CASE RollBack(r)
      BY <1>1, <1>2, <2>2 DEF RollBack, SyncInv, SyncTypes, client
    <2>3. CASE Withdraw(r)
      BY <1>1, <1>2, <2>3 DEF Withdraw, SyncInv, SyncTypes, client
    <2> QED BY <2>1, <2>2, <2>3
  <1>4. \A s \in Id : row'[s].at = 0 \/ row'[s] = row[s]
    BY <1>2 DEF Write, RollBack, Withdraw, SyncInv, SyncTypes
  <1> QED BY <1>1, <1>3, <1>4, RowsApart DEF SyncTypes

LEMMA CommitKeeps == ASSUME SyncInv, NEW r \in Id, Commit(r) PROVE SyncInv'
  <1>1. /\ UNCHANGED <<clock, changes, request, client, passed>> /\ row' = [row EXCEPT ![r] = writing[r]]
        /\ writing' = [writing EXCEPT ![r] = NoVersion]
        /\ late' = IF Behind(r, writing[r]) THEN late \cup {r} ELSE late \ {r}
    BY DEF Commit
  <1>2. NoVersion \in RowVersion
    BY DEF NoVersion, RowVersion, Nothing
  <1>3. SyncTypes' /\ late' \subseteq Id
    BY <1>1, <1>2 DEF SyncInv, SyncTypes, client
  <1>4. row'[r] = writing[r] /\ \A s \in Id \ {r} : row'[s] = row[s] /\ (s \in late <=> s \in late')
    BY <1>1 DEF SyncInv, SyncTypes
  <1>5. r \notin late' =>
          /\ row'[r].at > passed /\ Before(cursor, Position(r, row'[r]))
          /\ request.pc \in {"read", "answered"} => Before(request.next, Position(r, row'[r]))
    <2>1. passed \in Nat /\ writing[r].at \in Nat
      BY DEF SyncInv, SyncTypes, RowVersion
    <2>2. r \notin late' => ~ Behind(r, writing[r])
      BY <1>1
    <2> SUFFICES ASSUME r \notin late'
                 PROVE /\ row'[r].at > passed /\ Before(cursor, Position(r, row'[r]))
                       /\ request.pc \in {"read", "answered"} => Before(request.next, Position(r, row'[r]))
      OBVIOUS
    <2>3. /\ ~ (writing[r].at <= passed) /\ Before(cursor, Position(r, writing[r]))
          /\ request.pc \in {"read", "answered"} => Before(request.next, Position(r, writing[r]))
      BY <2>2 DEF Behind
    <2>4. writing[r].at > passed
      BY <2>1, <2>3
    <2>5. row'[r] = writing[r]
      BY <1>4
    <2> QED BY <2>3, <2>4, <2>5
  <1> QED BY <1>1, <1>3, <1>4, <1>5, RowsApart

LEMMA AskKeeps == ASSUME SyncInv, Ask PROVE SyncInv'
  <1>1. PICK c \in {cursor, Start} : request' = [pc |-> "asked", serverTime |-> clock, since |-> watermark, cursor |-> c]
    BY DEF Ask
  <1>2. UNCHANGED <<clock, row, writing, changes, late, local, watermark, cursor, passed>>
    BY DEF Ask, store, client
  <1>3. c \in DeltaPoint
    BY DEF SyncInv, SyncTypes, Start, DeltaPoint
  <1>4. /\ request' \in Question /\ request'.pc = "asked" /\ request'.since = watermark /\ request'.cursor = c
    BY <1>1, <1>3 DEF Question, SyncInv, SyncTypes
  <1> QED BY <1>1, <1>2, <1>4 DEF SyncInv, SyncTypes, CallStands, CopyKeepsUp, PageKeepsUp, Drained, AsItIs, PlaceOf

\* A page in hand is what the rows say up to its end, over what the client had up to its start.
LEMMA ReadKeeps == ASSUME SyncInv, Read PROVE SyncInv'
  <1> USE DEF SyncInv
  <1>1. PICK changed : changed = Changed(request.since, request.cursor)
    OBVIOUS
  <1>2. PICK page : page = FirstPage(changed)
    OBVIOUS
  <1>3. /\ request.pc = "asked" /\ UNCHANGED <<clock, row, writing, changes, late, local, watermark, cursor>>
        /\ request' = [pc |-> "read", serverTime |-> request.serverTime,
                       upserts |-> {r \in page : ~row[r].deleted}, deletes |-> {r \in page : row[r].deleted},
                       content |-> [r \in page |-> row[r].change],
                       next |-> IF changed = page THEN Start ELSE Position(LastOf(page), row[LastOf(page)])]
        /\ passed' = Max({passed, request.serverTime})
    BY <1>1, <1>2 DEF Read, store, client
  <1>4. request \in Question /\ request.since = watermark /\ request.cursor \in {cursor, Start}
    BY <1>3, CallKinds DEF CallStands
  <1>5. changed = {r \in Id : row[r].at > watermark /\ Before(request.cursor, PlaceOf(r))}
    BY <1>1, <1>4 DEF Changed, After, PlaceOf
  <1>6. /\ page \subseteq changed /\ \A r \in page, s \in changed : Before(PlaceOf(s), PlaceOf(r)) => s \in page
        /\ changed # page => LastOf(page) \in page /\ \A s \in page : ~ Before(PlaceOf(LastOf(page)), PlaceOf(s))
    BY <1>2, <1>5, PagesAreFronts, Zenon
  <1>7. /\ request'.pc = "read" /\ request'.serverTime = request.serverTime
        /\ request'.upserts = {r \in page : ~row[r].deleted} /\ request'.deletes = {r \in page : row[r].deleted}
        /\ request'.content = [r \in page |-> row[r].change]
        /\ request'.next = IF changed = page THEN Start ELSE PlaceOf(LastOf(page))
    BY <1>3 DEF PlaceOf
  <1>8. {passed, request.serverTime} \subseteq Nat
    BY <1>4 DEF SyncTypes, Question
  <1>9. passed' \in Nat /\ passed <= passed' /\ request.serverTime <= passed'
    <2>1. \E x \in {passed, request.serverTime} : \A y \in {passed, request.serverTime} : x >= y
      BY <1>8
    <2> QED BY <1>3, <1>8, <2>1 DEF Max
  <1>10. request' \in DeltaPage
    <2>1. request'.content \in UNION {[rs -> Nat] : rs \in SUBSET Id}
      <3>1. page \in SUBSET Id /\ \A r \in page : row[r].change \in Nat
        BY <1>5, <1>6 DEF SyncTypes, RowVersion
      <3>2. request'.content \in [page -> Nat]
        BY <1>7, <3>1
      <3> QED BY <3>1, <3>2
    <2>2. request'.next \in DeltaPoint
      <3>1. Start \in DeltaPoint
        BY DEF Start, DeltaPoint
      <3>2. changed # page => LastOf(page) \in Id
        BY <1>5, <1>6
      <3> QED BY <1>7, <3>1, <3>2, PlacesAreOrdered
    <2>3. request'.upserts \in SUBSET Id /\ request'.deletes \in SUBSET Id /\ request'.serverTime \in Nat
      BY <1>4, <1>5, <1>6, <1>7 DEF Question
    <2>4. request' = [pc |-> "read", serverTime |-> request'.serverTime, upserts |-> request'.upserts,
                      deletes |-> request'.deletes, content |-> request'.content, next |-> request'.next]
      BY <1>3, <1>7
    <2> QED BY <2>1, <2>2, <2>3, <2>4 DEF DeltaPage
  <1>11. SyncTypes'
    BY <1>3, <1>9, <1>10 DEF SyncTypes
  <1>12. CallStands'
    BY <1>3, <1>7, <1>9 DEF CallStands, SyncTypes
  <1>13. CopyKeepsUp'
    BY <1>3 DEF CopyKeepsUp, Drained, AsItIs, PlaceOf
  <1>14. PageKeepsUp'
    <2> SUFFICES ASSUME NEW r \in Id, r \notin late, row[r].at # 0,
                        row[r].at <= NextMark' \/ ~Before(request'.next, PlaceOf(r))
                 PROVE Delivered(r)' = AsItIs(r)
      BY <1>3 DEF PageKeepsUp, Drained, AsItIs, PlaceOf
    <2>1. r \in page => Delivered(r)' = AsItIs(r)
      BY <1>7 DEF Delivered, AsItIs
    <2>2. r \notin page => Delivered(r)' = local[r]
      BY <1>3, <1>7 DEF Delivered
    <2>3. r \notin changed => local[r] = AsItIs(r)
      <3> SUFFICES ASSUME r \notin changed PROVE local[r] = AsItIs(r)
        OBVIOUS
      <3>1. row[r].at \in Nat /\ watermark \in Nat
        BY DEF SyncTypes, RowVersion
      <3>2. row[r].at <= watermark \/ ~ Before(request.cursor, PlaceOf(r))
        BY <1>5, <3>1
      <3>3. row[r].at <= watermark \/ ~ Before(cursor, PlaceOf(r))
        BY <1>4, <3>2, PlacesAreOrdered
      <3> QED BY <3>3 DEF CopyKeepsUp, Drained
    <2>4. CASE r \notin changed
      BY <1>6, <2>2, <2>3, <2>4
    <2>5. CASE r \in changed /\ changed = page
      BY <2>1, <2>5
    <2>6. CASE r \in changed /\ changed # page
      <3>1. LastOf(page) \in page /\ LastOf(page) \in Id
        BY <1>5, <1>6, <2>6
      <3>2. row[LastOf(page)].at > watermark /\ watermark \in Nat /\ row[LastOf(page)].at \in Nat
        BY <1>5, <1>6, <3>1 DEF SyncTypes, RowVersion
      <3>3. request'.next = PlaceOf(LastOf(page)) /\ request'.next # Start
        BY <1>7, <2>6, <3>1, <3>2, PlacesAreOrdered
      <3>4. NextMark' = watermark
        BY <1>3, <3>3 DEF NextMark
      <3>5. row[r].at > watermark /\ row[r].at \in Nat
        BY <1>5, <2>6 DEF SyncTypes, RowVersion
      <3>6. ~ Before(PlaceOf(LastOf(page)), PlaceOf(r))
        BY <3>2, <3>3, <3>4, <3>5
      <3>7. r \in page
        BY <1>6, <2>6, <3>1, <3>6, PlacesAreOrdered
      <3> QED BY <2>1, <3>7
    <2> QED BY <2>4, <2>5, <2>6
  <1> QED BY <1>11, <1>12, <1>13, <1>14

LEMMA RespondKeeps == ASSUME SyncInv, Respond PROVE SyncInv'
  <1> USE DEF SyncInv
  <1>1. /\ request.pc = "read" /\ request \in DeltaPage
        /\ UNCHANGED <<clock, row, writing, changes, late, local, watermark, cursor, passed>>
        /\ request' = [request EXCEPT !.pc = "answered", !.serverTime = request.serverTime]
    BY CallKinds DEF Respond, ServerTime, store, client
  <1>2. /\ request' \in DeltaPage /\ request'.pc = "answered" /\ request'.serverTime = request.serverTime
        /\ request'.upserts = request.upserts /\ request'.deletes = request.deletes
        /\ request'.content = request.content /\ request'.next = request.next
    BY <1>1, Zenon DEF DeltaPage
  <1>3. SyncTypes' /\ CallStands' /\ CopyKeepsUp'
    BY <1>1, <1>2 DEF SyncTypes, CallStands, CopyKeepsUp, Drained, AsItIs, PlaceOf
  <1>4. PageKeepsUp'
    BY <1>1, <1>2 DEF PageKeepsUp, Drained, AsItIs, PlaceOf, NextMark, Delivered
  <1> QED BY <1>3, <1>4

LEMMA ApplyKeeps == ASSUME SyncInv, Apply PROVE SyncInv'
  <1> USE DEF SyncInv
  <1>1. /\ request.pc = "answered" /\ request \in DeltaPage
        /\ UNCHANGED <<clock, row, writing, changes, late, passed>>
        /\ cursor' = request.next /\ watermark' = NextMark /\ request' = NoCall0
        /\ \A r \in Id : local'[r] = Delivered(r)
    BY CallKinds DEF Apply, store, NextMark, Delivered
  <1>2. NextMark \in Nat /\ NextMark <= passed /\ NoCall0.pc = "idle" /\ request.next \in DeltaPoint
    BY <1>1 DEF NextMark, DeltaPage, SyncTypes, CallStands, NoCall0
  <1>3. SyncTypes' /\ CallStands' /\ PageKeepsUp'
    BY <1>1, <1>2 DEF SyncTypes, CallStands, PageKeepsUp
  <1>4. CopyKeepsUp'
    BY <1>1 DEF CopyKeepsUp, PageKeepsUp, Drained, AsItIs, PlaceOf
  <1> QED BY <1>3, <1>4

LEMMA QuietKeeps == ASSUME SyncInv, LoseCall \/ Reinstall \/ Tick PROVE SyncInv'
  <1> USE DEF SyncInv
  <1>0. NoCall0.pc = "idle" /\ Start \in DeltaPoint
    BY DEF NoCall0, Start, DeltaPoint
  <1>1. CASE LoseCall
    BY <1>0, <1>1 DEF LoseCall, store, client, SyncTypes, CallStands, CopyKeepsUp, PageKeepsUp, Drained, AsItIs, PlaceOf
  <1>2. CASE Reinstall
    <2>1. /\ request.pc = "idle" /\ UNCHANGED <<clock, row, writing, changes, late, request, passed>>
          /\ watermark' = 0 /\ cursor' = Start
      BY <1>2 DEF Reinstall, store
    <2>2. SyncTypes' /\ CallStands' /\ PageKeepsUp'
      BY <1>0, <2>1 DEF SyncTypes, CallStands, PageKeepsUp
    <2>3. \A r \in Id : row[r].at # 0 => ~ (row[r].at <= 0) /\ Before(Start, PlaceOf(r))
      BY PlacesAreOrdered
    <2>4. CopyKeepsUp'
      BY <2>1, <2>3 DEF CopyKeepsUp, Drained, AsItIs, PlaceOf
    <2> QED BY <2>2, <2>4
  <1>3. CASE Tick
    BY <1>3 DEF Tick, store, client, SyncTypes, CallStands, CopyKeepsUp, PageKeepsUp, Drained, AsItIs, PlaceOf,
          NextMark, Delivered
  <1> QED BY <1>1, <1>2, <1>3

LEMMA SyncStep == SyncInv /\ [SyncNext]_syncVars => SyncInv'
  <1> SUFFICES ASSUME SyncInv, [SyncNext]_syncVars PROVE SyncInv'
    OBVIOUS
  <1>1. CASE \E r \in Id : (\E deletes \in BOOLEAN : Write(r, deletes)) \/ RollBack(r) \/ Withdraw(r)
    BY <1>1, WritesKeep
  <1>2. CASE \E r \in Id : Commit(r)
    BY <1>2, CommitKeeps
  <1>3. CASE Ask
    BY <1>3, AskKeeps
  <1>4. CASE Read
    BY <1>4, ReadKeeps
  <1>5. CASE Respond
    BY <1>5, RespondKeeps
  <1>6. CASE Apply
    BY <1>6, ApplyKeeps
  <1>7. CASE LoseCall \/ Reinstall \/ Tick
    BY <1>7, QuietKeeps
  <1>8. CASE UNCHANGED syncVars
    BY <1>8 DEF syncVars, store, client, SyncInv, SyncTypes, CallStands, CopyKeepsUp, PageKeepsUp, Drained, AsItIs, PlaceOf,
          NextMark, Delivered
  <1> QED BY <1>1, <1>2, <1>3, <1>4, <1>5, <1>6, <1>7, <1>8 DEF SyncNext

LEMMA SyncSound == SyncInv => EveryChangeArrives
  <1> SUFFICES ASSUME SyncInv, NEW r \in Id \ late, row[r].at \in 1..watermark PROVE local[r] = AsItIs(r)
    BY DEF EveryChangeArrives, AsItIs
  <1>1. watermark \in Nat
    BY DEF SyncInv, SyncTypes
  <1>2. row[r].at # 0 /\ row[r].at <= watermark
    BY <1>1
  <1> QED BY <1>2 DEF SyncInv, CopyKeepsUp, Drained

-----------------------------------------------------------------------------
(* POSTs under a key. *)

PostCall == [pc : {"guard", "find", "handle", "insert", "store"}, by : Caller, opening : Opening, key : IdemKey]
Receipt == [state : {"live", "expired"}, by : Caller, opening : Opening, about : Caller \X Opening]
Filing == [by : Caller, opening : Opening, key : IdemKey]
PostAnswer ==
  [by : Caller, opening : Opening, key : IdemKey, status : {201, 400, 401, 409, 500}, about : {<<>>} \cup (Caller \X Opening)]

PostTypes ==
  /\ post \in [Call -> {NoCall} \cup PostCall] /\ kept \in [IdemKey -> {NoneKept} \cup Receipt]
  /\ filed \subseteq Filing /\ answers \subseteq PostAnswer /\ excusedKeys \subseteq IdemKey

Same(p, q) == p.by = q.by /\ p.opening = q.opening

\* A receipt speaks of an application that was filed, and so will the call about to store one.
ReceiptsAreTrue ==
  /\ \A k \in IdemKey : kept[k] # NoneKept => kept[k].about = <<kept[k].by, kept[k].opening>> /\ Applied(kept[k])
  /\ \A k \in IdemKey \ excusedKeys : kept[k].state # "expired"
  /\ \A c \in Call : post[c].pc = "store" => Applied(post[c])

OverlapsAreExcused ==
  \A c, d \in Call :
    c # d /\ post[c] # NoCall /\ post[d] # NoCall /\ Same(post[c], post[d]) => post[c].key \in excusedKeys

\* An application has its receipt, or the call that filed it is about to store one.
FiledAreReceipted ==
  \A f \in filed : f.key \in excusedKeys \/ kept[f.key] # NoneKept
                   \/ \E c \in Call : post[c].pc = "store" /\ post[c].key = f.key /\ Same(post[c], f)

\* What a call is about to file was not filed under its key, and past the check under none.
HandledAreNew ==
  \A c \in Call :
    /\ post[c].pc \in {"handle", "insert"} /\ post[c].key \notin excusedKeys =>
         \A f \in filed : Same(f, post[c]) => f.key # post[c].key
    /\ post[c].pc = "insert" /\ post[c].key \notin excusedKeys => ~ Applied(post[c])

\* What was answered stays true: "already applied" is said of what was filed under another key,
\* a refused key still serves for something else, and a server error excuses its key.
AnswerStands(a) ==
  /\ a.status = 201 => a.about = <<a.by, a.opening>> /\ Applied(a)
  /\ a.key \notin excusedKeys =>
       /\ a.status = 400 => \E f \in filed : f.by = a.by /\ f.opening = a.opening /\ f.key # a.key
       /\ a.status = 409 => kept[a.key] # NoneKept /\ ~ IsReplay(kept[a.key], a)
       /\ a.status # 500
AnswersStand == \A a \in answers : AnswerStands(a)

PostInv ==
  /\ PostTypes /\ ReceiptsAreTrue /\ OverlapsAreExcused /\ FiledAreReceipted /\ HandledAreNew
  /\ AnswersStand

LEMMA PostStart == PostsInit => PostInv
  <1> SUFFICES ASSUME PostsInit PROVE PostInv
    OBVIOUS
  <1>1. /\ filed = {} /\ answers = {} /\ excusedKeys = {}
        /\ \A k \in IdemKey : kept[k] = NoneKept
        /\ \A c \in Call : post[c] = NoCall
    BY DEF PostsInit
  <1>2. PostTypes
    BY DEF PostsInit, PostTypes
  <1>3. NoneKept.state = "none" /\ NoCall.pc = "idle"
    BY DEF NoneKept, NoCall
  <1> QED BY <1>1, <1>2, <1>3 DEF PostInv, ReceiptsAreTrue, OverlapsAreExcused, FiledAreReceipted,
        HandledAreNew, AnswersStand

\* A call in progress is a record of its own; none is taken for the absence of one.
LEMMA CallIsOne ==
  ASSUME PostTypes, NEW c \in Call, post[c].pc # "idle"
  PROVE post[c] \in PostCall /\ post[c] # NoCall
  BY DEF PostTypes, NoCall, PostCall

LEMMA CallsAreApart == \A p \in PostCall : p # NoCall /\ p.pc # "idle"
  BY DEF PostCall, NoCall

\* A call goes on and nothing else changes.
LEMMA ProceedKeeps ==
  ASSUME PostInv, NEW c \in Call, NEW pc \in {"guard", "find", "handle", "insert"}, post[c].pc \notin {"idle", "store"},
         post' = [post EXCEPT ![c].pc = pc], UNCHANGED <<filed, kept, excusedKeys, answers>>,
         pc \in {"handle", "insert"} /\ post[c].key \notin excusedKeys =>
           \A f \in filed : Same(f, post[c]) => f.key # post[c].key,
         pc = "insert" => ~ Applied(post[c])
  PROVE PostInv'
  <1> USE DEF PostInv
  <1>1. post[c] \in PostCall /\ post[c] # NoCall
    BY CallIsOne
  <1>2. PICK p : p = [post[c] EXCEPT !.pc = pc]
    BY Zenon
  <1>3. p \in PostCall /\ p.pc = pc /\ p.by = post[c].by /\ p.opening = post[c].opening /\ p.key = post[c].key
    BY <1>1, <1>2 DEF PostCall
  <1>4. post'[c] = p /\ \A d \in Call \ {c} : post'[d] = post[d]
    BY <1>2 DEF PostTypes
  <1>5. PostTypes'
    BY <1>2, <1>3 DEF PostTypes
  <1>6. \A d \in Call : /\ post'[d] # NoCall => post[d] # NoCall /\ Same(post'[d], post[d]) /\ post'[d].key = post[d].key
    BY <1>1, <1>3, <1>4 DEF Same
  <1>7. \A d \in Call : post'[d].pc = "store" <=> post[d].pc = "store"
    BY <1>3, <1>4
  <1>8. \A d \in Call : post[d].pc = "store" => post'[d] = post[d]
    BY <1>4
  <1>9. ReceiptsAreTrue'
    BY <1>7, <1>8 DEF ReceiptsAreTrue, Applied
  <1>10. OverlapsAreExcused'
    BY <1>6 DEF OverlapsAreExcused, Same
  <1>11. FiledAreReceipted'
    BY <1>7, <1>8 DEF FiledAreReceipted, Same
  <1>12. HandledAreNew'
    <2> SUFFICES ASSUME NEW d \in Call PROVE
        /\ post'[d].pc \in {"handle", "insert"} /\ post'[d].key \notin excusedKeys =>
             \A f \in filed : Same(f, post'[d]) => f.key # post'[d].key
        /\ post'[d].pc = "insert" /\ post'[d].key \notin excusedKeys => ~ Applied(post'[d])
      BY DEF HandledAreNew, Applied, Same
    <2>1. CASE d # c
      BY <1>4, <2>1 DEF HandledAreNew
    <2>2. CASE d = c
      BY <1>3, <1>4, <2>2 DEF Same, Applied
    <2> QED BY <2>1, <2>2
  <1>13. AnswersStand'
    BY DEF AnswersStand, AnswerStands, Applied, IsReplay
  <1> QED BY <1>5, <1>9, <1>10, <1>11, <1>12, <1>13

\* Receipts are only added, and those that are speak of what was filed.
ReceiptsAreAdded ==
  /\ kept' \in [IdemKey -> {NoneKept} \cup Receipt]
  /\ \A k \in IdemKey : kept[k] # NoneKept => kept'[k] = kept[k]
  /\ \A k \in IdemKey : kept[k] = NoneKept /\ kept'[k] # NoneKept =>
       kept'[k].state = "live" /\ kept'[k].about = <<kept'[k].by, kept'[k].opening>> /\ Applied(kept'[k])

\* A call ends, and leaves the receipt it owes or an excuse.
LEMMA EndKeeps ==
  ASSUME PostInv, NEW c \in Call, post[c].pc # "idle", post' = [post EXCEPT ![c] = NoCall], filed' = filed,
         excusedKeys \subseteq excusedKeys', excusedKeys' \subseteq IdemKey, ReceiptsAreAdded,
         post[c].pc = "store" => post[c].key \in excusedKeys' \/ kept'[post[c].key] # NoneKept
  PROVE /\ post' \in [Call -> {NoCall} \cup PostCall]
        /\ ReceiptsAreTrue' /\ OverlapsAreExcused' /\ FiledAreReceipted' /\ HandledAreNew'
        /\ \A a \in answers : AnswerStands(a)'
  <1> USE DEF PostInv
  <1>1. /\ post' \in [Call -> {NoCall} \cup PostCall] /\ post'[c] = NoCall
        /\ \A d \in Call \ {c} : post'[d] = post[d]
    BY DEF PostTypes
  <1>2. NoCall.pc = "idle" /\ NoneKept.state = "none"
    BY DEF NoCall, NoneKept
  <1>3. \A d \in Call : post'[d] # NoCall \/ post'[d].pc # "idle" => d # c /\ post'[d] = post[d]
    BY <1>1, <1>2
  <1>4. ReceiptsAreTrue'
    <2>1. \A k \in IdemKey : kept'[k] # NoneKept =>
            kept'[k].about = <<kept'[k].by, kept'[k].opening>> /\ Applied(kept'[k])
      BY DEF ReceiptsAreTrue, ReceiptsAreAdded
    <2>2. \A k \in IdemKey \ excusedKeys' : kept'[k].state # "expired"
      BY <1>2 DEF ReceiptsAreTrue, ReceiptsAreAdded
    <2>3. \A d \in Call : post'[d].pc = "store" => Applied(post'[d])
      BY <1>3 DEF ReceiptsAreTrue
    <2> QED BY <2>1, <2>2, <2>3 DEF ReceiptsAreTrue, Applied
  <1>5. OverlapsAreExcused'
    BY <1>3 DEF OverlapsAreExcused, Same
  <1>6. FiledAreReceipted'
    <2> SUFFICES ASSUME NEW f \in filed, f.key \notin excusedKeys', kept'[f.key] = NoneKept
                 PROVE \E d \in Call : post'[d].pc = "store" /\ post'[d].key = f.key /\ Same(post'[d], f)
      BY DEF FiledAreReceipted, Same
    <2>1. f.key \in IdemKey
      BY DEF PostTypes, Filing
    <2>2. kept[f.key] = NoneKept /\ f.key \notin excusedKeys
      BY <2>1 DEF ReceiptsAreAdded
    <2>3. PICK d \in Call : post[d].pc = "store" /\ post[d].key = f.key /\ Same(post[d], f)
      BY <2>2 DEF FiledAreReceipted
    <2>4. d # c
      BY <2>3
    <2> QED BY <1>1, <2>3, <2>4
  <1>7. HandledAreNew'
    BY <1>3 DEF HandledAreNew, Same, Applied
  <1>8. \A a \in answers : AnswerStands(a)'
    <2> SUFFICES ASSUME NEW a \in answers PROVE AnswerStands(a)'
      OBVIOUS
    <2>1. AnswerStands(a) /\ a.key \in IdemKey
      BY DEF AnswersStand, PostTypes, PostAnswer
    <2>2. kept[a.key] # NoneKept => kept'[a.key] = kept[a.key]
      BY <2>1 DEF ReceiptsAreAdded
    <2> QED BY <2>1, <2>2 DEF AnswerStands, Applied, IsReplay
  <1> QED BY <1>1, <1>4, <1>5, <1>6, <1>7, <1>8

\* The same with an answer that stands.
LEMMA AnswerKeeps ==
  ASSUME PostInv, NEW c \in Call, post[c].pc # "idle",
         NEW status \in {201, 400, 401, 409, 500}, NEW about \in {<<>>} \cup (Caller \X Opening),
         Answer(c, status, about), filed' = filed,
         excusedKeys \subseteq excusedKeys', excusedKeys' \subseteq IdemKey, ReceiptsAreAdded,
         post[c].pc = "store" => post[c].key \in excusedKeys' \/ kept'[post[c].key] # NoneKept,
         status = 201 => about = <<post[c].by, post[c].opening>> /\ Applied(post[c]),
         post[c].key \notin excusedKeys' =>
           /\ status = 400 => \E f \in filed : Same(f, post[c]) /\ f.key # post[c].key
           /\ status = 409 => kept'[post[c].key] # NoneKept /\ ~ IsReplay(kept'[post[c].key], post[c])
           /\ status # 500
  PROVE PostInv'
  <1>1. PICK a : a = [by |-> post[c].by, opening |-> post[c].opening, key |-> post[c].key, status |-> status, about |-> about]
    BY Zenon
  <1>2. post[c] \in PostCall
    BY CallIsOne DEF PostInv
  <1>3. /\ a \in PostAnswer /\ a.by = post[c].by /\ a.opening = post[c].opening /\ a.key = post[c].key
        /\ a.status = status /\ a.about = about
    BY <1>1, <1>2 DEF PostCall, PostAnswer
  <1>4. post' = [post EXCEPT ![c] = NoCall] /\ answers' = answers \cup {a}
    BY <1>1 DEF Answer
  <1>5. /\ post' \in [Call -> {NoCall} \cup PostCall]
        /\ ReceiptsAreTrue' /\ OverlapsAreExcused' /\ FiledAreReceipted' /\ HandledAreNew'
        /\ \A b \in answers : AnswerStands(b)'
    BY <1>4, EndKeeps, Zenon
  <1>6. AnswerStands(a)'
    BY <1>3 DEF AnswerStands, Applied, Same, IsReplay
  <1>7. PostTypes'
    BY <1>3, <1>4, <1>5 DEF PostInv, PostTypes, ReceiptsAreAdded
  <1>8. AnswersStand'
    BY <1>4, <1>5, <1>6 DEF AnswersStand
  <1> QED BY <1>5, <1>7, <1>8 DEF PostInv

LEMMA NoneAdded == ASSUME PostInv, kept' = kept PROVE ReceiptsAreAdded
  BY DEF PostInv, PostTypes, ReceiptsAreAdded

\* A call comes in: if it is not the only one about this application, their keys are excused.
LEMMA SendKeeps ==
  ASSUME PostInv, NEW c \in Call, NEW u \in Caller, NEW o \in Opening, NEW k \in IdemKey, SendPost(c, u, o, k)
  PROVE PostInv'
  <1> USE DEF PostInv
  <1>1. PICK rivals : rivals = {d \in Call : post[d] # NoCall /\ post[d].by = u /\ post[d].opening = o}
    BY Zenon
  <1>2. PICK p : p = [pc |-> "guard", by |-> u, opening |-> o, key |-> k]
    BY Zenon
  <1>3. /\ post[c] = NoCall /\ post' = [post EXCEPT ![c] = p] /\ UNCHANGED <<filed, kept, answers>>
        /\ excusedKeys' = IF rivals = {} THEN excusedKeys
                          ELSE excusedKeys \cup {k} \cup {post[d].key : d \in rivals}
    BY <1>1, <1>2 DEF SendPost
  <1>4. p \in PostCall /\ p.pc = "guard" /\ p.by = u /\ p.opening = o /\ p.key = k
    BY <1>2 DEF PostCall
  <1>5. /\ post' \in [Call -> {NoCall} \cup PostCall] /\ post'[c] = p
        /\ \A d \in Call \ {c} : post'[d] = post[d]
    BY <1>3, <1>4 DEF PostTypes
  <1>6. excusedKeys \subseteq excusedKeys' /\ excusedKeys' \subseteq IdemKey
    <2>1. \A d \in rivals : post[d].key \in IdemKey
      BY <1>1, CallsAreApart DEF PostTypes, PostCall
    <2> QED BY <1>3, <2>1 DEF PostTypes
  <1>7. PostTypes'
    BY <1>3, <1>5, <1>6 DEF PostTypes
  <1>8. NoCall.pc = "idle"
    BY DEF NoCall
  <1>9. \A d \in Call : post'[d].pc = "store" <=> post[d].pc = "store"
    BY <1>3, <1>4, <1>5, <1>8
  <1>10. ReceiptsAreTrue'
    <2>1. \A d \in Call : post'[d].pc = "store" => Applied(post'[d])
      BY <1>4, <1>5 DEF ReceiptsAreTrue
    <2> QED BY <1>3, <1>6, <2>1 DEF ReceiptsAreTrue, Applied
  <1>11. OverlapsAreExcused'
    <2> SUFFICES ASSUME NEW d \in Call, NEW e \in Call, d # e, post'[d] # NoCall, post'[e] # NoCall,
                        Same(post'[d], post'[e])
                 PROVE post'[d].key \in excusedKeys'
      BY DEF OverlapsAreExcused, Same
    <2>1. CASE d = c
      <3>1. post'[e] = post[e] /\ e \in rivals
        BY <1>1, <1>4, <1>5, <2>1 DEF Same
      <3> QED BY <1>3, <1>4, <1>5, <2>1, <3>1
    <2>2. CASE e = c
      <3>1. post'[d] = post[d] /\ d \in rivals
        BY <1>1, <1>4, <1>5, <2>2 DEF Same
      <3> QED BY <1>3, <3>1
    <2>3. CASE d # c /\ e # c
      BY <1>5, <1>6, <2>3 DEF OverlapsAreExcused
    <2> QED BY <2>1, <2>2, <2>3
  <1>12. FiledAreReceipted'
    <2>1. \A d \in Call : post[d].pc = "store" => post'[d] = post[d]
      BY <1>3, <1>5, <1>8
    <2> QED BY <1>3, <1>6, <1>9, <2>1 DEF FiledAreReceipted, Same
  <1>13. HandledAreNew'
    <2> SUFFICES ASSUME NEW d \in Call PROVE
        /\ post'[d].pc \in {"handle", "insert"} /\ post'[d].key \notin excusedKeys' =>
             \A f \in filed : Same(f, post'[d]) => f.key # post'[d].key
        /\ post'[d].pc = "insert" /\ post'[d].key \notin excusedKeys' => ~ Applied(post'[d])
      BY <1>3, Zenon DEF HandledAreNew, Applied, Same
    <2>1. CASE d # c
      BY <1>5, <1>6, <2>1 DEF HandledAreNew
    <2>2. CASE d = c
      BY <1>4, <1>5, <2>2
    <2> QED BY <2>1, <2>2
  <1>14. AnswersStand'
    BY <1>3, <1>6 DEF AnswersStand, AnswerStands, Applied, IsReplay
  <1> QED BY <1>7, <1>10, <1>11, <1>12, <1>13, <1>14

LEMMA GuardKeeps ==
  ASSUME PostInv, NEW c \in Call, NEW token \in {"valid", "bad"}, NEW verdict \in {"clear", "revoked"},
         Guard(c, token, verdict)
  PROVE PostInv'
  <1>1. post[c].pc = "guard" /\ UNCHANGED <<filed, kept, excusedKeys>> /\ excusedKeys \subseteq IdemKey
    BY DEF Guard, PostInv, PostTypes
  <1>2. CASE Proceed(c, "find")
    BY <1>1, <1>2, ProceedKeeps, Zenon DEF Proceed
  <1>3. CASE Catch(c, "unauthorized")
    <2>1. Answer(c, 401, <<>>)
      BY <1>3 DEF Catch, StatusOf
    <2> QED BY <1>1, <2>1, AnswerKeeps, NoneAdded
  <1> QED BY <1>2, <1>3 DEF Guard

LEMMA FindReceiptKeeps == ASSUME PostInv, NEW c \in Call, FindReceipt(c) PROVE PostInv'
  <1>1. /\ post[c].pc = "find" /\ UNCHANGED <<filed, kept, excusedKeys>> /\ excusedKeys \subseteq IdemKey
        /\ post[c] \in PostCall /\ post[c] # NoCall
    BY CallIsOne, Zenon DEF FindReceipt, PostInv, PostTypes
  <1>2. post[c].key \in IdemKey
    BY <1>1 DEF PostCall
  <1>3. PICK r : r = kept[post[c].key]
    OBVIOUS
  <1>4. r \in {NoneKept} \cup Receipt
    BY <1>2, <1>3 DEF PostInv, PostTypes
  <1>5. CASE r.state # "live"
    <2>1. Proceed(c, "handle")
      BY <1>3, <1>5, Zenon DEF FindReceipt
    <2>2. ASSUME post[c].key \notin excusedKeys, NEW f \in filed, Same(f, post[c]), f.key = post[c].key PROVE FALSE
      <3>1. r = NoneKept
        BY <1>2, <1>3, <1>4, <1>5, <2>2 DEF PostInv, ReceiptsAreTrue, Receipt
      <3>2. PICK d \in Call : post[d].pc = "store" /\ post[d].key = f.key /\ Same(post[d], f)
        BY <1>3, <2>2, <3>1, Zenon DEF PostInv, FiledAreReceipted
      <3>3. d # c /\ post[d] # NoCall /\ Same(post[c], post[d])
        BY <1>1, <2>2, <3>2 DEF Same, NoCall
      <3> QED BY <1>1, <2>2, <3>3 DEF PostInv, OverlapsAreExcused
    <2> QED BY <1>1, <2>1, <2>2, ProceedKeeps, Zenon DEF Proceed
  <1>6. CASE r.state = "live" /\ IsReplay(r, post[c])
    <2>1. r # NoneKept
      BY <1>6 DEF NoneKept
    <2>2. r \in Receipt /\ r.about = <<r.by, r.opening>> /\ Applied(r)
      BY <1>2, <1>3, <1>4, <2>1 DEF PostInv, ReceiptsAreTrue
    <2>3. Answer(c, 201, r.about)
      BY <1>3, <1>6 DEF FindReceipt
    <2>4. r.about \in Caller \X Opening /\ r.about = <<post[c].by, post[c].opening>> /\ Applied(post[c])
      BY <1>6, <2>2 DEF Receipt, IsReplay, Applied
    <2> QED BY <1>1, <2>3, <2>4, AnswerKeeps, NoneAdded
  <1>7. CASE r.state = "live" /\ ~ IsReplay(r, post[c])
    <2>1. r # NoneKept
      BY <1>7 DEF NoneKept
    <2>2. Catch(c, "key used differently")
      BY <1>3, <1>7, Zenon DEF FindReceipt
    <2>3. Answer(c, 409, <<>>)
      BY <2>2 DEF Catch, StatusOf
    <2>4. kept'[post[c].key] = r
      BY <1>1, <1>3
    <2> QED BY <1>1, <1>7, <2>1, <2>3, <2>4, AnswerKeeps, NoneAdded
  <1> QED BY <1>5, <1>6, <1>7

LEMMA FindApplicationKeeps == ASSUME PostInv, NEW c \in Call, FindApplication(c) PROVE PostInv'
  <1>1. post[c].pc = "handle" /\ UNCHANGED <<filed, kept, excusedKeys>> /\ excusedKeys \subseteq IdemKey
    BY Zenon DEF FindApplication, PostInv, PostTypes
  <1>2. post[c].key \notin excusedKeys => \A f \in filed : Same(f, post[c]) => f.key # post[c].key
    BY <1>1 DEF PostInv, HandledAreNew
  <1>3. CASE Applied(post[c])
    <2>1. Answer(c, 400, <<>>)
      BY <1>3 DEF FindApplication, Catch, StatusOf
    <2>2. \E f \in filed : Same(f, post[c])
      BY <1>3 DEF Applied, Same
    <2>3. post[c].key \notin excusedKeys' => \E f \in filed : Same(f, post[c]) /\ f.key # post[c].key
      BY <1>1, <1>2, <2>2
    <2> QED BY <1>1, <2>1, <2>3, AnswerKeeps, NoneAdded
  <1>4. CASE ~ Applied(post[c])
    <2>1. Proceed(c, "insert")
      BY <1>4 DEF FindApplication
    <2> QED BY <1>1, <1>2, <1>4, <2>1, ProceedKeeps, Zenon DEF Proceed
  <1> QED BY <1>3, <1>4

LEMMA InsertKeeps == ASSUME PostInv, NEW c \in Call, InsertFiled(c) PROVE PostInv'
  <1> USE DEF PostInv
  <1>1. /\ post[c].pc = "insert" /\ UNCHANGED <<kept, excusedKeys>> /\ excusedKeys \subseteq IdemKey
        /\ post[c] \in PostCall /\ post[c] # NoCall
    BY CallIsOne DEF InsertFiled, PostTypes
  <1>2. CASE Applied(post[c])
    <2>1. Answer(c, 500, <<>>) /\ UNCHANGED filed
      BY <1>2 DEF InsertFiled, Catch, StatusOf
    <2>2. post[c].key \in excusedKeys
      BY <1>1, <1>2 DEF HandledAreNew
    <2> QED BY <1>1, <2>1, <2>2, AnswerKeeps, NoneAdded
  <1>3. CASE ~ Applied(post[c])
    <2>1. PICK g : g = [by |-> post[c].by, opening |-> post[c].opening, key |-> post[c].key]
      BY Zenon
    <2>2. PICK p : p = [post[c] EXCEPT !.pc = "store"]
      BY Zenon
    <2>3. filed' = filed \cup {g} /\ post' = [post EXCEPT ![c] = p] /\ answers' = answers
      BY <1>3, <2>1, <2>2 DEF InsertFiled, Proceed
    <2>4. /\ g \in Filing /\ g.by = post[c].by /\ g.opening = post[c].opening /\ g.key = post[c].key
          /\ p \in PostCall /\ p.pc = "store" /\ p.by = post[c].by /\ p.opening = post[c].opening /\ p.key = post[c].key
      BY <1>1, <2>1, <2>2 DEF PostCall, Filing
    <2>5. /\ post' \in [Call -> {NoCall} \cup PostCall] /\ post'[c] = p
          /\ \A d \in Call \ {c} : post'[d] = post[d]
      BY <2>3, <2>4 DEF PostTypes
    <2>6. PostTypes'
      BY <1>1, <2>3, <2>4, <2>5 DEF PostTypes
    <2>7. \A x : Applied(x) => Applied(x)'
      BY <2>3 DEF Applied
    <2>8. ReceiptsAreTrue'
      <3>1. \A k \in IdemKey : kept[k] # NoneKept => \E f \in filed' : f.by = kept[k].by /\ f.opening = kept[k].opening
        BY <2>3 DEF ReceiptsAreTrue, Applied
      <3>2. \A d \in Call : post'[d].pc = "store" => \E f \in filed' : f.by = post'[d].by /\ f.opening = post'[d].opening
        <4> SUFFICES ASSUME NEW d \in Call, post'[d].pc = "store"
                     PROVE \E f \in filed' : f.by = post'[d].by /\ f.opening = post'[d].opening
          OBVIOUS
        <4>1. CASE d = c
          BY <2>3, <2>4, <2>5, <4>1
        <4>2. CASE d # c
          BY <2>3, <2>5, <4>2 DEF ReceiptsAreTrue, Applied
        <4> QED BY <4>1, <4>2
      <3> QED BY <1>1, <3>1, <3>2 DEF ReceiptsAreTrue, Applied
    <2>9. OverlapsAreExcused'
      <3>1. \A d \in Call : post'[d] # NoCall => post[d] # NoCall /\ Same(post'[d], post[d]) /\ post'[d].key = post[d].key
        BY <1>1, <2>4, <2>5 DEF Same
      <3> QED BY <1>1, <3>1 DEF OverlapsAreExcused, Same
    <2>10. FiledAreReceipted'
      <3> SUFFICES ASSUME NEW f \in filed', f.key \notin excusedKeys, kept[f.key] = NoneKept
                   PROVE \E d \in Call : post'[d].pc = "store" /\ post'[d].key = f.key /\ Same(post'[d], f)
        BY <1>1 DEF FiledAreReceipted, Same
      <3>1. CASE f = g
        BY <2>4, <2>5, <3>1 DEF Same
      <3>2. CASE f \in filed
        <4>1. PICK d \in Call : post[d].pc = "store" /\ post[d].key = f.key /\ Same(post[d], f)
          BY <3>2 DEF FiledAreReceipted
        <4> QED BY <1>1, <2>5, <4>1
      <3> QED BY <2>3, <3>1, <3>2
    <2>11. HandledAreNew'
      <3> SUFFICES ASSUME NEW d \in Call, post'[d].pc \in {"handle", "insert"}, post'[d].key \notin excusedKeys
                   PROVE /\ \A f \in filed' : Same(f, post'[d]) => f.key # post'[d].key
                         /\ post'[d].pc = "insert" => \A f \in filed' : ~ Same(f, post'[d])
        BY <1>1 DEF HandledAreNew, Applied, Same
      <3>1. d # c /\ post'[d] = post[d]
        BY <2>4, <2>5
      <3>2. post[d] # NoCall
        BY <3>1 DEF NoCall
      <3>3. ~ Same(g, post[d])
        BY <1>1, <2>4, <3>1, <3>2 DEF OverlapsAreExcused, Same
      <3> QED BY <2>3, <3>1, <3>3 DEF HandledAreNew, Applied, Same
    <2>12. AnswersStand'
      BY <1>1, <2>3, <2>7 DEF AnswersStand, AnswerStands, IsReplay
    <2> QED BY <2>6, <2>8, <2>9, <2>10, <2>11, <2>12
  <1> QED BY <1>2, <1>3

LEMMA StoreKeeps == ASSUME PostInv, NEW c \in Call, StoreAnswer(c) \/ StoreFails(c) PROVE PostInv'
  <1>1. /\ post[c].pc = "store" /\ filed' = filed /\ post[c] \in PostCall
        /\ Answer(c, 201, <<post[c].by, post[c].opening>>)
    BY CallIsOne DEF StoreAnswer, StoreFails, PostInv
  <1>2. post[c].key \in IdemKey /\ post[c].by \in Caller /\ post[c].opening \in Opening /\ Applied(post[c])
    BY <1>1 DEF PostInv, PostCall, ReceiptsAreTrue
  <1>3. excusedKeys \subseteq excusedKeys' /\ excusedKeys' \subseteq IdemKey
    BY <1>2 DEF StoreAnswer, StoreFails, PostInv, PostTypes
  <1>4. CASE StoreAnswer(c)
    <2>1. PICK r : r = [state |-> "live", by |-> post[c].by, opening |-> post[c].opening,
                        about |-> <<post[c].by, post[c].opening>>]
      BY Zenon
    <2>2. kept' = IF kept[post[c].key] # NoneKept THEN kept ELSE [kept EXCEPT ![post[c].key] = r]
      BY <1>4, <2>1 DEF StoreAnswer
    <2>3. r \in Receipt /\ r # NoneKept /\ r.state = "live" /\ r.about = <<r.by, r.opening>> /\ Applied(r)
      BY <1>2, <2>1 DEF Receipt, NoneKept, Applied
    <2>4. ReceiptsAreAdded /\ kept'[post[c].key] # NoneKept
      BY <1>2, <2>2, <2>3 DEF PostInv, PostTypes, ReceiptsAreAdded
    <2> QED BY <1>1, <1>2, <1>3, <2>4, AnswerKeeps
  <1>5. CASE StoreFails(c)
    <2>1. kept' = kept /\ post[c].key \in excusedKeys'
      BY <1>5 DEF StoreFails
    <2> QED BY <1>1, <1>2, <1>3, <2>1, AnswerKeeps, NoneAdded
  <1> QED BY <1>4, <1>5

LEMMA CutOffKeeps == ASSUME PostInv, NEW c \in Call, CutOff(c) PROVE PostInv'
  <1>1. /\ post[c] # NoCall /\ post' = [post EXCEPT ![c] = NoCall] /\ UNCHANGED <<filed, kept, answers>>
        /\ excusedKeys' = excusedKeys \cup {post[c].key}
    BY DEF CutOff
  <1>2. post[c] \in PostCall /\ post[c].pc # "idle"
    BY <1>1, CallsAreApart DEF PostInv, PostTypes
  <1>3. excusedKeys \subseteq excusedKeys' /\ excusedKeys' \subseteq IdemKey /\ post[c].key \in excusedKeys'
    BY <1>1, <1>2 DEF PostInv, PostTypes, PostCall
  <1>4. /\ post' \in [Call -> {NoCall} \cup PostCall]
        /\ ReceiptsAreTrue' /\ OverlapsAreExcused' /\ FiledAreReceipted' /\ HandledAreNew'
        /\ \A b \in answers : AnswerStands(b)'
    BY <1>1, <1>2, <1>3, EndKeeps, NoneAdded, Zenon
  <1>5. PostTypes' /\ AnswersStand'
    BY <1>1, <1>3, <1>4 DEF PostInv, PostTypes, AnswersStand
  <1> QED BY <1>4, <1>5 DEF PostInv

\* A receipt comes of age, and its key is excused; or the sweep takes it, whose key is.
LEMMA ExpiryKeeps == ASSUME PostInv, NEW k \in IdemKey, ReceiptExpires(k) \/ DeleteExpired(k) PROVE PostInv'
  <1> USE DEF PostInv
  <1>0. NoneKept.state = "none"
    BY DEF NoneKept
  <1>1. UNCHANGED <<filed, post, answers>> /\ kept[k] \in Receipt
    BY <1>0 DEF ReceiptExpires, DeleteExpired, PostTypes
  <1>2. excusedKeys \subseteq excusedKeys' /\ excusedKeys' \subseteq IdemKey /\ k \in excusedKeys'
    BY DEF ReceiptExpires, DeleteExpired, PostTypes, ReceiptsAreTrue
  <1>3. PICK r : r = IF ReceiptExpires(k) THEN [kept[k] EXCEPT !.state = "expired"] ELSE NoneKept
    BY Zenon
  <1>4. kept' = [kept EXCEPT ![k] = r]
    <2>1. CASE ReceiptExpires(k)
      BY <1>3, <2>1 DEF ReceiptExpires, PostTypes
    <2>2. CASE ~ ReceiptExpires(k)
      BY <1>3, <2>2 DEF DeleteExpired
    <2> QED BY <2>1, <2>2
  <1>5. r = NoneKept \/ (r \in Receipt /\ r.about = kept[k].about /\ r.by = kept[k].by /\ r.opening = kept[k].opening)
    BY <1>1, <1>3 DEF Receipt
  <1>6. PostTypes'
    BY <1>1, <1>2, <1>4, <1>5 DEF PostTypes
  <1>7. /\ kept'[k] = r /\ \A j \in IdemKey \ {k} : kept'[j] = kept[j]
    BY <1>4 DEF PostTypes
  <1>8. kept[k] # NoneKept
    BY <1>1 DEF Receipt, NoneKept
  <1>9. ReceiptsAreTrue'
    <2>1. \A j \in IdemKey : kept'[j] # NoneKept =>
            kept'[j].about = <<kept'[j].by, kept'[j].opening>> /\ Applied(kept'[j])
      <3> SUFFICES ASSUME NEW j \in IdemKey, kept'[j] # NoneKept
                   PROVE kept'[j].about = <<kept'[j].by, kept'[j].opening>> /\ Applied(kept'[j])
        OBVIOUS
      <3>1. CASE j = k
        <4>1. kept'[j].about = kept[k].about /\ kept'[j].by = kept[k].by /\ kept'[j].opening = kept[k].opening
          BY <1>5, <1>7, <3>1
        <4> QED BY <1>8, <4>1 DEF ReceiptsAreTrue, Applied
      <3>2. CASE j # k
        BY <1>7, <3>2 DEF ReceiptsAreTrue
      <3> QED BY <3>1, <3>2
    <2>2. \A j \in IdemKey \ excusedKeys' : kept'[j].state # "expired"
      BY <1>2, <1>7 DEF ReceiptsAreTrue
    <2> QED BY <1>1, <2>1, <2>2 DEF ReceiptsAreTrue, Applied
  <1>10. OverlapsAreExcused' /\ HandledAreNew'
    BY <1>1, <1>2 DEF OverlapsAreExcused, HandledAreNew, Same, Applied
  <1>11. FiledAreReceipted'
    <2>1. \A f \in filed : f.key \in IdemKey
      BY DEF PostTypes, Filing
    <2> QED BY <1>1, <1>2, <1>7, <2>1 DEF FiledAreReceipted, Same
  <1>12. AnswersStand'
    <2> SUFFICES ASSUME NEW a \in answers PROVE AnswerStands(a)'
      BY <1>1 DEF AnswersStand
    <2>1. AnswerStands(a) /\ a.key \in IdemKey
      BY DEF AnswersStand, PostTypes, PostAnswer
    <2>2. CASE a.key = k
      BY <1>1, <1>2, <2>1, <2>2 DEF AnswerStands, Applied
    <2>3. CASE a.key # k
      BY <1>1, <1>2, <1>7, <2>1, <2>3 DEF AnswerStands, Applied, IsReplay
    <2> QED BY <2>2, <2>3
  <1> QED BY <1>6, <1>9, <1>10, <1>11, <1>12

LEMMA PostStep == PostInv /\ [PostsNext]_postVars => PostInv'
  <1> SUFFICES ASSUME PostInv, [PostsNext]_postVars PROVE PostInv'
    OBVIOUS
  <1>1. CASE \E c \in Call, u \in Caller, o \in Opening, k \in IdemKey : SendPost(c, u, o, k)
    BY <1>1, SendKeeps
  <1>2. CASE \E c \in Call, token \in {"valid", "bad"}, verdict \in {"clear", "revoked"} : Guard(c, token, verdict)
    BY <1>2, GuardKeeps
  <1>3. CASE \E c \in Call : FindReceipt(c)
    BY <1>3, FindReceiptKeeps
  <1>4. CASE \E c \in Call : FindApplication(c)
    BY <1>4, FindApplicationKeeps
  <1>5. CASE \E c \in Call : InsertFiled(c)
    BY <1>5, InsertKeeps
  <1>6. CASE \E c \in Call : StoreAnswer(c) \/ StoreFails(c)
    BY <1>6, StoreKeeps
  <1>7. CASE \E c \in Call : CutOff(c)
    BY <1>7, CutOffKeeps
  <1>8. CASE \E k \in IdemKey : ReceiptExpires(k) \/ DeleteExpired(k)
    BY <1>8, ExpiryKeeps
  <1>9. CASE UNCHANGED postVars
    BY <1>9 DEF postVars, PostInv, PostTypes, ReceiptsAreTrue, OverlapsAreExcused, FiledAreReceipted, HandledAreNew,
          AnswersStand, AnswerStands, Applied, Same, IsReplay
  <1> QED BY <1>1, <1>2, <1>3, <1>4, <1>5, <1>6, <1>7, <1>8, <1>9 DEF PostsNext

LEMMA PostSound == PostInv => AnswersAreTheCallers /\ RetriesAreQuiet
  BY DEF PostInv, AnswersStand, AnswerStands, AnswersAreTheCallers, RetriesAreQuiet

-----------------------------------------------------------------------------
(* A posting and the copy a browser keeps of it. *)

GetTypes ==
  /\ edgeClock \in Nat /\ firmText \in Nat
  /\ opened \in [text : Nat, at : Nat, twice : BOOLEAN, draft : BOOLEAN]
  /\ browser \in {NoCopy} \cup [tag : {"W"} \X Nat, body : [opened : Nat, firm : Nat]]

\* A copy was the posting as it stood at the millisecond it is tagged with.
CopyIsDated ==
  /\ opened.at <= edgeClock
  /\ browser # NoCopy =>
       /\ browser.tag[2] <= opened.at
       /\ browser.tag[2] = opened.at => opened.twice \/ browser.body.opened = opened.text

GetInv == GetTypes /\ CopyIsDated

LEMMA GetStart == GetsInit => GetInv
  BY DEF GetsInit, GetInv, GetTypes, CopyIsDated

LEMMA GetStep == GetInv /\ [GetsNext]_getVars => GetInv'
  <1> SUFFICES ASSUME GetInv, [GetsNext]_getVars PROVE GetInv'
    OBVIOUS
  <1> USE DEF GetInv
  <1>1. CASE \E asDraft \in BOOLEAN : EditAd(asDraft)
    <2>1. PICK asDraft \in BOOLEAN : EditAd(asDraft)
      BY <1>1
    <2>2. /\ opened.text \in Nat /\ opened.at \in Nat /\ edgeClock \in Nat
          /\ opened' = [text |-> opened.text + 1, at |-> edgeClock, twice |-> (opened.at = edgeClock), draft |-> asDraft]
          /\ UNCHANGED <<edgeClock, firmText, browser>>
      BY <2>1 DEF EditAd, GetTypes
    <2>3. GetTypes'
      BY <2>2 DEF GetTypes
    <2>4. ASSUME browser # NoCopy
          PROVE browser.tag[2] <= edgeClock /\ (browser.tag[2] = edgeClock => opened.at = edgeClock)
      <3>1. browser.tag[2] \in Nat /\ browser.tag[2] <= opened.at /\ opened.at <= edgeClock
        BY <2>4 DEF GetTypes, CopyIsDated
      <3> QED BY <2>2, <3>1
    <2>5. opened'.at = edgeClock /\ edgeClock' = edgeClock /\ browser' = browser /\ edgeClock <= edgeClock
      BY <2>2
    <2>6. opened'.twice <=> opened.at = edgeClock
      BY <2>2, Zenon
    <2> QED BY <2>3, <2>4, <2>5, <2>6 DEF CopyIsDated
  <1>2. CASE EditFirm
    BY <1>2 DEF EditFirm, GetTypes, CopyIsDated
  <1>3. CASE EdgeTick
    BY <1>3 DEF EdgeTick, GetTypes, CopyIsDated
  <1>4. CASE Fetch
    <2>1. CASE IsNoneMatch(browser.tag, BuildEtag)
      BY <1>4, <2>1 DEF Fetch, GetTypes, CopyIsDated
    <2>2. CASE ~ IsNoneMatch(browser.tag, BuildEtag)
      <3>1. /\ browser' = [tag |-> <<"W", opened.at>>, body |-> [opened |-> opened.text, firm |-> firmText]]
            /\ UNCHANGED <<edgeClock, opened, firmText>>
        BY <1>4, <2>2 DEF Fetch, BuildEtag, WithCompanyName
      <3> QED BY <3>1 DEF GetTypes, CopyIsDated
    <2> QED BY <2>1, <2>2
  <1>5. CASE UNCHANGED getVars
    BY <1>5 DEF getVars, GetTypes, CopyIsDated
  <1> QED BY <1>1, <1>2, <1>3, <1>4, <1>5 DEF GetsNext

LEMMA GetSound == GetInv => CopiesFollowThePosting
  <1> SUFFICES ASSUME GetInv, IsNoneMatch(browser.tag, BuildEtag)
               PROVE browser # NoCopy /\ (opened.twice \/ browser.body.opened = opened.text)
    BY DEF CopiesFollowThePosting
  <1>1. browser.tag # <<>> /\ browser.tag = <<"W", opened.at>>
    BY DEF IsNoneMatch, BuildEtag
  <1>2. browser # NoCopy
    BY <1>1 DEF NoCopy
  <1> QED BY <1>1, <1>2 DEF GetInv, CopyIsDated

-----------------------------------------------------------------------------
(* The scout. *)

NewsRow == [status : {"none", "DRAFT", "PUBLISHED", "CLOSED"}, createdAt : Nat, embedded : BOOLEAN]
ScoutPoll ==
  [pc : {"idle", "dismissed", "scoring"}, batch : SUBSET News, owed : SUBSET News, quiet : SUBSET News, cut : BOOLEAN]

ScoutTypes ==
  /\ scoutClock \in Nat /\ lastPoll \in {NotYet} \cup Nat /\ news \in [News -> NewsRow]
  /\ waved \subseteq News /\ knownNews \subseteq News /\ poll \in ScoutPoll

\* What a poll did not find came no earlier than that poll.
PollsAreDated ==
  /\ lastPoll <= scoutClock
  /\ lastPoll # NotYet => \A i \in News \ knownNews : news[i] # NoNews => news[i].createdAt >= lastPoll

\* The poll in progress holds what it owes, unless it was cut or that was dismissed meanwhile.
PollOwes ==
  /\ poll.pc = "idle" => poll = NoPoll
  /\ \A i \in poll.owed : news[i].embedded
  /\ ~ poll.cut => poll.owed \ waved \subseteq poll.batch
  /\ poll.quiet \subseteq waved
  /\ poll.pc = "scoring" => poll.batch \cap poll.quiet = {}

ScoutInv == ScoutTypes /\ PollsAreDated /\ PollOwes /\ NewsArrives

LEMMA ScoutStart == ScoutInit => ScoutInv
  <1> SUFFICES ASSUME ScoutInit PROVE ScoutInv
    OBVIOUS
  <1>1. NoNews \in NewsRow /\ NoPoll \in ScoutPoll /\ NoPoll.pc = "idle" /\ NoPoll.owed = {} /\ NoPoll.quiet = {}
    BY DEF NoNews, NewsRow, NoPoll, ScoutPoll
  <1>2. Silence.answer = {} /\ Silence.owed = {}
    BY DEF Silence
  <1>3. ScoutTypes /\ PollOwes /\ NewsArrives
    BY <1>1, <1>2 DEF ScoutInit, ScoutTypes, PollOwes, NewsArrives
  <1>4. PollsAreDated
    BY DEF ScoutInit, PollsAreDated, NotYet
  <1> QED BY <1>3, <1>4 DEF ScoutInv

\* A posting comes in or changes: its vector stays, and it is dated by the clock.
LEMMA NewsKeeps ==
  ASSUME ScoutInv, NEW i \in News, (\E s \in {"PUBLISHED", "DRAFT"} : PostNews(i, s)) \/ ChangeNews(i)
  PROVE ScoutInv'
  <1> USE DEF ScoutInv
  <1>1. UNCHANGED <<scoutClock, waved, poll, lastPoll, knownNews, scouted>>
    BY DEF PostNews, ChangeNews
  <1>2. PICK n : news' = [news EXCEPT ![i] = n] /\ n \in NewsRow /\ (news[i] # NoNews => (news[i].embedded => n.embedded)
                                                                     /\ n.createdAt = news[i].createdAt)
                 /\ (news[i] = NoNews => n.createdAt = scoutClock)
    <2>1. CASE \E s \in {"PUBLISHED", "DRAFT"} : PostNews(i, s)
      <3>1. PICK s \in {"PUBLISHED", "DRAFT"} : PostNews(i, s)
        BY <2>1
      <3>2. PICK n : n = [status |-> s, createdAt |-> scoutClock, embedded |-> FALSE]
        BY Zenon
      <3>3. n \in NewsRow /\ n.createdAt = scoutClock /\ news[i] = NoNews /\ news' = [news EXCEPT ![i] = n]
        BY <3>1, <3>2 DEF PostNews, ScoutTypes, NewsRow
      <3> QED BY <3>3, Zenon
    <2>2. CASE ChangeNews(i)
      <3>1. PICK v \in {[news EXCEPT ![i].embedded = TRUE], [news EXCEPT ![i].status = "CLOSED"],
                        [news EXCEPT ![i].status = "PUBLISHED"]} : news' = v /\ news[i] # NoNews
        BY <2>2 DEF ChangeNews
      <3>2. news[i] \in NewsRow
        BY DEF ScoutTypes
      <3>3. CASE v = [news EXCEPT ![i].embedded = TRUE]
        <4>1. PICK n : n = [news[i] EXCEPT !.embedded = TRUE]
          BY Zenon
        <4>2. n \in NewsRow /\ n.embedded /\ n.createdAt = news[i].createdAt /\ news' = [news EXCEPT ![i] = n]
          BY <3>1, <3>2, <3>3, <4>1, Zenon DEF NewsRow
        <4> QED BY <3>1, <4>2, Zenon
      <3>4. CASE \E s \in {"CLOSED", "PUBLISHED"} : v = [news EXCEPT ![i].status = s]
        <4>1. PICK s \in {"CLOSED", "PUBLISHED"} : v = [news EXCEPT ![i].status = s]
          BY <3>4, Zenon
        <4>2. PICK n : n = [news[i] EXCEPT !.status = s]
          BY Zenon
        <4>3. /\ n \in NewsRow /\ n.embedded = news[i].embedded /\ n.createdAt = news[i].createdAt
              /\ news' = [news EXCEPT ![i] = n]
          BY <3>1, <3>2, <4>1, <4>2 DEF NewsRow
        <4> QED BY <3>1, <4>3, Zenon
      <3> QED BY <3>1, <3>3, <3>4
    <2> QED BY <2>1, <2>2
  <1>3. news'[i] = n /\ \A j \in News \ {i} : news'[j] = news[j]
    BY <1>2 DEF ScoutTypes
  <1>4. ScoutTypes'
    BY <1>1, <1>2 DEF ScoutTypes
  <1>5. PollsAreDated'
    <2> SUFFICES ASSUME lastPoll # NotYet, NEW j \in News \ knownNews, news'[j] # NoNews
                 PROVE news'[j].createdAt >= lastPoll
      BY <1>1 DEF PollsAreDated
    <2>1. CASE j # i
      BY <1>3, <2>1 DEF PollsAreDated
    <2>2. CASE j = i /\ news[i] # NoNews
      BY <1>2, <1>3, <2>2 DEF PollsAreDated
    <2>3. CASE j = i /\ news[i] = NoNews
      BY <1>2, <1>3, <2>3 DEF PollsAreDated, ScoutTypes
    <2> QED BY <2>1, <2>2, <2>3
  <1>6. \A j \in poll.owed : news'[j].embedded
    <2> SUFFICES ASSUME NEW j \in poll.owed PROVE news'[j].embedded
      OBVIOUS
    <2>1. j \in News /\ news[j].embedded /\ news[j] # NoNews
      BY DEF ScoutTypes, ScoutPoll, PollOwes, NoNews
    <2> QED BY <1>2, <1>3, <2>1
  <1>7. PollOwes' /\ NewsArrives'
    BY <1>1, <1>6 DEF PollOwes, NewsArrives
  <1> QED BY <1>4, <1>5, <1>7

\* A poll takes up every posting it owes, if it need not be cut.
LEMMA GetScoutKeeps == ASSUME ScoutInv, GetScout PROVE ScoutInv'
  <1> USE DEF ScoutInv
  <1>1. PICK window : window = {i \in News : InWindow(i)}
    BY Zenon
  <1>2. PICK ready : ready = {i \in News : news[i] # NoNews /\ news[i].status = "PUBLISHED" /\ news[i].embedded /\ i \notin knownNews}
    BY Zenon
  <1>3. PICK owed : owed = IF lastPoll = NotYet THEN {i \in ready : news[i].createdAt >= scoutClock - ScoutWindow} ELSE ready
    BY Zenon
  <1>4. PICK batch \in SUBSET window :
          poll' = [pc |-> "dismissed", batch |-> batch, quiet |-> waved, cut |-> (batch # window), owed |-> owed]
    <2>1. ready = {i \in {j \in News : news[j] # NoNews} :
                     news[i].status = "PUBLISHED" /\ news[i].embedded /\ i \notin knownNews}
      BY <1>2
    <2> QED BY <1>1, <1>3, <2>1, Zenon DEF GetScout, Foremost
  <1>5. /\ UNCHANGED <<scoutClock, news, waved, scouted>> /\ lastPoll' = scoutClock
        /\ knownNews' = {i \in News : news[i] # NoNews}
    BY DEF GetScout
  <1>6. /\ poll'.pc = "dismissed" /\ poll'.batch = batch /\ poll'.quiet = waved /\ poll'.cut = (batch # window)
        /\ poll'.owed = owed
    BY <1>4
  <1>7. owed \subseteq ready /\ ready \subseteq News /\ window \subseteq News
    BY <1>1, <1>2, <1>3
  <1>8. poll' \in ScoutPoll
    BY <1>4, <1>7 DEF ScoutPoll, ScoutTypes
  <1>9. ScoutTypes'
    BY <1>5, <1>8 DEF ScoutTypes
  <1>10. PollsAreDated'
    BY <1>5 DEF PollsAreDated, ScoutTypes
  <1>11. owed \subseteq window
    <2> SUFFICES ASSUME NEW i \in owed PROVE news[i].status = "PUBLISHED" /\ news[i].createdAt >= Since
      BY <1>1, <1>7 DEF InWindow
    <2>1. i \in News /\ news[i] # NoNews /\ news[i].status = "PUBLISHED" /\ i \notin knownNews
      BY <1>2, <1>7
    <2>2. CASE lastPoll = NotYet
      BY <1>3, <2>1, <2>2 DEF Since
    <2>3. CASE lastPoll # NotYet
      BY <2>1, <2>3 DEF Since, PollsAreDated
    <2> QED BY <2>2, <2>3
  <1>12. PollOwes'
    <2>1. \A i \in owed : news[i].embedded
      BY <1>2, <1>7
    <2>2. ~ poll'.cut => owed \ waved \subseteq batch
      BY <1>6, <1>11, Zenon
    <2> QED BY <1>5, <1>6, <2>1, <2>2 DEF PollOwes
  <1>13. NewsArrives'
    BY <1>5 DEF NewsArrives
  <1> QED BY <1>9, <1>10, <1>12, <1>13

LEMMA ReadDismissedKeeps == ASSUME ScoutInv, ReadDismissed PROVE ScoutInv'
  <1> USE DEF ScoutInv
  <1>1. /\ poll.pc = "dismissed" /\ poll' = [poll EXCEPT !.pc = "scoring", !.batch = poll.batch \ waved]
        /\ UNCHANGED <<scoutClock, news, waved, lastPoll, knownNews, scouted>> /\ poll \in ScoutPoll
    BY DEF ReadDismissed, LeaveOutDismissed, ScoutTypes
  <1>2. /\ poll' \in ScoutPoll /\ poll'.pc = "scoring" /\ poll'.batch = poll.batch \ waved /\ poll'.owed = poll.owed
        /\ poll'.quiet = poll.quiet /\ poll'.cut = poll.cut
    BY <1>1, Zenon DEF ScoutPoll
  <1>3. ScoutTypes' /\ PollsAreDated' /\ NewsArrives'
    BY <1>1, <1>2 DEF ScoutTypes, PollsAreDated, NewsArrives
  <1>4. PollOwes'
    BY <1>1, <1>2 DEF PollOwes
  <1> QED BY <1>3, <1>4

\* What has a vector and a high score is in the answer, if that need not be cut.
LEMMA AnswerScoutKeeps == ASSUME ScoutInv, AnswerScout PROVE ScoutInv'
  <1> USE DEF ScoutInv
  <1>1. PICK scored : scored = {i \in poll.batch : news[i].embedded /\ NewsScore[i] >= MinScore}
    BY Zenon
  <1>2. PICK answer \in SUBSET scored :
          scouted' = [answer |-> answer, owed |-> poll.owed \ waved, quiet |-> poll.quiet,
                      cut |-> (poll.cut \/ answer # scored)]
    BY <1>1, Zenon DEF AnswerScout, Foremost
  <1>3. /\ poll.pc = "scoring" /\ poll' = NoPoll /\ UNCHANGED <<scoutClock, news, waved, lastPoll, knownNews>>
    BY DEF AnswerScout
  <1>4. /\ NoPoll \in ScoutPoll /\ NoPoll.pc = "idle" /\ NoPoll.owed = {} /\ NoPoll.quiet = {}
    BY DEF NoPoll, ScoutPoll
  <1>5. ScoutTypes' /\ PollsAreDated'
    BY <1>3, <1>4 DEF ScoutTypes, PollsAreDated
  <1>6. PollOwes'
    BY <1>3, <1>4 DEF PollOwes
  <1>7. NewsArrives'
    <2>1. /\ scouted'.answer = answer /\ scouted'.owed = poll.owed \ waved /\ scouted'.quiet = poll.quiet
          /\ (scouted'.cut <=> poll.cut \/ answer # scored)
      BY <1>2, Zenon
    <2>2. answer \cap poll.quiet = {}
      BY <1>1, <1>3 DEF PollOwes
    <2>3. ~ scouted'.cut => {i \in poll.owed \ waved : NewsScore[i] >= MinScore} \subseteq answer
      <3> SUFFICES ASSUME ~ poll.cut, answer = scored, NEW i \in poll.owed \ waved, NewsScore[i] >= MinScore
                   PROVE i \in scored
        BY <2>1
      <3> QED BY <1>1 DEF PollOwes
    <2> QED BY <2>1, <2>2, <2>3 DEF NewsArrives
  <1> QED BY <1>5, <1>6, <1>7

LEMMA ScoutStep == ScoutInv /\ [ScoutNext]_scoutVars => ScoutInv'
  <1> SUFFICES ASSUME ScoutInv, [ScoutNext]_scoutVars PROVE ScoutInv'
    OBVIOUS
  <1>1. CASE \E i \in News : (\E s \in {"PUBLISHED", "DRAFT"} : PostNews(i, s)) \/ ChangeNews(i)
    BY <1>1, NewsKeeps
  <1>2. CASE GetScout
    BY <1>2, GetScoutKeeps
  <1>3. CASE ReadDismissed
    BY <1>3, ReadDismissedKeeps
  <1>4. CASE AnswerScout
    BY <1>4, AnswerScoutKeeps
  <1>5. CASE \E i \in News : WaveAway(i)
    <2>1. PICK i \in News : waved' = waved \cup {i} /\ UNCHANGED <<scoutClock, news, poll, lastPoll, knownNews, scouted>>
      BY <1>5 DEF WaveAway
    <2> QED BY <2>1 DEF ScoutInv, ScoutTypes, PollsAreDated, PollOwes, NewsArrives
  <1>6. CASE ScoutTick
    BY <1>6 DEF ScoutTick, ScoutInv, ScoutTypes, PollsAreDated, PollOwes, NewsArrives, NotYet
  <1>7. CASE UNCHANGED scoutVars
    BY <1>7 DEF scoutVars, ScoutInv, ScoutTypes, PollsAreDated, PollOwes, NewsArrives
  <1> QED BY <1>1, <1>2, <1>3, <1>4, <1>5, <1>6, <1>7 DEF ScoutNext

-----------------------------------------------------------------------------
(* The AI service: calls, the probe and what health reads report. *)

AiTypes ==
  /\ aiClock \in Nat
  /\ aiCall \in [AiCall -> [phase : {"idle", "sent", "value", "raw", "error"}, attempt : Nat]]
  /\ outcomes \subseteq [at : Nat, ok : BOOLEAN]
  /\ heard \subseteq [call : AiCall, attempt : Nat, at : Nat, ok : BOOLEAN]
  /\ probe = NoProbe \/ probe \in [at : Nat, ready : BOOLEAN]
  /\ probing \in BOOLEAN /\ flights \in {0, 1}
  /\ health \in [HealthRead -> [phase : {"idle", "waiting", "told"}, verdict : Verdicts]]

\* The evidence is the notices of the window, and nothing else.
EvidenceIsHeard ==
  /\ \A n \in heard : n.at >= aiClock - EvidenceSpan => [at |-> n.at, ok |-> n.ok] \in outcomes
  /\ \A o \in outcomes : \E n \in heard : n.at = o.at /\ n.ok = o.ok

\* A call that is over left one notice, which says what its caller got.
NoticeOf(c, n) == {m \in heard : m.call = c} = {n} /\ (n.ok <=> aiCall[c].phase \in {"value", "raw"})
CallsAreNoted ==
  \A c \in AiCall :
    /\ aiCall[c].phase \in {"idle", "sent"} => \A n \in heard : n.call # c
    /\ aiCall[c].phase \notin {"idle", "sent"} => \E n \in heard : NoticeOf(c, n)

AiInv == AiTypes /\ OneProbeAtATime /\ EvidenceIsHeard /\ CallsAreNoted

LEMMA AiStart == AiInit => AiInv
  <1> SUFFICES ASSUME AiInit PROVE AiInv
    OBVIOUS
  <1>1. AiTypes
    BY Zenon DEF AiInit, AiTypes, Verdicts
  <1>2. OneProbeAtATime
    BY DEF AiInit, OneProbeAtATime
  <1>3. EvidenceIsHeard /\ CallsAreNoted
    BY DEF AiInit, EvidenceIsHeard, CallsAreNoted
  <1> QED BY <1>1, <1>2, <1>3 DEF AiInv

LEMMA VerdictIsOne == \A outs, last : Verdict(outs, last) \in Verdicts
  BY DEF Verdict, Verdicts

\* A read that prunes the evidence keeps what is in the window.
LEMMA PruningKeeps ==
  ASSUME AiInv, outcomes' = Pruned(outcomes), UNCHANGED <<aiClock, heard>>
  PROVE  outcomes' \subseteq [at : Nat, ok : BOOLEAN] /\ EvidenceIsHeard'
  BY DEF AiInv, AiTypes, EvidenceIsHeard, Pruned

LEMMA ReceiveKeeps ==
  ASSUME AiInv, NEW c \in AiCall, Receive(c)
  PROVE  AiInv'
  <1> USE DEF AiInv
  <1>1. PICK answer \in Answers :
          IF Retryable(answer) /\ aiCall[c].attempt < MaxRetries
          THEN aiCall' = [aiCall EXCEPT ![c].attempt = @ + 1] /\ UNCHANGED <<outcomes, heard>>
          ELSE /\ aiCall' = [aiCall EXCEPT ![c].phase =
                    CASE answer = "body" -> "value" [] answer = "cut" -> "raw" [] OTHER -> "error"]
               /\ Notify(c, answer \in {"body", "cut"})
    BY DEF Receive
  <1>2. aiCall[c].phase = "sent" /\ UNCHANGED <<aiClock, probe, probing, flights, health>>
    BY DEF Receive
  <1>3. OneProbeAtATime'
    BY <1>2 DEF OneProbeAtATime
  <1>4. CASE Retryable(answer) /\ aiCall[c].attempt < MaxRetries
    <2>1. /\ aiCall'[c].phase = "sent" /\ aiCall' \in [AiCall -> [phase : {"idle", "sent", "value", "raw", "error"}, attempt : Nat]]
          /\ \A d \in AiCall : aiCall'[d].phase = aiCall[d].phase
          /\ UNCHANGED <<outcomes, heard>>
      BY <1>1, <1>2, <1>4 DEF AiTypes
    <2>2. EvidenceIsHeard'
      BY <1>2, <2>1 DEF EvidenceIsHeard
    <2>3. CallsAreNoted'
      BY <1>2, <2>1 DEF CallsAreNoted, NoticeOf
    <2> QED BY <1>2, <1>3, <2>1, <2>2, <2>3 DEF AiTypes
  <1>5. CASE ~(Retryable(answer) /\ aiCall[c].attempt < MaxRetries)
    <2>1. PICK ok \in BOOLEAN : ok <=> answer \in {"body", "cut"}
      BY Zenon
    <2>2. PICK n : n = [call |-> c, attempt |-> aiCall[c].attempt, at |-> aiClock, ok |-> ok]
      BY Zenon
    <2>3. /\ aiCall' \in [AiCall -> [phase : {"idle", "sent", "value", "raw", "error"}, attempt : Nat]]
          /\ aiCall'[c].phase \in {"value", "raw", "error"} /\ (ok <=> aiCall'[c].phase \in {"value", "raw"})
          /\ \A d \in AiCall \ {c} : aiCall'[d] = aiCall[d]
      BY <1>1, <1>5, <2>1 DEF AiTypes, Answers
    <2>4. /\ n \in [call : AiCall, attempt : Nat, at : Nat, ok : BOOLEAN]
          /\ n.call = c /\ n.at = aiClock /\ n.ok = ok
      BY <2>2 DEF AiTypes
    <2>5. /\ heard' = heard \cup {n}
          /\ outcomes' = Pruned(outcomes \cup {[at |-> aiClock, ok |-> ok]})
      <3>1. ok = (answer \in {"body", "cut"})
        BY <2>1
      <3> QED BY <1>1, <1>5, <2>2, <3>1 DEF Notify
    <2>6. outcomes' \subseteq [at : Nat, ok : BOOLEAN]
      BY <2>5 DEF Pruned, AiTypes
    <2>7. EvidenceIsHeard'
      <3>1. ASSUME NEW m \in heard', m.at >= aiClock - EvidenceSpan PROVE [at |-> m.at, ok |-> m.ok] \in outcomes'
        BY <2>4, <2>5, <3>1 DEF EvidenceIsHeard, Pruned
      <3>2. ASSUME NEW o \in outcomes' PROVE \E m \in heard' : m.at = o.at /\ m.ok = o.ok
        BY <2>4, <2>5 DEF EvidenceIsHeard, Pruned
      <3> QED BY <1>2, <3>1, <3>2 DEF EvidenceIsHeard
    <2>8. CallsAreNoted'
      <3>1. \A m \in heard : m.call # c
        BY <1>2 DEF CallsAreNoted
      <3>2. NoticeOf(c, n)' /\ n \in heard'
        BY <2>3, <2>4, <2>5, <3>1 DEF NoticeOf
      <3>3. ASSUME NEW d \in AiCall \ {c}
            PROVE /\ {m \in heard' : m.call = d} = {m \in heard : m.call = d}
                  /\ aiCall'[d] = aiCall[d]
        BY <2>3, <2>4, <2>5
      <3>4. ASSUME NEW d \in AiCall \ {c}
            PROVE /\ aiCall'[d].phase \in {"idle", "sent"} => \A m \in heard' : m.call # d
                  /\ aiCall'[d].phase \notin {"idle", "sent"} => \E m \in heard' : NoticeOf(d, m)'
        BY <2>4, <2>5, <3>3 DEF CallsAreNoted, NoticeOf
      <3> QED BY <2>3, <3>2, <3>4 DEF CallsAreNoted
    <2>9. heard' \subseteq [call : AiCall, attempt : Nat, at : Nat, ok : BOOLEAN]
      BY <2>4, <2>5 DEF AiTypes
    <2> QED BY <1>2, <1>3, <2>3, <2>6, <2>7, <2>8, <2>9 DEF AiTypes
  <1> QED BY <1>4, <1>5

LEMMA AiStep == AiInv /\ [AiNext]_aiVars => AiInv'
  <1> SUFFICES ASSUME AiInv, [AiNext]_aiVars PROVE AiInv'
    OBVIOUS
  <1>1. ASSUME NEW c \in AiCall, Send(c) PROVE AiInv'
    BY <1>1, Zenon DEF Send, AiInv, AiTypes, OneProbeAtATime, EvidenceIsHeard, CallsAreNoted, NoticeOf
  <1>2. ASSUME NEW c \in AiCall, Receive(c) PROVE AiInv'
    BY <1>2, ReceiveKeeps
  <1>3. ASSUME NEW h \in HealthRead, ReadHealth(h) PROVE AiInv'
    <2>1. outcomes' = Pruned(outcomes) /\ UNCHANGED <<aiClock, aiCall, probe, heard>>
      BY <1>3 DEF ReadHealth
    <2>3. health' \in [HealthRead -> [phase : {"idle", "waiting", "told"}, verdict : Verdicts]]
      <3>1. PICK says \in Verdicts, phase \in {"waiting", "told"} :
              health' = [health EXCEPT ![h] = [phase |-> phase, verdict |-> says]]
        <4>1. "unknown" \in Verdicts /\ Verdict(outcomes', probe) \in Verdicts
          BY VerdictIsOne DEF Verdicts
        <4> QED BY <1>3, <4>1 DEF ReadHealth
      <3> QED BY <3>1 DEF AiInv, AiTypes
    <2>4. /\ flights' \in {0, 1} /\ probing' \in BOOLEAN
          /\ OneProbeAtATime'
      <3>1. CASE probing = TRUE
        BY <1>3, <3>1, Zenon DEF ReadHealth, AiInv, AiTypes, OneProbeAtATime
      <3>2. CASE probing = FALSE
        <4>1. flights = 0
          BY <3>2 DEF AiInv, AiTypes, OneProbeAtATime
        <4>2. (probing' = TRUE /\ flights' = 1) \/ (probing' = FALSE /\ flights' = 0)
          BY <1>3, <3>2, <4>1 DEF ReadHealth
        <4>3. CASE probing' = TRUE /\ flights' = 1
          BY <4>3 DEF OneProbeAtATime
        <4>4. CASE probing' = FALSE /\ flights' = 0
          <5>1. flights' # 1 /\ flights' <= 1
            BY <4>4
          <5> QED BY <4>4, <5>1, Zenon DEF OneProbeAtATime
        <4> QED BY <4>2, <4>3, <4>4, Zenon
      <3> QED BY <3>1, <3>2, Zenon DEF AiInv, AiTypes
    <2>2. outcomes' \subseteq [at : Nat, ok : BOOLEAN] /\ EvidenceIsHeard'
      BY <2>1, PruningKeeps
    <2> QED BY <2>1, <2>2, <2>3, <2>4 DEF AiInv, AiTypes, CallsAreNoted, NoticeOf
  <1>4. CASE ProbeAnswers
    <2>1. /\ outcomes' = Pruned(outcomes) /\ UNCHANGED <<aiClock, aiCall, heard>>
          /\ flights' = 0 /\ probing' = FALSE
      <3>1. flights = 1
        BY <1>4 DEF ProbeAnswers, AiInv, AiTypes
      <3> QED BY <1>4, <3>1 DEF ProbeAnswers
    <2>3. probe' \in [at : Nat, ready : BOOLEAN]
      <3>1. PICK ready \in BOOLEAN : probe' = [at |-> aiClock, ready |-> ready]
        BY <1>4, Zenon DEF ProbeAnswers, ReadyStatus
      <3> QED BY <3>1 DEF AiInv, AiTypes
    <2>4. health' \in [HealthRead -> [phase : {"idle", "waiting", "told"}, verdict : Verdicts]]
      <3>1. PICK says \in Verdicts : says = Verdict(outcomes', probe')
        BY VerdictIsOne
      <3>2. health' = [h \in HealthRead |->
              IF health[h].phase = "waiting" THEN [phase |-> "told", verdict |-> says] ELSE health[h]]
        BY <1>4, <3>1 DEF ProbeAnswers
      <3> QED BY <3>2 DEF AiInv, AiTypes
    <2>2. outcomes' \subseteq [at : Nat, ok : BOOLEAN] /\ EvidenceIsHeard'
      BY <2>1, PruningKeeps
    <2>5. OneProbeAtATime'
      BY <2>1 DEF OneProbeAtATime
    <2> QED BY <2>1, <2>2, <2>3, <2>4, <2>5, Zenon DEF AiInv, AiTypes, CallsAreNoted, NoticeOf
  <1>5. ASSUME NEW h \in HealthRead, ReadAgain(h) PROVE AiInv'
    BY <1>5, Zenon DEF ReadAgain, AiInv, AiTypes, OneProbeAtATime, EvidenceIsHeard, CallsAreNoted, NoticeOf, Verdicts
  <1>6. CASE AiTick
    BY <1>6, AiAssumption DEF AiTick, AiInv, AiTypes, OneProbeAtATime, EvidenceIsHeard, CallsAreNoted, NoticeOf
  <1>7. CASE UNCHANGED aiVars
    BY <1>7 DEF aiVars, AiInv, AiTypes, OneProbeAtATime, EvidenceIsHeard, CallsAreNoted, NoticeOf
  <1> QED BY <1>1, <1>2, <1>3, <1>4, <1>5, <1>6, <1>7 DEF AiNext

LEMMA AiSound == AiInv => OneProbeAtATime /\ CallsCountOnce
  <1> SUFFICES ASSUME AiInv PROVE CallsCountOnce
    BY DEF AiInv
  <1> USE DEF AiInv, CallsAreNoted
  <1>1. ASSUME NEW c \in AiCall
        PROVE /\ Cardinality({n \in heard : n.call = c}) = IF aiCall[c].phase \in {"idle", "sent"} THEN 0 ELSE 1
              /\ \A n \in {n \in heard : n.call = c} : n.ok <=> aiCall[c].phase \in {"value", "raw"}
    <2>1. CASE aiCall[c].phase \in {"idle", "sent"}
      <3>1. {n \in heard : n.call = c} = {}
        BY <2>1
      <3> QED BY <2>1, <3>1, FS_EmptySet
    <2>2. CASE aiCall[c].phase \notin {"idle", "sent"}
      <3>1. PICK n \in heard : NoticeOf(c, n)
        BY <2>2
      <3> QED BY <2>2, <3>1, FS_Singleton DEF NoticeOf
    <2> QED BY <2>1, <2>2
  <1> QED BY <1>1 DEF CallsCountOnce

\* What the evidence says is what was heard.
LEMMA VerdictIsEarned ==
  ASSUME AiInv, NEW last,
         NEW recent, recent = {n \in heard : n.at >= aiClock - EvidenceSpan}
  PROVE  LET good == \E n \in recent : n.ok
             bad == \E n \in recent : ~n.ok
         IN  Verdict(Pruned(outcomes), last) =
               IF good THEN IF bad THEN "degraded" ELSE "up"
               ELSE IF bad THEN "down"
               ELSE IF last = NoProbe THEN "unknown" ELSE IF last.ready THEN "up" ELSE "down"
  <1>1. (\E o \in Pruned(outcomes) : o.ok) <=> \E n \in recent : n.ok
    BY Zenon DEF AiInv, EvidenceIsHeard, Pruned
  <1>2. (\E o \in Pruned(outcomes) : ~o.ok) <=> \E n \in recent : ~n.ok
    BY Zenon DEF AiInv, EvidenceIsHeard, Pruned
  <1> QED BY <1>1, <1>2 DEF Verdict

LEMMA AiTells == AiInv /\ [AiNext]_aiVars => VerdictsAreEarned
  <1> SUFFICES ASSUME AiInv, [AiNext]_aiVars,
                      NEW h \in HealthRead, health[h].phase # "told", health'[h].phase = "told"
               PROVE  LET recent == {n \in heard : n.at >= aiClock - EvidenceSpan}
                          good == \E n \in recent : n.ok
                          bad == \E n \in recent : ~n.ok
                      IN  CASE good /\ bad -> health'[h].verdict = "degraded"
                            [] good /\ ~bad -> health'[h].verdict = "up"
                            [] ~good /\ bad -> health'[h].verdict = "down"
                            [] OTHER -> /\ probe' # NoProbe /\ aiClock - probe'.at <= Cooldown
                                        /\ health'[h].verdict = (IF probe'.ready THEN "up" ELSE "down")
    BY DEF VerdictsAreEarned
  <1>1. PICK recent : recent = {n \in heard : n.at >= aiClock - EvidenceSpan}
    BY Zenon
  <1>2. /\ health'[h].verdict = Verdict(Pruned(outcomes), probe')
        /\ Pruned(outcomes) = {} => probe' # NoProbe /\ aiClock - probe'.at <= Cooldown
    <2>1. CASE ReadHealth(h)
      <3>1. ~ShouldProbe /\ outcomes' = Pruned(outcomes) /\ probe' = probe
        BY <2>1 DEF ReadHealth, AiInv, AiTypes
      <3>2. health'[h].verdict = Verdict(outcomes', probe)
        BY <2>1, <3>1 DEF ReadHealth, AiInv, AiTypes
      <3>3. Pruned(outcomes) = {} => probe # NoProbe /\ ~(aiClock - probe.at > Cooldown)
        BY <3>1 DEF ShouldProbe
      <3>4. probe # NoProbe => probe.at \in Nat
        BY DEF AiInv, AiTypes
      <3>5. Pruned(outcomes) = {} => aiClock - probe.at <= Cooldown
        BY <3>3, <3>4, AiAssumption DEF AiInv, AiTypes
      <3> QED BY <3>1, <3>2, <3>3, <3>5
    <2>2. ASSUME NEW g \in HealthRead, g # h, ReadHealth(g) PROVE FALSE
      BY <2>2 DEF ReadHealth, AiInv, AiTypes
    <2>3. CASE ProbeAnswers
      <3>1. outcomes' = Pruned(outcomes) /\ probe'.at = aiClock /\ probe' # NoProbe
        BY <2>3 DEF ProbeAnswers, NoProbe, AiInv, AiTypes
      <3>2. health'[h].verdict = Verdict(outcomes', probe')
        BY <2>3 DEF ProbeAnswers
      <3>3. aiClock - probe'.at <= Cooldown
        BY <3>1, AiAssumption DEF AiInv, AiTypes
      <3> QED BY <3>1, <3>2, <3>3
    <2>4. CASE \E g \in HealthRead : ReadAgain(g)
      BY <2>4 DEF ReadAgain, AiInv, AiTypes
    <2>5. CASE UNCHANGED health
      BY <2>5
    <2> QED BY <2>1, <2>2, <2>3, <2>4, <2>5 DEF AiNext, aiVars, Send, Receive, AiTick
  <1>3. (\A n \in recent : FALSE) => Pruned(outcomes) = {}
    BY <1>1 DEF AiInv, EvidenceIsHeard, Pruned
  <1>4. ASSUME NEW n \in recent PROVE n.ok \in BOOLEAN
    BY <1>1 DEF AiInv, AiTypes
  <1> QED BY <1>1, <1>2, <1>3, <1>4, VerdictIsEarned, Zenon

-----------------------------------------------------------------------------
(* Alerts: keys claimed, errors silenced, the counter. *)

AlertPhases == {"new", "look", "claim", "record", "post", "count", "expire", "done"}
AlertNotes == [by : ServerError, print : Prints, at : Nat]

AlertTypes ==
  /\ alertClock \in Nat /\ alertClock <= LastAlertTick
  /\ dedupUntil \in [Prints -> Nat]
  /\ errorCount \in [n : Nat, until : Nat]
  /\ handling \in [ServerError -> [phase : AlertPhases, print : Prints]]
  /\ incidents \subseteq AlertNotes /\ slacked \subseteq AlertNotes /\ claims \subseteq AlertNotes /\ silenced \subseteq AlertNotes
  /\ counted \subseteq [by : ServerError, at : Nat, reached : Nat] /\ IsFiniteSet(counted)

\* A claim is on the ledger, on its way there, or its loss is on record.
CoversIt(c) ==
  \/ \E item \in incidents : item.by = c.by /\ item.print = c.print
  \/ handling[c.by] = At("record", c.print)
  \/ <<c.by, c.print>> \in excused
ClaimsCover == \A c \in claims : CoversIt(c)

\* The key of a print is the last claim of it: it stands for a window from there.
KeysAreClaims ==
  /\ \A p \in Prints : dedupUntil[p] # Never => \E c \in claims : c.print = p /\ dedupUntil[p] = c.at + DedupSpan
  /\ \A c \in claims : c.at <= alertClock /\ c.at + DedupSpan <= dedupUntil[c.print]

SilencedAreCovered == \A s \in silenced : \E c \in claims : c.print = s.print /\ c.at <= s.at /\ s.at < c.at + DedupSpan

\* An error about to claim found no key that stands, and none is set beside it but on record.
Apart(c, d) == c.at >= d.at + DedupSpan \/ d.at >= c.at + DedupSpan
Loose(by, print) == <<by, print>> \notin excused
ClaimsAreApart ==
  /\ \A e \in ServerError, c \in claims :
       Phase(e) = "claim" /\ c.print = handling[e].print /\ c.by # e /\ Loose(e, c.print) => c.at + DedupSpan <= alertClock
  /\ \A c, d \in claims : c.by # d.by /\ c.print = d.print /\ Loose(c.by, c.print) /\ Loose(d.by, d.print) => Apart(c, d)

\* An error is counted once, after its own alert, and from then on is about the rate.
CountedOnce ==
  /\ \A d \in counted : /\ d.at <= alertClock /\ handling[d.by].print = RateAlarm
                        /\ handling[d.by].phase \notin {"new", "count"}
  /\ \A e \in ServerError : Phase(e) = "expire" => \E c \in counted : c.by = e /\ c.at = alertClock
  /\ \A e \in ServerError : Phase(e) = "count" => handling[e].print = RateAlarm

\* The window of the counter that stands began when its first error was counted, and holds what
\* it counts.
CountedFrom(t) == {d \in counted : d.at >= t}
LostExpiry == <<"expire", RateAlarm>> \in excused
WindowHolds ==
  LostExpiry \/
    /\ \A e \in ServerError : Phase(e) = "expire" =>
         /\ errorCount.until = NoTtl
         /\ \A f \in ServerError \ {e} : Phase(f) # "expire"
         /\ errorCount.n <= Cardinality(CountedFrom(alertClock))
    /\ errorCount.until > alertClock =>
         /\ errorCount.n >= 1
         /\ \/ \E e \in ServerError : Phase(e) = "expire"
            \/ errorCount.n <= Cardinality(CountedFrom(errorCount.until - RateSpan)) /\ errorCount.until <= alertClock + RateSpan

\* An alarm of the rate has its errors from the moment it is judged.
RateReached(c) == Cardinality({d \in counted : d.at > c.at - RateSpan /\ d.at <= c.at}) >= RateThreshold
BackedUp(e) == \E c \in counted : c.by = e /\ RateReached(c)
AlarmsAreFull ==
  LostExpiry \/
    /\ \A e \in ServerError : handling[e].print = RateAlarm /\ Phase(e) \in {"look", "claim", "record", "post"} => BackedUp(e)
    /\ \A item \in incidents : item.print = RateAlarm => BackedUp(item.by)

AlertInv ==
  /\ AlertTypes /\ ClaimsCover /\ KeysAreClaims /\ SilencedAreCovered /\ ClaimsAreApart
  /\ CountedOnce /\ WindowHolds /\ AlarmsAreFull

LEMMA AlertStart == AlertInit => AlertInv
  <1> SUFFICES ASSUME AlertInit PROVE AlertInv
    OBVIOUS
  <1>1. RateAlarm \in Prints /\ Never \in Nat
    BY DEF Prints, Never
  <1>2. AlertTypes
    BY <1>1, AlertAssumption, FS_EmptySet DEF AlertInit, AlertTypes, At, AlertPhases
  <1>3. ClaimsCover /\ KeysAreClaims /\ SilencedAreCovered /\ CountedOnce
    BY <1>1 DEF AlertInit, ClaimsCover, KeysAreClaims, SilencedAreCovered, CountedOnce, At, Phase, Never
  <1>4. ClaimsAreApart /\ WindowHolds /\ AlarmsAreFull
    BY <1>1 DEF AlertInit, ClaimsAreApart, WindowHolds, AlarmsAreFull, At, Phase, Never
  <1> QED BY <1>2, <1>3, <1>4 DEF AlertInv

\* Steps that leave an invariant alone.

LEMMA CoverGoesOn ==
  ASSUME ClaimsCover, claims' = claims, incidents \subseteq incidents', excused \subseteq excused',
         \A c \in claims : handling[c.by] = At("record", c.print) => handling'[c.by] = handling[c.by] \/ CoversIt(c)'
  PROVE  ClaimsCover'
  BY Zenon DEF ClaimsCover, CoversIt

LEMMA ApartGoesOn ==
  ASSUME AlertTypes, ClaimsAreApart, claims' = claims, excused \subseteq excused',
         alertClock' \in Nat, alertClock <= alertClock',
         \A e \in ServerError : handling'[e].phase = "claim" => handling'[e] = handling[e]
  PROVE  ClaimsAreApart'
  <1>1. ASSUME NEW e \in ServerError, NEW c \in claims, handling'[e].phase = "claim",
               c.print = handling'[e].print, c.by # e, <<e, c.print>> \notin excused'
        PROVE c.at + DedupSpan <= alertClock'
    <2>1. c.at + DedupSpan <= alertClock /\ c.at \in Nat
      BY <1>1 DEF ClaimsAreApart, Phase, Loose, AlertTypes, AlertNotes
    <2> QED BY <2>1, AlertAssumption DEF AlertTypes
  <1> QED BY <1>1 DEF ClaimsAreApart, Phase, Loose, Apart

LEMMA CountGoesOn ==
  ASSUME AlertTypes, CountedOnce, counted' = counted, alertClock' = alertClock,
         \A e \in ServerError : /\ handling[e].print = RateAlarm /\ handling[e].phase \notin {"new", "count"}
                                   => handling'[e].print = RateAlarm /\ handling'[e].phase \notin {"new", "count"}
                                /\ handling'[e].phase = "expire" => handling[e].phase = "expire"
                                /\ handling'[e].phase = "count" => handling'[e].print = RateAlarm \/ handling'[e] = handling[e]
  PROVE  CountedOnce'
  BY DEF CountedOnce, Phase, AlertTypes

LEMMA WindowGoesOn ==
  ASSUME WindowHolds, UNCHANGED <<counted, alertClock, errorCount>>, excused \subseteq excused',
         \A e \in ServerError : handling'[e].phase = "expire" <=> handling[e].phase = "expire"
  PROVE  WindowHolds'
  <1>1. CASE LostExpiry
    BY <1>1 DEF LostExpiry, WindowHolds
  <1>2. CASE ~LostExpiry
    BY <1>2 DEF WindowHolds, Phase, CountedFrom
  <1> QED BY <1>1, <1>2

LEMMA AlarmsGoOn ==
  ASSUME AlarmsAreFull, counted' = counted, excused \subseteq excused',
         \A e \in ServerError : handling'[e].print = RateAlarm /\ handling'[e].phase \in {"look", "claim", "record", "post"}
                                => handling[e].print = RateAlarm /\ handling[e].phase \in {"look", "claim", "record", "post"},
         \A item \in incidents' : item \in incidents
                                  \/ (item.by \in ServerError /\ item.print = handling[item.by].print /\ handling[item.by].phase = "record")
  PROVE  AlarmsAreFull'
  <1>1. CASE LostExpiry
    BY <1>1 DEF LostExpiry, AlarmsAreFull
  <1>2. CASE ~LostExpiry
    <2>1. \A e \in ServerError : BackedUp(e)' <=> BackedUp(e)
      BY DEF BackedUp, RateReached
    <2>2. ASSUME NEW item \in incidents', item.print = RateAlarm PROVE BackedUp(item.by)'
      <3>1. BackedUp(item.by)
        BY <1>2, <2>2 DEF AlarmsAreFull, Phase
      <3> QED BY <3>1, Zenon DEF BackedUp, RateReached
    <2> QED BY <1>2, <2>1, <2>2 DEF AlarmsAreFull, Phase
  <1> QED BY <1>1, <1>2

\* One error moves on.
LEMMA OneMoves ==
  ASSUME AlertTypes, NEW e \in ServerError, NEW h \in [phase : AlertPhases, print : Prints], handling' = [handling EXCEPT ![e] = h]
  PROVE  /\ handling' \in [ServerError -> [phase : AlertPhases, print : Prints]]
         /\ handling'[e] = h /\ \A f \in ServerError \ {e} : handling'[f] = handling[f]
  BY DEF AlertTypes

LEMMA GoesTo ==
  ASSUME AlertTypes, NEW e \in ServerError, NEW phase \in AlertPhases, Go(e, phase)
  PROVE  handling' = [handling EXCEPT ![e] = At(phase, handling[e].print)]
  <1>1. handling[e] \in [phase : AlertPhases, print : Prints]
    BY DEF AlertTypes
  <1>2. [handling[e] EXCEPT !.phase = phase] = [phase |-> phase, print |-> handling[e].print]
    BY <1>1
  <1>3. handling' = [handling EXCEPT ![e] = [handling[e] EXCEPT !.phase = phase]]
    BY DEF Go, AlertTypes
  <1> QED BY <1>2, <1>3, Zenon DEF At

LEMMA SpotsOfAnError ==
  /\ \A phase \in AlertPhases, print \in Prints : At(phase, print) \in [phase : AlertPhases, print : Prints]
  /\ \A phase, print : At(phase, print).phase = phase /\ At(phase, print).print = print
  /\ RateAlarm \in Prints /\ \A e \in ServerError : Cause[e] \in Prints /\ Cause[e] # RateAlarm
  BY AlertAssumption DEF At, Prints, RateAlarm

LEMMA OnServerErrorKeeps ==
  ASSUME AlertInv, NEW e \in ServerError, OnServerError(e)
  PROVE  AlertInv'
  <1> USE DEF AlertInv
  <1>1. PICK h : h = IF e \in DatabaseErrors THEN At("look", Cause[e]) ELSE At("count", RateAlarm)
    OBVIOUS
  <1>2. /\ h \in [phase : AlertPhases, print : Prints] /\ h.phase \in {"look", "count"}
        /\ h.phase = "look" => h.print # RateAlarm
        /\ h.phase = "count" => h.print = RateAlarm
    BY <1>1, SpotsOfAnError DEF AlertPhases
  <1>3. handling' = [handling EXCEPT ![e] = h] /\ handling[e].phase = "new"
    BY <1>1 DEF OnServerError, Phase
  <1>4. UNCHANGED <<alertClock, incidents, slacked, dedupUntil, errorCount, claims, silenced, counted, excused>>
    BY DEF OnServerError, alertWorld, alertBooks
  <1>5. /\ handling' \in [ServerError -> [phase : AlertPhases, print : Prints]]
        /\ handling'[e] = h /\ \A f \in ServerError \ {e} : handling'[f] = handling[f]
    BY <1>2, <1>3, OneMoves, Zenon
  <1>6. AlertTypes' /\ KeysAreClaims' /\ SilencedAreCovered'
    BY <1>4, <1>5 DEF AlertTypes, KeysAreClaims, SilencedAreCovered
  <1>7. ClaimsCover'
    BY <1>3, <1>4, <1>5, CoverGoesOn, SpotsOfAnError DEF AlertTypes, AlertNotes
  <1>8. ClaimsAreApart'
    BY <1>2, <1>3, <1>4, <1>5, ApartGoesOn DEF AlertTypes
  <1>9. CountedOnce'
    BY <1>2, <1>3, <1>4, <1>5, CountGoesOn
  <1>10. WindowHolds'
    BY <1>2, <1>3, <1>4, <1>5, WindowGoesOn
  <1>11. AlarmsAreFull'
    BY <1>2, <1>3, <1>4, <1>5, AlarmsGoOn
  <1> QED BY <1>6, <1>7, <1>8, <1>9, <1>10, <1>11

LEMMA LookUpKeeps ==
  ASSUME AlertInv, NEW e \in ServerError, LookUp(e)
  PROVE  AlertInv'
  <1> USE DEF AlertInv
  <1>1. PICK print : print = handling[e].print
    OBVIOUS
  <1>2. /\ handling[e].phase = "look" /\ print \in Prints /\ print = handling[e].print
        /\ UNCHANGED <<alertClock, incidents, slacked, dedupUntil, errorCount, claims, counted>>
    BY <1>1 DEF LookUp, Phase, alertWorld, alertBooks, AlertTypes
  <1>3. PICK h \in [phase : AlertPhases, print : Prints] :
          /\ handling' = [handling EXCEPT ![e] = h]
          /\ h.phase \in {"record", "claim", "count", "done"}
          /\ h.phase \in {"record", "claim"} => h.print = print
          /\ h.phase \in {"count", "done"} => h.print = RateAlarm /\ (print = RateAlarm => h.phase = "done")
          /\ h.phase = "record" => excused' = excused \cup {<<e, print>>} /\ UNCHANGED silenced
          /\ h.phase = "claim" => dedupUntil[print] <= alertClock /\ UNCHANGED <<silenced, excused>>
          /\ h.phase \in {"count", "done"} =>
               /\ dedupUntil[print] > alertClock /\ UNCHANGED excused
               /\ silenced' = silenced \cup {[by |-> e, print |-> print, at |-> alertClock]}
    <2>1. CASE ~redisUp
      <3>1. Go(e, "record") /\ excused' = excused \cup {<<e, print>>} /\ UNCHANGED silenced
        BY <1>1, <2>1 DEF LookUp
      <3> QED BY <1>2, <3>1, GoesTo, SpotsOfAnError DEF AlertPhases
    <2>2. CASE redisUp /\ dedupUntil[print] > alertClock
      <3>1. /\ handling' = [handling EXCEPT ![e] = AfterAlert(e)] /\ UNCHANGED excused
            /\ silenced' = silenced \cup {[by |-> e, print |-> print, at |-> alertClock]}
        BY <1>1, <2>2 DEF LookUp
      <3>2. AfterAlert(e) = IF print = RateAlarm THEN At("done", RateAlarm) ELSE At("count", RateAlarm)
        BY <1>2 DEF AfterAlert
      <3>3. PICK next : next = AfterAlert(e)
        OBVIOUS
      <3>4. /\ next \in [phase : AlertPhases, print : Prints] /\ next.phase \in {"count", "done"}
            /\ next.print = RateAlarm /\ (print = RateAlarm => next.phase = "done")
        BY <3>2, <3>3, SpotsOfAnError DEF AlertPhases
      <3> QED BY <2>2, <3>1, <3>3, <3>4, Zenon
    <2>3. CASE redisUp /\ ~(dedupUntil[print] > alertClock)
      <3>1. Go(e, "claim") /\ UNCHANGED <<silenced, excused>>
        BY <1>1, <2>3 DEF LookUp
      <3>2. dedupUntil[print] <= alertClock
        BY <1>2, <2>3 DEF AlertTypes
      <3> QED BY <1>2, <3>1, <3>2, GoesTo, SpotsOfAnError DEF AlertPhases
    <2> QED BY <2>1, <2>2, <2>3
  <1>4. /\ handling' \in [ServerError -> [phase : AlertPhases, print : Prints]]
        /\ handling'[e] = h /\ \A f \in ServerError \ {e} : handling'[f] = handling[f]
    BY <1>3, OneMoves, Zenon
  <1>5. excused \subseteq excused' /\ silenced' \subseteq AlertNotes
    BY <1>2, <1>3 DEF AlertTypes, AlertNotes
  <1>6. AlertTypes' /\ KeysAreClaims'
    BY <1>2, <1>4, <1>5 DEF AlertTypes, KeysAreClaims
  <1>7. SilencedAreCovered'
    <2>1. CASE silenced' = silenced
      BY <1>2, <2>1 DEF SilencedAreCovered
    <2>2. CASE silenced' # silenced
      <3>1. dedupUntil[print] > alertClock /\ silenced' = silenced \cup {[by |-> e, print |-> print, at |-> alertClock]}
        BY <1>3, <2>2
      <3>2. PICK c \in claims : c.print = print /\ dedupUntil[print] = c.at + DedupSpan
        BY <1>2, <3>1 DEF KeysAreClaims, Never, AlertTypes
      <3>3. c.at <= alertClock
        BY DEF KeysAreClaims
      <3> QED BY <1>2, <3>1, <3>2, <3>3 DEF SilencedAreCovered
    <2> QED BY <2>1, <2>2
  <1>8. ClaimsCover'
    BY <1>2, <1>4, <1>5, CoverGoesOn, SpotsOfAnError DEF AlertTypes, AlertNotes
  <1>9. ClaimsAreApart'
    <2>1. ASSUME NEW f \in ServerError, NEW c \in claims, handling'[f].phase = "claim",
                 c.print = handling'[f].print, c.by # f, <<f, c.print>> \notin excused'
          PROVE c.at + DedupSpan <= alertClock
      <3>1. CASE f = e
        <4>1. dedupUntil[c.print] <= alertClock /\ c.print \in Prints /\ c.at \in Nat
          BY <1>3, <1>4, <2>1, <3>1 DEF AlertTypes, AlertNotes
        <4>2. c.at + DedupSpan <= dedupUntil[c.print]
          BY DEF KeysAreClaims
        <4> QED BY <4>1, <4>2, AlertAssumption DEF AlertTypes
      <3>2. CASE f # e
        BY <1>4, <1>5, <2>1, <3>2 DEF ClaimsAreApart, Phase, Loose
      <3> QED BY <3>1, <3>2
    <2>2. \A c, d \in claims : c.by # d.by /\ c.print = d.print /\ Loose(c.by, c.print)' /\ Loose(d.by, d.print)' => Apart(c, d)
      BY <1>5 DEF ClaimsAreApart, Loose
    <2> QED BY <1>2, <2>1, <2>2 DEF ClaimsAreApart, Phase, Loose, Apart
  <1>10. CountedOnce'
    BY <1>2, <1>3, <1>4, CountGoesOn
  <1>11. WindowHolds'
    BY <1>2, <1>3, <1>4, <1>5, WindowGoesOn
  <1>12. AlarmsAreFull'
    BY <1>2, <1>3, <1>4, <1>5, AlarmsGoOn
  <1> QED BY <1>6, <1>7, <1>8, <1>9, <1>10, <1>11, <1>12

LEMMA ClaimKeeps ==
  ASSUME AlertInv, NEW e \in ServerError, Claim(e)
  PROVE  AlertInv'
  <1> USE DEF AlertInv
  <1>1. PICK print : print = handling[e].print
    OBVIOUS
  <1>2. /\ handling[e].phase = "claim" /\ print \in Prints /\ print = handling[e].print
        /\ Go(e, "record")
        /\ UNCHANGED <<alertClock, incidents, slacked, errorCount, counted, silenced>>
    BY <1>1 DEF Claim, Phase, alertWorld, alertBooks, AlertTypes
  <1>3. /\ handling' = [handling EXCEPT ![e] = At("record", print)]
        /\ At("record", print) \in [phase : AlertPhases, print : Prints]
    BY <1>2, GoesTo, SpotsOfAnError DEF AlertPhases
  <1>4. /\ handling' \in [ServerError -> [phase : AlertPhases, print : Prints]]
        /\ handling'[e] = At("record", print) /\ handling'[e].phase = "record" /\ handling'[e].print = print
        /\ \A f \in ServerError \ {e} : handling'[f] = handling[f]
    <2>1. PICK h : h = At("record", print)
      OBVIOUS
    <2>2. h.phase = "record" /\ h.print = print
      BY <2>1, SpotsOfAnError
    <2> QED BY <1>3, <2>1, <2>2, OneMoves, Zenon
  <1>5. PICK c : c = [by |-> e, print |-> print, at |-> alertClock]
    BY Zenon
  <1>6. c \in AlertNotes /\ c.by = e /\ c.print = print /\ c.at = alertClock
    BY <1>2, <1>5 DEF AlertNotes, AlertTypes
  <1>7. \/ /\ dedupUntil' = [dedupUntil EXCEPT ![print] = alertClock + DedupSpan] /\ claims' = claims \cup {c}
           /\ excused \subseteq excused'
           /\ \A f \in ServerError \ {e} : handling[f].phase = "claim" /\ handling[f].print = print => <<f, print>> \in excused'
        \/ UNCHANGED <<dedupUntil, claims>> /\ excused' = excused \cup {<<e, print>>}
    <2>1. CASE redisUp
      <3>1. /\ dedupUntil' = [dedupUntil EXCEPT ![print] = alertClock + DedupSpan] /\ claims' = claims \cup {c}
            /\ excused' = excused \cup {<<f, print>> : f \in {f \in ServerError \ {e} : Phase(f) = "claim" /\ handling[f].print = print}}
        BY <1>1, <1>5, <2>1 DEF Claim
      <3> QED BY <3>1 DEF Phase
    <2>2. CASE ~redisUp
      BY <1>1, <2>2 DEF Claim
    <2> QED BY <2>1, <2>2
  <1>8. excused \subseteq excused' /\ claims \subseteq claims'
    BY <1>7
  <1>9. AlertTypes'
    <2>1. dedupUntil' \in [Prints -> Nat]
      <3>1. alertClock + DedupSpan \in Nat
        BY AlertAssumption DEF AlertTypes
      <3> QED BY <1>7, <3>1 DEF AlertTypes
    <2> QED BY <1>2, <1>4, <1>6, <1>7, <2>1 DEF AlertTypes
  <1>10. SilencedAreCovered'
    BY <1>2, <1>8 DEF SilencedAreCovered
  <1>11. CountedOnce'
    BY <1>2, <1>4, CountGoesOn
  <1>12. WindowHolds'
    BY <1>2, <1>4, <1>8, WindowGoesOn
  <1>13. AlarmsAreFull'
    BY <1>2, <1>4, <1>8, AlarmsGoOn
  <1>14. CASE UNCHANGED <<dedupUntil, claims>>
    <2>1. KeysAreClaims'
      BY <1>2, <1>14 DEF KeysAreClaims
    <2>2. ClaimsCover'
      BY <1>2, <1>4, <1>8, <1>14, CoverGoesOn, SpotsOfAnError DEF AlertTypes, AlertNotes
    <2>3. ClaimsAreApart'
      BY <1>2, <1>4, <1>8, <1>14, ApartGoesOn DEF AlertTypes
    <2> QED BY <1>9, <1>10, <1>11, <1>12, <1>13, <2>1, <2>2, <2>3
  <1>15. CASE /\ dedupUntil' = [dedupUntil EXCEPT ![print] = alertClock + DedupSpan] /\ claims' = claims \cup {c}
              /\ \A f \in ServerError \ {e} : handling[f].phase = "claim" /\ handling[f].print = print => <<f, print>> \in excused'
    <2>1. KeysAreClaims'
      <3>1. ASSUME NEW p \in Prints, dedupUntil'[p] # Never
            PROVE \E d \in claims' : d.print = p /\ dedupUntil'[p] = d.at + DedupSpan
        BY <1>2, <1>6, <1>15, <3>1 DEF KeysAreClaims, AlertTypes
      <3>2. ASSUME NEW d \in claims' PROVE d.at <= alertClock /\ d.at + DedupSpan <= dedupUntil'[d.print]
        <4>1. d.at \in Nat /\ d.print \in Prints
          BY <1>6, <1>15 DEF AlertTypes, AlertNotes
        <4>2. d.at <= alertClock
          BY <1>6, <1>15, <4>1 DEF KeysAreClaims, AlertTypes
        <4>3. CASE d.print = print
          BY <1>2, <1>15, <4>1, <4>2, <4>3, AlertAssumption DEF AlertTypes
        <4>4. CASE d.print # print
          BY <1>6, <1>15, <4>1, <4>2, <4>4 DEF KeysAreClaims, AlertTypes
        <4> QED BY <4>2, <4>3, <4>4
      <3> QED BY <1>2, <3>1, <3>2 DEF KeysAreClaims
    <2>2. ClaimsCover'
      <3>1. ASSUME NEW d \in claims PROVE CoversIt(d)'
        <4>1. CASE d.by = e
          <5>1. handling[e] # At("record", d.print)
            BY <1>2, SpotsOfAnError
          <5> QED BY <1>2, <1>8, <4>1, <5>1 DEF ClaimsCover, CoversIt
        <4>2. CASE d.by # e
          BY <1>2, <1>4, <1>8, <4>2 DEF ClaimsCover, CoversIt, AlertTypes, AlertNotes
        <4> QED BY <4>1, <4>2
      <3>2. CoversIt(c)'
        BY <1>4, <1>6 DEF CoversIt
      <3> QED BY <1>15, <3>1, <3>2 DEF ClaimsCover
    <2>3. ClaimsAreApart'
      <3>1. ASSUME NEW f \in ServerError, NEW d \in claims', handling'[f].phase = "claim",
                   d.print = handling'[f].print, d.by # f, <<f, d.print>> \notin excused'
            PROVE d.at + DedupSpan <= alertClock
        <4>1. f # e /\ handling'[f] = handling[f]
          BY <1>4, <3>1
        <4>2. d # c
          BY <1>6, <1>15, <3>1, <4>1
        <4> QED BY <1>8, <1>15, <3>1, <4>1, <4>2 DEF ClaimsAreApart, Phase, Loose
      <3>2. ASSUME NEW d \in claims, d.by # e, d.print = print, <<d.by, print>> \notin excused', <<e, print>> \notin excused'
            PROVE alertClock >= d.at + DedupSpan
        <4>1. d.at + DedupSpan <= alertClock /\ d.at \in Nat
          BY <1>2, <1>8, <3>2 DEF ClaimsAreApart, Phase, Loose, AlertTypes, AlertNotes
        <4> QED BY <4>1, AlertAssumption DEF AlertTypes
      <3>3. ASSUME NEW a \in claims', NEW b \in claims', a.by # b.by, a.print = b.print,
                   <<a.by, a.print>> \notin excused', <<b.by, b.print>> \notin excused'
            PROVE Apart(a, b)
        <4>1. CASE a \in claims /\ b \in claims
          BY <1>8, <3>3, <4>1 DEF ClaimsAreApart, Loose
        <4>2. CASE a = c /\ b \in claims
          BY <1>6, <3>2, <3>3, <4>2 DEF Apart
        <4>3. CASE b = c /\ a \in claims
          BY <1>6, <3>2, <3>3, <4>3 DEF Apart
        <4> QED BY <1>6, <1>15, <3>3, <4>1, <4>2, <4>3
      <3> QED BY <1>2, <3>1, <3>3 DEF ClaimsAreApart, Phase, Loose, Apart
    <2> QED BY <1>9, <1>10, <1>11, <1>12, <1>13, <2>1, <2>2, <2>3
  <1> QED BY <1>7, <1>14, <1>15

LEMMA RecordKeeps ==
  ASSUME AlertInv, NEW e \in ServerError, Record(e)
  PROVE  AlertInv'
  <1> USE DEF AlertInv
  <1>1. PICK print : print = handling[e].print
    OBVIOUS
  <1>2. /\ handling[e].phase = "record" /\ print \in Prints /\ print = handling[e].print
        /\ Go(e, "post")
        /\ UNCHANGED <<alertClock, slacked, dedupUntil, errorCount, claims, counted, silenced>>
    BY <1>1 DEF Record, Phase, alertWorld, AlertTypes
  <1>3. PICK h : h = At("post", print)
    OBVIOUS
  <1>4. h \in [phase : AlertPhases, print : Prints] /\ h.phase = "post" /\ h.print = print
    BY <1>2, <1>3, SpotsOfAnError DEF AlertPhases
  <1>5. handling' = [handling EXCEPT ![e] = h]
    BY <1>2, <1>3, GoesTo DEF AlertPhases
  <1>6. /\ handling' \in [ServerError -> [phase : AlertPhases, print : Prints]]
        /\ handling'[e] = h /\ \A f \in ServerError \ {e} : handling'[f] = handling[f]
    BY <1>4, <1>5, OneMoves, Zenon
  <1>7. PICK note : note = [by |-> e, print |-> print, at |-> alertClock]
    BY Zenon
  <1>8. note \in AlertNotes /\ note.by = e /\ note.print = print
    BY <1>2, <1>7 DEF AlertNotes, AlertTypes
  <1>9. \/ incidents' = incidents \cup {note} /\ UNCHANGED excused
        \/ excused' = excused \cup {<<e, print>>} /\ UNCHANGED incidents
    BY <1>1, <1>7 DEF Record
  <1>10. AlertTypes' /\ KeysAreClaims' /\ SilencedAreCovered'
    BY <1>2, <1>6, <1>8, <1>9 DEF AlertTypes, KeysAreClaims, SilencedAreCovered
  <1>11. ClaimsCover'
    <2>1. ASSUME NEW c \in claims, handling[c.by] = At("record", c.print)
          PROVE handling'[c.by] = handling[c.by] \/ CoversIt(c)'
      <3>1. CASE c.by = e
        <4>1. c.print = print
          BY <1>2, <2>1, <3>1, SpotsOfAnError
        <4> QED BY <1>8, <1>9, <3>1, <4>1 DEF CoversIt
      <3>2. CASE c.by # e
        BY <1>6, <3>2 DEF AlertTypes, AlertNotes
      <3> QED BY <3>1, <3>2
    <2> QED BY <1>2, <1>9, <2>1, CoverGoesOn
  <1>12. ClaimsAreApart'
    BY <1>2, <1>4, <1>6, <1>9, ApartGoesOn DEF AlertTypes
  <1>13. CountedOnce'
    BY <1>2, <1>4, <1>6, CountGoesOn
  <1>14. WindowHolds'
    BY <1>2, <1>4, <1>6, <1>9, WindowGoesOn
  <1>15. AlarmsAreFull'
    BY <1>2, <1>4, <1>6, <1>8, <1>9, AlarmsGoOn
  <1> QED BY <1>10, <1>11, <1>12, <1>13, <1>14, <1>15

LEMMA PostKeeps ==
  ASSUME AlertInv, NEW e \in ServerError, Post(e)
  PROVE  AlertInv'
  <1> USE DEF AlertInv
  <1>1. /\ handling[e].phase = "post" /\ handling' = [handling EXCEPT ![e] = AfterAlert(e)]
        /\ UNCHANGED <<alertClock, incidents, dedupUntil, errorCount, claims, counted, silenced, excused>>
    BY DEF Post, Phase, alertWorld
  <1>2. PICK h : h = AfterAlert(e)
    OBVIOUS
  <1>3. /\ h \in [phase : AlertPhases, print : Prints] /\ h.phase \in {"count", "done"}
        /\ h.print = RateAlarm /\ (handling[e].print = RateAlarm => h.phase = "done")
    BY <1>2, SpotsOfAnError DEF AfterAlert, AlertPhases
  <1>4. /\ handling' \in [ServerError -> [phase : AlertPhases, print : Prints]]
        /\ handling'[e] = h /\ \A f \in ServerError \ {e} : handling'[f] = handling[f]
    BY <1>1, <1>2, <1>3, OneMoves, Zenon
  <1>5. slacked' \subseteq AlertNotes
    BY DEF Post, AlertTypes, AlertNotes
  <1>6. AlertTypes' /\ KeysAreClaims' /\ SilencedAreCovered'
    BY <1>1, <1>4, <1>5 DEF AlertTypes, KeysAreClaims, SilencedAreCovered
  <1>7. ClaimsCover'
    BY <1>1, <1>4, CoverGoesOn, SpotsOfAnError DEF AlertTypes, AlertNotes
  <1>8. ClaimsAreApart'
    BY <1>1, <1>3, <1>4, ApartGoesOn DEF AlertTypes
  <1>9. CountedOnce'
    BY <1>1, <1>3, <1>4, CountGoesOn
  <1>10. WindowHolds'
    BY <1>1, <1>3, <1>4, WindowGoesOn
  <1>11. AlarmsAreFull'
    BY <1>1, <1>3, <1>4, AlarmsGoOn
  <1> QED BY <1>6, <1>7, <1>8, <1>9, <1>10, <1>11

\* The alarm of an error stays backed by those counted before it.
LEMMA StaysBacked ==
  ASSUME AlertTypes, NEW more, counted' = counted \cup more, IsFiniteSet(counted'),
         counted' \subseteq [by : ServerError, at : Nat, reached : Nat], NEW e \in ServerError, BackedUp(e)
  PROVE  BackedUp(e)'
  <1>1. PICK c \in counted : c.by = e /\ RateReached(c)
    BY DEF BackedUp
  <1>2. PICK before : before = {d \in counted : d.at > c.at - RateSpan /\ d.at <= c.at}
    BY Zenon
  <1>3. PICK after : after = {d \in counted' : d.at > c.at - RateSpan /\ d.at <= c.at}
    BY Zenon
  <1>4. before \subseteq after /\ after \subseteq counted'
    BY <1>2, <1>3
  <1>5. IsFiniteSet(after) /\ IsFiniteSet(before) /\ Cardinality(before) <= Cardinality(after)
    BY <1>4, FS_Subset
  <1>6. Cardinality(before) \in Nat /\ Cardinality(after) \in Nat
    BY <1>5, FS_CardinalityType
  <1>7. Cardinality(before) >= RateThreshold
    BY <1>1, <1>2 DEF RateReached
  <1>8. Cardinality(after) >= RateThreshold
    BY <1>5, <1>6, <1>7, AlertAssumption
  <1>9. RateReached(c)'
    BY <1>3, <1>8 DEF RateReached
  <1> QED BY <1>1, <1>9 DEF BackedUp

\* What is counted from a moment in the last window, up to now, is in the window that ends now.
LEMMA CountedInTheWindow ==
  ASSUME NEW cs, IsFiniteSet(cs), cs \subseteq [by : ServerError, at : Nat, reached : Nat],
         NEW last \in Nat, \A d \in cs : d.at <= last, NEW t \in Int, t > last - RateSpan,
         NEW n \in Nat, n <= Cardinality({d \in cs : d.at >= t}), n >= RateThreshold
  PROVE  Cardinality({d \in cs : d.at > last - RateSpan /\ d.at <= last}) >= RateThreshold
  <1>1. PICK before : before = {d \in cs : d.at >= t}
    OBVIOUS
  <1>2. PICK after : after = {d \in cs : d.at > last - RateSpan /\ d.at <= last}
    BY Zenon
  <1>3. before \subseteq after /\ after \subseteq cs
    <2>1. ASSUME NEW d \in before PROVE d \in after
      <3>1. d \in cs /\ d.at >= t /\ d.at \in Nat /\ d.at <= last
        BY <1>1
      <3>2. d.at > last - RateSpan
        BY <3>1, AlertAssumption
      <3> QED BY <1>2, <3>1, <3>2
    <2> QED BY <1>2, <2>1
  <1>4. IsFiniteSet(after) /\ IsFiniteSet(before) /\ Cardinality(before) <= Cardinality(after)
    BY <1>3, FS_Subset
  <1>5. Cardinality(before) \in Nat /\ Cardinality(after) \in Nat
    BY <1>4, FS_CardinalityType
  <1>6. n <= Cardinality(before)
    BY <1>1
  <1>7. Cardinality(after) >= RateThreshold
    BY <1>4, <1>5, <1>6, AlertAssumption
  <1> QED BY <1>2, <1>7

\* One more is counted.
LEMMA OneMoreCounted ==
  ASSUME AlertTypes, NEW d \in [by : ServerError, at : Nat, reached : Nat], d \notin counted, counted' = counted \cup {d}
  PROVE  /\ IsFiniteSet(counted') /\ counted' \subseteq [by : ServerError, at : Nat, reached : Nat]
         /\ \A t \in Int : d.at >= t => /\ IsFiniteSet(CountedFrom(t)) /\ Cardinality(CountedFrom(t)) \in Nat
                                        /\ IsFiniteSet(CountedFrom(t)') /\ Cardinality(CountedFrom(t)') = Cardinality(CountedFrom(t)) + 1
  <1>1. IsFiniteSet(counted') /\ counted' \subseteq [by : ServerError, at : Nat, reached : Nat]
    BY FS_AddElement DEF AlertTypes
  <1>2. ASSUME NEW t \in Int, d.at >= t
        PROVE  /\ IsFiniteSet(CountedFrom(t)) /\ Cardinality(CountedFrom(t)) \in Nat
               /\ IsFiniteSet(CountedFrom(t)') /\ Cardinality(CountedFrom(t)') = Cardinality(CountedFrom(t)) + 1
    <2>1. PICK before : before = CountedFrom(t)
      OBVIOUS
    <2>2. IsFiniteSet(before) /\ d \notin before
      BY <2>1, FS_Subset DEF CountedFrom, AlertTypes
    <2>3. CountedFrom(t)' = before \cup {d}
      BY <1>2, <2>1 DEF CountedFrom
    <2>4. /\ IsFiniteSet(before \cup {d}) /\ Cardinality(before \cup {d}) = Cardinality(before) + 1
          /\ Cardinality(before) \in Nat
      BY <2>2, FS_AddElement, FS_CardinalityType
    <2> QED BY <2>1, <2>2, <2>3, <2>4
  <1> QED BY <1>1, <1>2

LEMMA CountErrorKeeps ==
  ASSUME AlertInv, NEW e \in ServerError, NEW today \in Nat, today = alertClock, CountError(e)
  PROVE  AlertInv'
  <1> USE DEF AlertInv
  <1>1. /\ handling[e].phase = "count" /\ handling[e].print = RateAlarm
        /\ UNCHANGED <<alertClock, incidents, slacked, dedupUntil, claims, silenced, excused>>
    BY DEF CountError, Phase, alertWorld, alertBooks, CountedOnce
  <1>2. ASSUME NEW h \in [phase : AlertPhases, print : Prints], handling' = [handling EXCEPT ![e] = h],
               h.phase \in {"done", "expire", "look"}, h.print = RateAlarm,
               counted' \subseteq [by : ServerError, at : Nat, reached : Nat], IsFiniteSet(counted'),
               errorCount' \in [n : Nat, until : Nat]
        PROVE  AlertTypes' /\ KeysAreClaims' /\ SilencedAreCovered' /\ ClaimsCover' /\ ClaimsAreApart'
    <2>1. /\ handling' \in [ServerError -> [phase : AlertPhases, print : Prints]]
          /\ handling'[e] = h /\ \A f \in ServerError \ {e} : handling'[f] = handling[f]
      BY <1>2, OneMoves, Zenon
    <2>2. AlertTypes' /\ KeysAreClaims' /\ SilencedAreCovered'
      BY <1>1, <1>2, <2>1 DEF AlertTypes, KeysAreClaims, SilencedAreCovered
    <2>3. ClaimsCover'
      BY <1>1, <1>2, <2>1, CoverGoesOn, SpotsOfAnError DEF AlertTypes, AlertNotes
    <2>4. ClaimsAreApart'
      BY <1>1, <1>2, <2>1, ApartGoesOn DEF AlertTypes
    <2> QED BY <2>2, <2>3, <2>4
  <1>3. CASE ~redisUp
    <2>1. Go(e, "done") /\ UNCHANGED <<errorCount, counted>>
      BY <1>3 DEF CountError
    <2>2. PICK h : h = At("done", RateAlarm)
      OBVIOUS
    <2>3. h \in [phase : AlertPhases, print : Prints] /\ h.phase = "done" /\ h.print = RateAlarm
      BY <2>2, SpotsOfAnError DEF AlertPhases
    <2>4. handling' = [handling EXCEPT ![e] = h]
      BY <1>1, <2>1, <2>2, GoesTo DEF AlertPhases
    <2>5. AlertTypes' /\ KeysAreClaims' /\ SilencedAreCovered' /\ ClaimsCover' /\ ClaimsAreApart'
      BY <1>2, <2>1, <2>3, <2>4, Zenon DEF AlertTypes
    <2>6. handling'[e] = h /\ \A f \in ServerError \ {e} : handling'[f] = handling[f]
      BY <2>3, <2>4, OneMoves, Zenon
    <2>7. CountedOnce' /\ WindowHolds' /\ AlarmsAreFull'
      BY <1>1, <2>1, <2>3, <2>6, CountGoesOn, WindowGoesOn, AlarmsGoOn
    <2> QED BY <2>5, <2>7
  <1>4. CASE redisUp
    <2>1. PICK was : was = Standing
      OBVIOUS
    <2>2. was \in [n : Nat, until : Nat] /\ was.until > alertClock
          /\ \/ errorCount.until > alertClock /\ was = errorCount
             \/ ~(errorCount.until > alertClock) /\ was.n = 0 /\ was.until = NoTtl
      <3>1. NoTtl \in Nat /\ NoTtl > alertClock
        BY AlertAssumption DEF NoTtl, AlertTypes
      <3>2. CASE errorCount.until > alertClock
        BY <2>1, <3>2 DEF Standing, AlertTypes
      <3>3. CASE ~(errorCount.until > alertClock)
        <4>1. was = [n |-> 0, until |-> NoTtl]
          BY <2>1, <3>3 DEF Standing
        <4> QED BY <3>1, <3>3, <4>1
      <3> QED BY <3>2, <3>3
    <2>3. PICK reached \in Nat : reached = was.n + 1
      BY <2>2
    <2>4. errorCount'.n = reached /\ errorCount'.until = was.until /\ errorCount' \in [n : Nat, until : Nat]
      <3>1. errorCount' = [was EXCEPT !.n = @ + 1]
        BY <1>4, <2>1 DEF CountError
      <3> QED BY <2>2, <2>3, <3>1
    <2>5. PICK d : d = [by |-> e, at |-> alertClock, reached |-> reached]
      BY Zenon
    <2>6. counted' = counted \cup {d}
      BY <1>4, <2>4, <2>5 DEF CountError
    <2>7. d \in [by : ServerError, at : Nat, reached : Nat] /\ d.by = e /\ d.at = alertClock /\ d \notin counted
      <3>1. d \in [by : ServerError, at : Nat, reached : Nat] /\ d.by = e /\ d.at = alertClock
        BY <2>5 DEF AlertTypes
      <3>2. d \notin counted
        BY <1>1, <3>1 DEF CountedOnce
      <3> QED BY <3>1, <3>2
    <2>8. /\ IsFiniteSet(counted') /\ counted' \subseteq [by : ServerError, at : Nat, reached : Nat]
          /\ \A t \in Int : alertClock >= t => /\ IsFiniteSet(CountedFrom(t)) /\ Cardinality(CountedFrom(t)) \in Nat
                                               /\ IsFiniteSet(CountedFrom(t)')
                                               /\ Cardinality(CountedFrom(t)') = Cardinality(CountedFrom(t)) + 1
      BY <2>6, <2>7, OneMoreCounted, Zenon
    <2>9. PICK h : h = IF reached = 1 THEN At("expire", RateAlarm)
                       ELSE IF reached >= RateThreshold THEN At("look", RateAlarm) ELSE At("done", RateAlarm)
      OBVIOUS
    <2>10. /\ h \in [phase : AlertPhases, print : Prints] /\ h.print = RateAlarm
           /\ h.phase \in {"done", "expire", "look"} /\ (h.phase = "expire" <=> reached = 1)
           /\ h.phase = "look" => reached >= RateThreshold
      BY <2>9, SpotsOfAnError DEF AlertPhases
    <2>11. handling' = [handling EXCEPT ![e] = h]
      <3>1. CASE reached = 1
        <4>1. Go(e, "expire")
          BY <1>4, <2>4, <3>1 DEF CountError
        <4> QED BY <1>1, <2>9, <3>1, <4>1, GoesTo DEF AlertPhases
      <3>2. CASE reached # 1
        <4>1. Judge(e, reached)
          BY <1>4, <2>4, <3>2 DEF CountError
        <4> QED BY <2>9, <3>2, <4>1 DEF Judge
      <3> QED BY <3>1, <3>2
    <2>12. /\ handling' \in [ServerError -> [phase : AlertPhases, print : Prints]]
           /\ handling'[e] = h /\ \A f \in ServerError \ {e} : handling'[f] = handling[f]
      BY <2>10, <2>11, OneMoves, Zenon
    <2>13. AlertTypes' /\ KeysAreClaims' /\ SilencedAreCovered' /\ ClaimsCover' /\ ClaimsAreApart'
      BY <1>2, <2>4, <2>8, <2>10, <2>11, Zenon
    <2>14. CountedOnce'
      <3>1. ASSUME NEW c \in counted'
            PROVE c.at <= alertClock /\ handling'[c.by].print = RateAlarm /\ handling'[c.by].phase \notin {"new", "count"}
        <4>1. CASE c = d
          BY <2>7, <2>10, <2>12, <4>1 DEF AlertTypes
        <4>2. CASE c \in counted
          BY <1>1, <2>12, <4>2, Zenon DEF CountedOnce, AlertTypes
        <4> QED BY <2>6, <4>1, <4>2
      <3>2. ASSUME NEW f \in ServerError, handling'[f].phase = "expire" PROVE \E c \in counted' : c.by = f /\ c.at = alertClock
        BY <2>6, <2>7, <2>12, <3>2 DEF CountedOnce, Phase
      <3>3. ASSUME NEW f \in ServerError, handling'[f].phase = "count" PROVE handling'[f].print = RateAlarm
        BY <2>10, <2>12, <3>3 DEF CountedOnce, Phase
      <3> QED BY <1>1, <3>1, <3>2, <3>3 DEF CountedOnce, Phase
    <2>15. CASE LostExpiry
      BY <1>1, <2>13, <2>14, <2>15 DEF WindowHolds, AlarmsAreFull, LostExpiry
    <2>16. CASE ~LostExpiry
      <3>1. ~LostExpiry' /\ alertClock \in Int
        BY <1>1, <2>16 DEF LostExpiry, AlertTypes
      <3>2. reached = 1 => /\ ~(errorCount.until > alertClock) /\ was.until = NoTtl
                           /\ \A f \in ServerError : handling[f].phase # "expire"
        <4>1. ~(errorCount.until > alertClock) => was.until = NoTtl
          BY <2>2
        <4>2. reached = 1 => ~(errorCount.until > alertClock)
          BY <2>2, <2>3, <2>16 DEF WindowHolds, AlertTypes
        <4>3. NoTtl > alertClock
          BY AlertAssumption DEF NoTtl, AlertTypes
        <4>4. ~(errorCount.until > alertClock) => \A f \in ServerError : handling[f].phase # "expire"
          BY <2>16, <4>3 DEF WindowHolds, Phase
        <4> QED BY <4>1, <4>2, <4>4
      <3>3. \/ reached = 1
            \/ \E f \in ServerError \ {e} : handling[f].phase = "expire" /\ reached <= Cardinality(CountedFrom(today)')
            \/ /\ reached <= Cardinality(CountedFrom(was.until - RateSpan)')
               /\ was.until <= alertClock + RateSpan
        <4>1. CASE ~(errorCount.until > alertClock)
          BY <2>2, <2>3, <4>1
        <4>2. CASE errorCount.until > alertClock /\ \E f \in ServerError : handling[f].phase = "expire"
          <5>1. PICK f \in ServerError : handling[f].phase = "expire"
            BY <4>2
          <5>2. f # e /\ errorCount.n <= Cardinality(CountedFrom(today))
            BY <1>1, <2>16, <5>1 DEF WindowHolds, Phase
          <5>3. Cardinality(CountedFrom(today)) \in Nat
                /\ Cardinality(CountedFrom(today)') = Cardinality(CountedFrom(today)) + 1
            BY <2>8, <3>1
          <5>4. was.n = errorCount.n /\ errorCount.n \in Nat
            BY <2>2, <4>2 DEF AlertTypes
          <5>5. reached <= Cardinality(CountedFrom(today)')
            BY <2>3, <5>2, <5>3, <5>4
          <5> QED BY <5>1, <5>2, <5>5
        <4>3. CASE errorCount.until > alertClock /\ ~\E f \in ServerError : handling[f].phase = "expire"
          <5>1. was = errorCount /\ was.n \in Nat /\ was.until \in Nat
            BY <2>2, <4>3
          <5>2. was.n <= Cardinality(CountedFrom(was.until - RateSpan)) /\ was.until <= alertClock + RateSpan
            BY <2>16, <4>3, <5>1 DEF WindowHolds, Phase
          <5>3. PICK t \in Int : t = was.until - RateSpan
            BY <5>1, AlertAssumption
          <5>4. t <= alertClock
            BY <5>1, <5>2, <5>3, AlertAssumption, <3>1
          <5>5. Cardinality(CountedFrom(t)) \in Nat /\ Cardinality(CountedFrom(t)') = Cardinality(CountedFrom(t)) + 1
            BY <2>8, <3>1, <5>4
          <5>6. CountedFrom(was.until - RateSpan)' = CountedFrom(t)'
            BY <5>3 DEF CountedFrom
          <5>7. reached <= Cardinality(CountedFrom(t)')
            BY <2>3, <5>1, <5>2, <5>3, <5>5
          <5> QED BY <5>2, <5>6, <5>7
        <4> QED BY <4>1, <4>2, <4>3
      <3>4. 1 <= Cardinality(CountedFrom(today)')
        <4>1. Cardinality(CountedFrom(today)) \in Nat
              /\ Cardinality(CountedFrom(today)') = Cardinality(CountedFrom(today)) + 1
          BY <2>8, <3>1
        <4> QED BY <4>1
      <3>5. WindowHolds'
        <4>1. ASSUME NEW f \in ServerError, handling'[f].phase = "expire"
              PROVE /\ errorCount'.until = NoTtl
                    /\ \A g \in ServerError \ {f} : handling'[g].phase # "expire"
                    /\ errorCount'.n <= Cardinality(CountedFrom(today)')
          <5>1. CASE f = e
            <6>1. reached = 1
              BY <2>10, <2>12, <4>1, <5>1
            <6> QED BY <2>4, <2>12, <3>2, <3>4, <5>1, <6>1
          <5>2. CASE f # e
            <6>1. handling[f].phase = "expire"
              BY <2>12, <4>1, <5>2
            <6>2. reached # 1 /\ handling'[e].phase # "expire"
              BY <2>10, <2>12, <3>2, <6>1
            <6>3. /\ errorCount.until = NoTtl /\ errorCount.n <= Cardinality(CountedFrom(today))
                  /\ \A g \in ServerError \ {f} : handling[g].phase # "expire"
              BY <2>16, <6>1 DEF WindowHolds, Phase
            <6>4. NoTtl > alertClock
              BY AlertAssumption DEF NoTtl, AlertTypes
            <6>5. was = errorCount
              BY <2>2, <6>3, <6>4
            <6>6. errorCount'.until = NoTtl
              BY <2>4, <6>3, <6>5
            <6>7. reached <= Cardinality(CountedFrom(today)')
              <7>1. Cardinality(CountedFrom(today)) \in Nat
                    /\ Cardinality(CountedFrom(today)') = Cardinality(CountedFrom(today)) + 1
                BY <2>8, <3>1
              <7> QED BY <2>2, <2>3, <6>3, <6>5, <7>1
            <6> QED BY <2>4, <2>12, <6>2, <6>3, <6>6, <6>7
          <5> QED BY <5>1, <5>2
        <4>2. \/ \E f \in ServerError : handling'[f].phase = "expire"
              \/ errorCount'.n <= Cardinality(CountedFrom(errorCount.until - RateSpan)') /\ errorCount'.until <= alertClock + RateSpan
          <5>1. CASE reached = 1
            BY <2>10, <2>12, <5>1
          <5>2. CASE \E f \in ServerError \ {e} : handling[f].phase = "expire"
            BY <2>12, <5>2
          <5>3. CASE /\ reached <= Cardinality(CountedFrom(was.until - RateSpan)')
                     /\ was.until <= alertClock + RateSpan
            <6>1. CountedFrom(errorCount.until - RateSpan)' = CountedFrom(was.until - RateSpan)'
              BY <2>4 DEF CountedFrom
            <6> QED BY <2>4, <5>3, <6>1
          <5> QED BY <3>3, <5>1, <5>2, <5>3
        <4>3. errorCount'.n >= 1
          BY <2>2, <2>3, <2>4
        <4> QED BY <1>1, <4>1, <4>2, <4>3 DEF WindowHolds, Phase, CountedFrom
      <3>6. ASSUME h.phase = "look" PROVE BackedUp(e)'
        <4>1. reached # 1 /\ reached >= RateThreshold
          BY <2>10, <3>6
        <4>2. \A c \in counted' : c.at <= alertClock
          BY <1>1, <2>14 DEF CountedOnce
        <4>3. PICK t \in Int : t > alertClock - RateSpan /\ reached <= Cardinality({c \in counted' : c.at >= t})
          <5>1. CASE reached <= Cardinality(CountedFrom(today)')
            <6>1. alertClock > alertClock - RateSpan
              BY <3>1, AlertAssumption
            <6>2. CountedFrom(today)' = {c \in counted' : c.at >= today}
              BY DEF CountedFrom
            <6> QED BY <3>1, <5>1, <6>1, <6>2, Zenon
          <5>2. CASE reached <= Cardinality(CountedFrom(was.until - RateSpan)')
            <6>1. was.until - RateSpan > alertClock - RateSpan /\ was.until - RateSpan \in Int
              BY <2>2, <3>1, AlertAssumption
            <6>2. CountedFrom(was.until - RateSpan)' = {c \in counted' : c.at >= was.until - RateSpan}
              BY DEF CountedFrom
            <6> QED BY <5>2, <6>1, <6>2
          <5> QED BY <3>3, <4>1, <5>1, <5>2
        <4>4. Cardinality({c \in counted' : c.at > alertClock - RateSpan /\ c.at <= alertClock}) >= RateThreshold
          <5>1. PICK cs : cs = counted'
            OBVIOUS
          <5>2. IsFiniteSet(cs) /\ cs \subseteq [by : ServerError, at : Nat, reached : Nat] /\ \A c \in cs : c.at <= today
            BY <2>8, <4>2, <5>1
          <5>3. t \in Int /\ t > today - RateSpan /\ reached \in Nat /\ reached <= Cardinality({c \in cs : c.at >= t})
                /\ reached >= RateThreshold
            BY <2>3, <4>1, <4>3, <5>1
          <5>4. Cardinality({c \in cs : c.at > today - RateSpan /\ c.at <= today}) >= RateThreshold
            BY <5>2, <5>3, CountedInTheWindow
          <5> QED BY <5>1, <5>4
        <4>5. RateReached(d)'
          BY <2>7, <4>4 DEF RateReached
        <4> QED BY <2>6, <2>7, <4>5 DEF BackedUp
      <3>7. AlarmsAreFull'
        <4>1. ASSUME NEW f \in ServerError, BackedUp(f) PROVE BackedUp(f)'
          BY <2>6, <2>8, <4>1, StaysBacked, Zenon
        <4>2. ASSUME NEW f \in ServerError, handling'[f].print = RateAlarm, handling'[f].phase \in {"look", "claim", "record", "post"}
              PROVE BackedUp(f)'
          <5>1. CASE f = e
            BY <2>10, <2>12, <3>6, <4>2, <5>1
          <5>2. CASE f # e
            BY <2>12, <2>16, <4>1, <4>2, <5>2 DEF AlarmsAreFull, Phase
          <5> QED BY <5>1, <5>2
        <4>3. ASSUME NEW item \in incidents, item.print = RateAlarm PROVE BackedUp(item.by)'
          BY <2>16, <4>1, <4>3 DEF AlarmsAreFull, AlertTypes, AlertNotes
        <4> QED BY <1>1, <4>2, <4>3 DEF AlarmsAreFull, Phase
      <3> QED BY <2>13, <2>14, <3>5, <3>7
    <2> QED BY <2>15, <2>16
  <1> QED BY <1>3, <1>4

LEMMA ExpireKeeps ==
  ASSUME AlertInv, NEW e \in ServerError, NEW today \in Nat, today = alertClock, Expire(e)
  PROVE  AlertInv'
  <1> USE DEF AlertInv
  <1>1. /\ handling[e].phase = "expire" /\ UNCHANGED <<alertClock, incidents, slacked, dedupUntil, claims, silenced, counted>>
    BY DEF Expire, Phase, alertWorld, alertBooks
  <1>2. PICK c \in counted : c.by = e /\ c.at = today
    BY <1>1 DEF CountedOnce, Phase
  <1>3. handling[e].print = RateAlarm
    BY <1>2 DEF CountedOnce
  <1>4. PICK h \in [phase : AlertPhases, print : Prints] :
          /\ handling' = [handling EXCEPT ![e] = h] /\ h.print = RateAlarm
          /\ h.phase \in {"done", "look"} /\ (h.phase = "look" => 1 >= RateThreshold)
          /\ \/ /\ ~redisUp /\ errorCount' = errorCount /\ excused' = excused \cup {<<"expire", RateAlarm>>}
             \/ /\ excused' = excused
                /\ errorCount' = [errorCount EXCEPT !.until = IF @ > alertClock THEN alertClock + RateSpan ELSE @]
    <2>1. CASE ~redisUp
      <3>1. /\ Go(e, "done") /\ excused' = excused \cup {<<"expire", RateAlarm>>} /\ errorCount' = errorCount
        BY <2>1 DEF Expire
      <3>2. PICK h : h = At("done", RateAlarm)
        OBVIOUS
      <3>3. handling' = [handling EXCEPT ![e] = h]
        BY <1>3, <3>1, <3>2, GoesTo DEF AlertPhases
      <3>4. h \in [phase : AlertPhases, print : Prints] /\ h.print = RateAlarm /\ h.phase = "done"
        BY <3>2, SpotsOfAnError DEF AlertPhases
      <3> QED BY <2>1, <3>1, <3>3, <3>4, Zenon
    <2>2. CASE redisUp
      <3>1. /\ Judge(e, 1) /\ excused' = excused
            /\ errorCount' = [errorCount EXCEPT !.until = IF @ > alertClock THEN alertClock + RateSpan ELSE @]
        BY <2>2 DEF Expire
      <3>2. PICK h : h = IF 1 >= RateThreshold THEN At("look", RateAlarm) ELSE At("done", RateAlarm)
        OBVIOUS
      <3>3. handling' = [handling EXCEPT ![e] = h]
        BY <3>1, <3>2 DEF Judge
      <3>4. /\ h \in [phase : AlertPhases, print : Prints] /\ h.print = RateAlarm
            /\ h.phase \in {"done", "look"} /\ (h.phase = "look" => 1 >= RateThreshold)
        BY <3>2, SpotsOfAnError DEF AlertPhases
      <3> QED BY <3>1, <3>3, <3>4, Zenon
    <2> QED BY <2>1, <2>2
  <1>5. /\ handling' \in [ServerError -> [phase : AlertPhases, print : Prints]]
        /\ handling'[e] = h /\ \A f \in ServerError \ {e} : handling'[f] = handling[f]
    BY <1>4, OneMoves, Zenon
  <1>6. excused \subseteq excused'
    BY <1>4
  <1>7. PICK until : until = IF errorCount.until > alertClock THEN alertClock + RateSpan ELSE errorCount.until
    OBVIOUS
  <1>8. until \in Nat /\ errorCount \in [n : Nat, until : Nat]
    BY <1>7, AlertAssumption DEF AlertTypes
  <1>9. errorCount' \in [n : Nat, until : Nat] /\ errorCount'.n = errorCount.n
        /\ (~LostExpiry' => errorCount'.until = until)
    <2>1. CASE errorCount' = errorCount /\ excused' = excused \cup {<<"expire", RateAlarm>>}
      BY <1>8, <2>1 DEF LostExpiry
    <2>2. CASE errorCount' = [errorCount EXCEPT !.until = IF @ > alertClock THEN alertClock + RateSpan ELSE @]
      <3>1. errorCount' = [n |-> errorCount.n, until |-> until]
        BY <1>7, <1>8, <2>2
      <3> QED BY <1>8, <3>1
    <2> QED BY <1>4, <2>1, <2>2
  <1>10. AlertTypes' /\ KeysAreClaims' /\ SilencedAreCovered'
    BY <1>1, <1>5, <1>9 DEF AlertTypes, KeysAreClaims, SilencedAreCovered
  <1>11. ClaimsCover'
    BY <1>1, <1>5, <1>6, CoverGoesOn, SpotsOfAnError DEF AlertTypes, AlertNotes
  <1>12. ClaimsAreApart'
    BY <1>1, <1>4, <1>5, <1>6, ApartGoesOn DEF AlertTypes
  <1>13. CountedOnce'
    BY <1>1, <1>4, <1>5, CountGoesOn
  <1>14. CASE LostExpiry'
    BY <1>10, <1>11, <1>12, <1>13, <1>14 DEF WindowHolds, AlarmsAreFull, LostExpiry
  <1>15. CASE ~LostExpiry'
    <2>1. ~LostExpiry /\ excused' = excused /\ errorCount'.until = until
      BY <1>4, <1>9, <1>15 DEF LostExpiry
    <2>2. /\ errorCount.until = NoTtl /\ errorCount.n <= Cardinality(CountedFrom(today))
          /\ \A f \in ServerError \ {e} : handling[f].phase # "expire"
      BY <1>1, <2>1 DEF WindowHolds, Phase
    <2>3. NoTtl > alertClock
      BY AlertAssumption DEF NoTtl, AlertTypes
    <2>4. errorCount.n >= 1 /\ until = today + RateSpan
      BY <1>7, <2>1, <2>2, <2>3 DEF WindowHolds
    <2>5. CountedFrom(today)' = CountedFrom(today) /\ until - RateSpan = today
      BY <1>1, <2>4, AlertAssumption DEF CountedFrom
    <2>6. WindowHolds'
      <3>1. \A f \in ServerError : handling'[f].phase # "expire"
        BY <1>4, <1>5, <2>2
      <3>2. errorCount'.n <= Cardinality(CountedFrom(errorCount.until - RateSpan)') /\ errorCount'.until <= alertClock' + RateSpan
        <4>1. errorCount'.until - RateSpan = today
          BY <2>1, <2>5
        <4>2. CountedFrom(errorCount.until - RateSpan)' = CountedFrom(today)'
          BY <4>1 DEF CountedFrom
        <4>3. errorCount'.until <= alertClock' + RateSpan
          BY <1>1, <1>8, <2>1, <2>4
        <4> QED BY <1>9, <2>2, <2>5, <4>2, <4>3
      <3>3. errorCount'.n >= 1
        BY <1>9, <2>4
      <3> QED BY <3>1, <3>2, <3>3 DEF WindowHolds, Phase, CountedFrom
    <2>7. ASSUME NEW f \in ServerError, BackedUp(f) PROVE BackedUp(f)'
      BY <1>1, <2>7, Zenon DEF BackedUp, RateReached
    <2>8. ASSUME h.phase = "look" PROVE BackedUp(e)'
      <3>1. IsFiniteSet(CountedFrom(today)) /\ Cardinality(CountedFrom(today)) \in Nat
        BY FS_Subset, FS_CardinalityType DEF CountedFrom, AlertTypes
      <3>2. 1 <= Cardinality(CountedFrom(today)) /\ 1 >= RateThreshold
        BY <1>4, <1>8, <2>2, <2>4, <2>8, <3>1
      <3>3. \A d \in counted : d.at <= today
        BY DEF CountedOnce
      <3>4. today > today - RateSpan /\ today \in Int
        BY AlertAssumption
      <3>5. Cardinality({d \in counted : d.at > today - RateSpan /\ d.at <= today}) >= RateThreshold
        BY <3>2, <3>3, <3>4, CountedInTheWindow DEF AlertTypes, CountedFrom
      <3>6. RateReached(c)
        BY <1>2, <3>5 DEF RateReached
      <3> QED BY <1>1, <1>2, <3>6, Zenon DEF BackedUp, RateReached
    <2>9. AlarmsAreFull'
      <3>1. ASSUME NEW f \in ServerError, handling'[f].print = RateAlarm, handling'[f].phase \in {"look", "claim", "record", "post"}
            PROVE BackedUp(f)'
        <4>1. CASE f = e
          BY <1>4, <1>5, <2>8, <3>1, <4>1
        <4>2. CASE f # e
          BY <1>5, <2>1, <2>7, <3>1, <4>2 DEF AlarmsAreFull, Phase
        <4> QED BY <4>1, <4>2
      <3>2. ASSUME NEW item \in incidents, item.print = RateAlarm PROVE BackedUp(item.by)'
        BY <2>1, <2>7, <3>2 DEF AlarmsAreFull, AlertTypes, AlertNotes
      <3> QED BY <1>1, <3>1, <3>2 DEF AlarmsAreFull, Phase
    <2> QED BY <1>10, <1>11, <1>12, <1>13, <2>6, <2>9
  <1> QED BY <1>14, <1>15

LEMMA NothingAlerts ==
  ASSUME AlertInv,
         UNCHANGED <<alertClock, incidents, slacked, dedupUntil, errorCount, handling, claims, silenced, counted, excused>>
  PROVE  AlertInv'
  <1> USE DEF AlertInv
  <1>1. AlertTypes' /\ KeysAreClaims' /\ SilencedAreCovered'
    BY DEF AlertTypes, KeysAreClaims, SilencedAreCovered
  <1>2. ClaimsCover' /\ ClaimsAreApart' /\ CountedOnce'
    BY CoverGoesOn, ApartGoesOn, CountGoesOn DEF AlertTypes
  <1>3. WindowHolds' /\ AlarmsAreFull'
    BY WindowGoesOn, AlarmsGoOn
  <1> QED BY <1>1, <1>2, <1>3

\* Redis comes and goes, the process starts again, time goes by.
LEMMA AlertWorldKeeps ==
  ASSUME AlertInv, RedisTurns \/ Restart \/ AlertTick
  PROVE  AlertInv'
  <1> USE DEF AlertInv
  <1>1. CASE RedisTurns
    <2>1. UNCHANGED <<alertClock, incidents, slacked, dedupUntil, errorCount, handling, claims, silenced, counted, excused>>
      BY <1>1 DEF RedisTurns, alertBooks
    <2> QED BY <2>1, NothingAlerts
  <1>2. CASE Restart
    <2>1. /\ UNCHANGED <<alertClock, incidents, slacked, dedupUntil, errorCount, claims, silenced, counted>>
          /\ handling' = [e \in ServerError |-> IF handling[e].phase = "new" THEN handling[e] ELSE At("done", RateAlarm)]
          /\ excused \subseteq excused'
          /\ \A e \in ServerError : handling[e].phase = "record" => <<e, handling[e].print>> \in excused'
          /\ (\E e \in ServerError : handling[e].phase = "expire") => <<"expire", RateAlarm>> \in excused'
      BY <1>2 DEF Restart, alertBooks, Phase
    <2>2. PICK done : done = At("done", RateAlarm)
      OBVIOUS
    <2>3. done.phase = "done" /\ done.print = RateAlarm /\ done \in [phase : AlertPhases, print : Prints]
      BY <2>2, SpotsOfAnError DEF AlertPhases
    <2>4. \A e \in ServerError : \/ handling[e].phase = "new" /\ handling'[e] = handling[e]
                                 \/ handling[e].phase # "new" /\ handling'[e] = done
      BY <2>1, <2>2
    <2>5. handling' \in [ServerError -> [phase : AlertPhases, print : Prints]]
      BY <2>1, <2>2, <2>3 DEF AlertTypes
    <2>6. AlertTypes' /\ KeysAreClaims' /\ SilencedAreCovered'
      BY <2>1, <2>5 DEF AlertTypes, KeysAreClaims, SilencedAreCovered
    <2>7. ClaimsCover'
      <3>1. ASSUME NEW c \in claims, handling[c.by] = At("record", c.print) PROVE CoversIt(c)'
        <4>1. handling[c.by].phase = "record" /\ handling[c.by].print = c.print /\ c.by \in ServerError
          BY <3>1, SpotsOfAnError DEF AlertTypes, AlertNotes
        <4> QED BY <2>1, <4>1 DEF CoversIt
      <3> QED BY <2>1, <3>1, CoverGoesOn
    <2>8. ClaimsAreApart'
      BY <2>1, <2>3, <2>4, ApartGoesOn DEF AlertTypes
    <2>9. CountedOnce'
      BY <2>1, <2>3, <2>4, CountGoesOn
    <2>10. WindowHolds'
      <3>1. CASE \E e \in ServerError : handling[e].phase = "expire"
        BY <2>1, <3>1 DEF WindowHolds, LostExpiry
      <3>2. CASE ~\E e \in ServerError : handling[e].phase = "expire"
        BY <2>1, <2>3, <2>4, <3>2, WindowGoesOn
      <3> QED BY <3>1, <3>2
    <2>11. AlarmsAreFull'
      BY <2>1, <2>3, <2>4, AlarmsGoOn
    <2> QED BY <2>6, <2>7, <2>8, <2>9, <2>10, <2>11
  <1>3. CASE AlertTick
    <2>1. /\ alertClock' = alertClock + 1 /\ alertClock < LastAlertTick /\ \A e \in ServerError : handling[e].phase # "expire"
          /\ UNCHANGED <<incidents, slacked, dedupUntil, errorCount, handling, claims, silenced, counted, excused>>
      BY <1>3 DEF AlertTick, alertBooks, Phase
    <2>2. alertClock' \in Nat /\ alertClock' <= LastAlertTick /\ alertClock <= alertClock'
      BY <2>1, AlertAssumption DEF AlertTypes
    <2>3. AlertTypes' /\ SilencedAreCovered' /\ ClaimsCover'
      BY <2>1, <2>2 DEF AlertTypes, SilencedAreCovered, ClaimsCover, CoversIt
    <2>4. KeysAreClaims'
      <3>1. \A c \in claims : c.at <= alertClock'
        <4>1. \A c \in claims : c.at \in Nat /\ c.at <= alertClock
          BY DEF KeysAreClaims, AlertTypes, AlertNotes
        <4> QED BY <2>1, <4>1 DEF AlertTypes
      <3> QED BY <2>1, <3>1 DEF KeysAreClaims
    <2>5. ClaimsAreApart'
      BY <2>1, <2>2, ApartGoesOn
    <2>6. CountedOnce'
      <3>1. \A d \in counted : d.at <= alertClock'
        <4>1. \A d \in counted : d.at \in Nat /\ d.at <= alertClock
          BY DEF CountedOnce, AlertTypes
        <4> QED BY <2>1, <4>1 DEF AlertTypes
      <3> QED BY <2>1, <3>1 DEF CountedOnce, Phase
    <2>7. WindowHolds'
      <3>1. CASE LostExpiry
        BY <2>1, <3>1 DEF WindowHolds, LostExpiry
      <3>2. CASE ~LostExpiry
        <4>1. ASSUME errorCount.until > alertClock'
              PROVE  errorCount.n >= 1 /\ errorCount.n <= Cardinality(CountedFrom(errorCount.until - RateSpan))
                     /\ errorCount.until <= alertClock' + RateSpan
          <5>1. errorCount.until > alertClock /\ errorCount.until \in Nat
            BY <2>1, <4>1 DEF AlertTypes
          <5>2. /\ errorCount.n >= 1 /\ errorCount.n <= Cardinality(CountedFrom(errorCount.until - RateSpan))
                /\ errorCount.until <= alertClock + RateSpan
            BY <2>1, <3>2, <5>1 DEF WindowHolds, Phase
          <5> QED BY <2>1, <5>1, <5>2, AlertAssumption DEF AlertTypes
        <4>2. CountedFrom(errorCount.until - RateSpan)' = CountedFrom(errorCount.until - RateSpan)
          BY <2>1 DEF CountedFrom
        <4> QED BY <2>1, <4>1, <4>2 DEF WindowHolds, Phase
      <3> QED BY <3>1, <3>2
    <2>8. AlarmsAreFull'
      BY <2>1, AlarmsGoOn
    <2> QED BY <2>3, <2>4, <2>5, <2>6, <2>7, <2>8
  <1> QED BY <1>1, <1>2, <1>3

LEMMA AlertStep == AlertInv /\ [AlertNext]_alertVars => AlertInv'
  <1> SUFFICES ASSUME AlertInv, [AlertNext]_alertVars PROVE AlertInv'
    OBVIOUS
  <1>1. alertClock \in Nat
    BY DEF AlertInv, AlertTypes
  <1>2. CASE \E e \in ServerError : OnServerError(e) \/ LookUp(e) \/ Claim(e) \/ Record(e) \/ Post(e) \/ CountError(e) \/ Expire(e)
    BY <1>1, <1>2, OnServerErrorKeeps, LookUpKeeps, ClaimKeeps, RecordKeeps, PostKeeps, CountErrorKeeps, ExpireKeeps
  <1>3. CASE RedisTurns \/ Restart \/ AlertTick
    BY <1>3, AlertWorldKeeps
  <1>4. CASE UNCHANGED alertVars
    <2>1. UNCHANGED <<alertClock, incidents, slacked, dedupUntil, errorCount, handling, claims, silenced, counted, excused>>
      BY <1>4 DEF alertVars, alertWorld, alertBooks
    <2> QED BY <2>1, NothingAlerts
  <1> QED BY <1>2, <1>3, <1>4 DEF AlertNext

LEMMA AlertSound == AlertInv => OneAlertPerWindow /\ SilenceIsCovered /\ RateAlarmsAreReal
  <1> SUFFICES ASSUME AlertInv PROVE OneAlertPerWindow /\ SilenceIsCovered /\ RateAlarmsAreReal
    OBVIOUS
  <1> USE DEF AlertInv
  <1>1. OneAlertPerWindow
    <2>1. ASSUME NEW a \in incidents \cup slacked, NEW b \in incidents \cup slacked, a.by # b.by, a.print = b.print,
                 {<<a.by, a.print>>, <<b.by, b.print>>} \cap excused = {}, NEW c \in claims, NEW d \in claims,
                 c.by = a.by, d.by = b.by, c.print = a.print, d.print = a.print
          PROVE  c.at >= d.at + DedupSpan \/ d.at >= c.at + DedupSpan
      BY <2>1, Zenon DEF ClaimsAreApart, Loose, Apart
    <2> QED BY <2>1 DEF OneAlertPerWindow
  <1>2. SilenceIsCovered
    BY DEF SilenceIsCovered, SilencedAreCovered, ClaimsCover, CoversIt
  <1>3. RateAlarmsAreReal
    BY DEF RateAlarmsAreReal, AlarmsAreFull, BackedUp, RateReached, LostExpiry
  <1> QED BY <1>1, <1>2, <1>3

-----------------------------------------------------------------------------
(* The services side by side. *)

LEMMA SyncHeld == Spec => [](part = "sync" => SyncInv)
  <1>1. Init => (part = "sync" => SyncInv)
    BY SyncStart DEF Init
  <1>2. (part = "sync" => SyncInv) /\ [Next]_vars => (part = "sync" => SyncInv)'
    BY SyncStep DEF Next, vars
  <1> QED BY <1>1, <1>2, PTL DEF Spec

LEMMA PostsHeld == Spec => [](part = "posts" => PostInv)
  <1>1. Init => (part = "posts" => PostInv)
    BY PostStart DEF Init
  <1>2. (part = "posts" => PostInv) /\ [Next]_vars => (part = "posts" => PostInv)'
    BY PostStep DEF Next, vars
  <1> QED BY <1>1, <1>2, PTL DEF Spec

LEMMA GetsHeld == Spec => [](part = "gets" => GetInv)
  <1>1. Init => (part = "gets" => GetInv)
    BY GetStart DEF Init
  <1>2. (part = "gets" => GetInv) /\ [Next]_vars => (part = "gets" => GetInv)'
    BY GetStep DEF Next, vars
  <1> QED BY <1>1, <1>2, PTL DEF Spec

LEMMA ScoutHeld == Spec => [](part = "scout" => ScoutInv)
  <1>1. Init => (part = "scout" => ScoutInv)
    BY ScoutStart DEF Init
  <1>2. (part = "scout" => ScoutInv) /\ [Next]_vars => (part = "scout" => ScoutInv)'
    BY ScoutStep DEF Next, vars
  <1> QED BY <1>1, <1>2, PTL DEF Spec

\* What a client keeps is what the server holds, however the writes of others fall between its
\* requests: a drained delta has every change behind its watermark but those committed behind a
\* query, a repeated POST is answered from its own receipt, a copy whose validator matches is the
\* posting as it is, and no posting falls between two polls of the scout (ClientsKeepUp).
THEOREM ClientsAreServed == Spec => []ClientsKeepUp
  <1>1. (/\ part = "sync" => SyncInv
         /\ part = "posts" => PostInv
         /\ part = "gets" => GetInv
         /\ part = "scout" => ScoutInv) => ClientsKeepUp
    BY SyncSound, PostSound, GetSound DEF ClientsKeepUp, ScoutInv
  <1> QED BY <1>1, SyncHeld, PostsHeld, GetsHeld, ScoutHeld, PTL

LEMMA AiHeld == Spec => [](part = "ai" => AiInv) /\ [][part = "ai" => VerdictsAreEarned]_vars
  <1>1. Init => (part = "ai" => AiInv)
    BY AiStart DEF Init
  <1>2. (part = "ai" => AiInv) /\ [Next]_vars => (part = "ai" => AiInv)'
    BY AiStep DEF Next, vars
  <1>3. (part = "ai" => AiInv) /\ [Next]_vars => [part = "ai" => VerdictsAreEarned]_vars
    <2> SUFFICES ASSUME part = "ai", AiInv, Next PROVE VerdictsAreEarned
      BY DEF vars
    <2> QED BY AiTells DEF Next
  <1> QED BY <1>1, <1>2, <1>3, PTL DEF Spec

LEMMA AlertsHeld == Spec => [](part = "alerts" => AlertInv)
  <1>1. Init => (part = "alerts" => AlertInv)
    BY AlertStart DEF Init
  <1>2. (part = "alerts" => AlertInv) /\ [Next]_vars => (part = "alerts" => AlertInv)'
    BY AlertStep DEF Next, vars
  <1> QED BY <1>1, <1>2, PTL DEF Spec

\* What the backend says of itself is what happened: one probe of the AI service is in the air, a
\* call counts once whatever its retries, a health read reports the calls of its window, one
\* cause alerts once per window, a silenced error is covered by an alert, and an alarm of the
\* error rate has its threshold of errors behind it - but for the faults on record
\* (MonitoringHolds).
THEOREM MonitoringIsTrue == Spec => MonitoringHolds
  <1>1. (part = "ai" => AiInv) => (part = "ai" => OneProbeAtATime /\ CallsCountOnce)
    BY AiSound
  <1>2. (part = "alerts" => AlertInv)
        => (part = "alerts" => OneAlertPerWindow /\ SilenceIsCovered /\ RateAlarmsAreReal)
    BY AlertSound
  <1> QED BY <1>1, <1>2, AiHeld, AlertsHeld, PTL DEF MonitoringHolds

-----------------------------------------------------------------------------
(* What RecordProofs takes from here. *)

-----------------------------------------------------------------------------
(* The OCR worker. *)

LEMMA AtMostOne ==
  ASSUME NEW U, \A x \in U, y \in U : x = y
  PROVE  IsFiniteSet(U) /\ Cardinality(U) <= 1 /\ Cardinality(U) \in Nat
  <1>1. CASE U = {}
    BY <1>1, FS_EmptySet
  <1>2. CASE U # {}
    <2>1. PICK x \in U : U = {x}
      BY <1>2
    <2>2. IsFiniteSet({x}) /\ Cardinality({x}) = 1
      BY FS_Singleton, Zenon
    <2> QED BY <2>1, <2>2
  <1> QED BY <1>1, <1>2

IsUp(w) == ocrWorker[w] \in {"starting", "alive"}
OcrTypes ==
  /\ workerPromise \in WorkerId \cup {Unstarted} /\ closing \in WorkerId \cup {StillUp, Released}
  /\ ocrWorker \in [WorkerId -> {"none", "starting", "alive", "failed", "gone"}]
  /\ lateWorkers \subseteq WorkerId /\ sentShort \subseteq {"DOCX"}
\* Until the module goes down, the promise is the one worker; while the release of one is awaited,
\* that one still starts; whoever is up after that was asked for late.
WorkersStand ==
  /\ workerPromise # Unstarted => IsUp(workerPromise)
  /\ closing = StillUp => lateWorkers = {} /\ \A w \in WorkerId : IsUp(w) => w = workerPromise
  /\ closing # StillUp => workerPromise \in lateWorkers \cup {Unstarted}
  /\ closing \in WorkerId => ocrWorker[closing] = "starting" /\ closing \notin lateWorkers
  /\ closing # StillUp => \A w \in WorkerId : IsUp(w) => w \in lateWorkers \cup {closing}
OcrInv == OcrTypes /\ WorkersStand

LEMMA WorkerIds == WorkerId \subseteq Nat \ {0} /\ Unstarted \notin WorkerId /\ StillUp \notin WorkerId /\ Released \notin WorkerId
                   /\ Released # StillUp
  BY ResumeTextAssumption DEF Unstarted, StillUp, Released

LEMMA OcrStart == OcrInit => OcrInv
  BY WorkerIds DEF OcrInit, OcrInv, OcrTypes, WorkersStand, IsUp

\* What the parse alone does disturbs no worker.
LEMMA OcrFrame ==
  ASSUME OcrInv, UNCHANGED <<workerPromise, ocrWorker, closing, lateWorkers>>, sentShort' \subseteq {"DOCX"}
  PROVE  OcrInv'
  BY DEF OcrInv, OcrTypes, WorkersStand, IsUp

LEMMA OcrParseKeeps ==
  ASSUME OcrInv, NEW p \in Reader, ExtractText(p) \/ OcrPdfPages(p) \/ ReadImage(p) \/ UseText(p)
  PROVE  OcrInv'
  <1>1. sentShort' = sentShort \/ sentShort' = sentShort \cup {"DOCX"}
    BY DEF ExtractText, OcrPdfPages, ReadImage, UseText, SendText
  <1>2. UNCHANGED <<workerPromise, ocrWorker, closing, lateWorkers>>
    BY Zenon DEF ExtractText, OcrPdfPages, ReadImage, UseText
  <1>3. sentShort' \subseteq {"DOCX"}
    BY <1>1, Zenon DEF OcrInv, OcrTypes
  <1> QED BY <1>2, <1>3, OcrFrame

LEMMA WorkerKeeps == ASSUME OcrInv, NEW p \in Reader, Worker(p) PROVE OcrInv'
  <1>1. CASE workerPromise # Unstarted
    <2>1. UNCHANGED <<workerPromise, ocrWorker, closing, lateWorkers, sentShort>>
      BY <1>1 DEF Worker
    <2> QED BY <2>1, OcrFrame DEF OcrInv, OcrTypes
  <1>2. CASE workerPromise = Unstarted
    <2>1. PICK w \in WorkerId :
            /\ ocrWorker[w] = "none" /\ workerPromise' = w
            /\ ocrWorker' = [ocrWorker EXCEPT ![w] = "starting"]
            /\ lateWorkers' = IF closing = StillUp THEN lateWorkers ELSE lateWorkers \cup {w}
      BY <1>2, Zenon DEF Worker
    <2>2. closing' = closing /\ sentShort' = sentShort
      BY DEF Worker
    <2>3. \A v \in WorkerId : ocrWorker'[v] = IF v = w THEN "starting" ELSE ocrWorker[v]
      BY <2>1 DEF OcrInv, OcrTypes
    <2>4. OcrTypes'
      BY <2>1, <2>2 DEF OcrInv, OcrTypes
    <2>5. WorkersStand'
      BY <1>2, <2>1, <2>2, <2>3, WorkerIds DEF OcrInv, OcrTypes, WorkersStand, IsUp
    <2> QED BY <2>4, <2>5 DEF OcrInv
  <1> QED BY <1>1, <1>2

LEMMA ReadyKeeps == ASSUME OcrInv, NEW w \in WorkerId, WorkerReady(w) PROVE OcrInv'
  <1>1. \A v \in WorkerId : ocrWorker'[v] = IF v = w THEN (IF closing = w THEN "gone" ELSE "alive") ELSE ocrWorker[v]
    BY DEF OcrInv, OcrTypes, WorkerReady
  <1>2. OcrTypes'
    BY DEF OcrInv, OcrTypes, WorkerReady
  <1>3. IsUp(w)
    BY DEF WorkerReady, IsUp
  <1>4. CASE closing = w
    BY <1>1, <1>3, <1>4, WorkerIds DEF OcrInv, OcrTypes, WorkersStand, IsUp, WorkerReady
  <1>5. CASE closing # w
    BY <1>1, <1>3, <1>5, WorkerIds DEF OcrInv, OcrTypes, WorkersStand, IsUp, WorkerReady
  <1> QED BY <1>2, <1>4, <1>5 DEF OcrInv

LEMMA FailsKeeps == ASSUME OcrInv, NEW w \in WorkerId, WorkerFails(w) PROVE OcrInv'
  <1>1. \A v \in WorkerId : ocrWorker'[v] = IF v = w THEN "failed" ELSE ocrWorker[v]
    BY DEF OcrInv, OcrTypes, WorkerFails
  <1>2. OcrTypes'
    BY DEF OcrInv, OcrTypes, WorkerFails
  <1>3. IsUp(w)
    BY DEF WorkerFails, IsUp
  <1>4. CASE closing = w
    BY <1>1, <1>3, <1>4, WorkerIds DEF OcrInv, OcrTypes, WorkersStand, IsUp, WorkerFails
  <1>5. CASE closing # w
    BY <1>1, <1>3, <1>5, WorkerIds DEF OcrInv, OcrTypes, WorkersStand, IsUp, WorkerFails
  <1> QED BY <1>2, <1>4, <1>5 DEF OcrInv

LEMMA DestroyKeeps == ASSUME OcrInv, OnModuleDestroy PROVE OcrInv'
  <1>1. CASE workerPromise # Unstarted /\ ocrWorker[workerPromise] = "starting"
    BY <1>1, WorkerIds DEF OcrInv, OcrTypes, WorkersStand, IsUp, OnModuleDestroy
  <1>2. CASE ~(workerPromise # Unstarted /\ ocrWorker[workerPromise] = "starting")
    <2>1. \A v \in WorkerId : ocrWorker'[v] = IF v = workerPromise THEN "gone" ELSE ocrWorker[v]
      BY <1>2 DEF OnModuleDestroy
    <2>2. OcrTypes'
      BY <1>2 DEF OcrInv, OcrTypes, OnModuleDestroy
    <2>3. \A v \in WorkerId : ~ IsUp(v)'
      BY <2>1 DEF OcrInv, WorkersStand, IsUp, OnModuleDestroy
    <2>4. WorkersStand'
      BY <1>2, <2>3, WorkerIds DEF WorkersStand, OnModuleDestroy
    <2> QED BY <2>2, <2>4 DEF OcrInv
  <1> QED BY <1>1, <1>2

LEMMA OcrStep == OcrInv /\ [OcrNext]_ocrVars => OcrInv'
  <1> SUFFICES ASSUME OcrInv, [OcrNext]_ocrVars PROVE OcrInv'
    OBVIOUS
  <1>1. CASE UNCHANGED ocrVars
    BY <1>1, OcrFrame DEF ocrVars, OcrInv, OcrTypes
  <1>2. CASE OcrNext
    BY <1>2, OcrParseKeeps, WorkerKeeps, ReadyKeeps, FailsKeeps, DestroyKeeps DEF OcrNext
  <1> QED BY <1>1, <1>2

LEMMA OcrSound == OcrInv => OneOcrWorker /\ NothingEmptyIsSent
  <1> SUFFICES ASSUME OcrInv PROVE OneOcrWorker /\ NothingEmptyIsSent
    OBVIOUS
  <1>1. \A x, y \in {w \in WorkerId \ lateWorkers : ocrWorker[w] \in {"starting", "alive"}} : x = y
    BY WorkerIds DEF OcrInv, WorkersStand, IsUp
  <1>2. Cardinality({w \in WorkerId \ lateWorkers : ocrWorker[w] \in {"starting", "alive"}}) <= 1
    BY <1>1, AtMostOne
  <1>3. closing = Released => \A w \in WorkerId : IsUp(w) => w \in lateWorkers
    BY WorkerIds DEF OcrInv, WorkersStand
  <1> QED BY <1>2, <1>3 DEF OcrInv, OcrTypes, WorkersStand, IsUp, OneOcrWorker, NothingEmptyIsSent

-----------------------------------------------------------------------------
(* Letters. *)

LetterText == [by : {"ai", "template"}, owner : Writer, from : {"own", "active", "none"}, of : Request]
CalledFor == [pc : {"call"}, by : Writer, about : Letter, from : {"own", "active", "none"}]
Composed == [pc : {"write", "answer"}, about : Letter, text : LetterText]
LetterTypes ==
  /\ letter \in [Letter -> {NoLetter} \cup LetterText] /\ told \in [Letter -> {NoLetter} \cup LetterText]
  /\ asking \in [Request -> {NoRequest} \cup CalledFor \cup Composed] /\ muddled \subseteq Letter
\* A request is its candidate's, and alone on its letter unless that is muddled; what it wrote is on the row.
AskingStands(x) ==
  /\ asking[x].pc = "call" => asking[x].by = LetterOf[asking[x].about]
  /\ asking[x].pc \in {"write", "answer"} => asking[x].text.owner = LetterOf[asking[x].about]
  /\ asking[x].pc = "answer" => asking[x].about \in muddled \/ letter[asking[x].about] = asking[x].text
  /\ asking[x] # NoRequest => asking[x].about \in muddled
       \/ \A y \in Request : asking[y] # NoRequest /\ asking[y].about = asking[x].about => y = x
LetterInv == LetterTypes /\ (\A x \in Request : AskingStands(x)) /\ LettersAreAsShown

LEMMA AskingKinds ==
  ASSUME LetterTypes, NEW x \in Request
  PROVE  /\ asking[x].pc = "call" => asking[x] \in CalledFor
         /\ asking[x].pc \in {"write", "answer"} => asking[x] \in Composed
         /\ asking[x].pc = "idle" <=> asking[x] = NoRequest
         /\ asking[x] # NoRequest => asking[x].about \in Letter
  BY DEF LetterTypes, NoRequest, CalledFor, Composed

LEMMA LetterStart == LettersInit => LetterInv
  BY DEF LettersInit, LetterInv, LetterTypes, AskingStands, LettersAreAsShown, NoRequest

LEMMA CoverLetterKeeps ==
  ASSUME LetterInv, NEW x \in Request, NEW w \in Writer, NEW l \in Letter, CoverLetter(x, w, l)
  PROVE  LetterInv'
  <1>0. LetterTypes /\ (\A y \in Request : AskingStands(y)) /\ LettersAreAsShown
    BY DEF LetterInv
  <1>1. PICK q : q = [pc |-> "call", by |-> w, about |-> l, from |-> ResumeSummary]
    BY Zenon
  <1>2. q \in CalledFor /\ q.by = LetterOf[q.about] /\ q.about = l /\ q.pc = "call"
    BY <1>1 DEF CalledFor, ResumeSummary, CoverLetter
  <1>3. /\ asking' = [asking EXCEPT ![x] = q] /\ asking[x] = NoRequest /\ UNCHANGED <<letter, told>>
        /\ muddled \subseteq muddled' /\ muddled' \subseteq muddled \cup {l}
        /\ l \in muddled' \/ Others(l) = {}
    BY <1>1 DEF CoverLetter
  <1>4. \A y \in Request : asking'[y] = IF y = x THEN q ELSE asking[y]
    BY <1>0, <1>3 DEF LetterTypes
  <1>5. LetterTypes'
    BY <1>0, <1>2, <1>3 DEF LetterTypes
  <1>6. l \in muddled' \/ \A y \in Request : asking[y] # NoRequest => asking[y].about # l
    BY <1>0, <1>3, AskingKinds DEF Others
  <1>7. ASSUME NEW y \in Request PROVE AskingStands(y)'
    <2>1. CASE y = x
      BY <1>2, <1>3, <1>4, <1>6, <2>1 DEF AskingStands
    <2>2. CASE y # x
      <3>1. asking'[y] = asking[y] /\ AskingStands(y)
        BY <1>0, <1>4, <2>2
      <3>2. ASSUME asking[y] # NoRequest, asking[y].about \notin muddled', NEW z \in Request,
                   asking'[z] # NoRequest, asking'[z].about = asking[y].about
            PROVE  z = y
        <4>1. CASE z = x
          BY <1>2, <1>4, <1>6, <3>2, <4>1
        <4>2. CASE z # x
          BY <1>3, <1>4, <3>1, <3>2, <4>2 DEF AskingStands
        <4> QED BY <4>1, <4>2
      <3> QED BY <1>3, <3>1, <3>2 DEF AskingStands
    <2> QED BY <2>1, <2>2
  <1>8. LettersAreAsShown'
    BY <1>0, <1>2, <1>3, <1>4, <1>6 DEF LettersAreAsShown, NoRequest
  <1> QED BY <1>5, <1>7, <1>8 DEF LetterInv

LEMMA GenerateKeeps ==
  ASSUME LetterInv, NEW x \in Request, NEW by \in {"ai", "template"}, Generate(x, by)
  PROVE  LetterInv'
  <1>0. LetterTypes /\ (\A y \in Request : AskingStands(y)) /\ LettersAreAsShown
    BY DEF LetterInv
  <1>1. asking[x].pc = "call" /\ asking[x] \in CalledFor /\ asking[x].by = LetterOf[asking[x].about]
        /\ UNCHANGED <<letter, told, muddled>>
    BY <1>0, AskingKinds DEF Generate, AskingStands
  <1>2. PICK q : q = [pc |-> "write", about |-> asking[x].about,
                   text |-> [by |-> by, owner |-> asking[x].by, from |-> asking[x].from, of |-> x]]
    BY Zenon
  <1>3. q \in Composed /\ q.text.owner = LetterOf[q.about] /\ q.about = asking[x].about /\ q.pc = "write"
    BY <1>1, <1>2 DEF Composed, CalledFor, LetterText
  <1>4. asking' = [asking EXCEPT ![x] = q]
    BY <1>2 DEF Generate
  <1>5. \A y \in Request : asking'[y] = IF y = x THEN q ELSE asking[y]
    BY <1>0, <1>4 DEF LetterTypes
  <1>6. asking[x] # NoRequest /\ q # NoRequest
    BY <1>1, <1>3 DEF NoRequest
  <1>7. LetterTypes'
    BY <1>0, <1>1, <1>3, <1>4 DEF LetterTypes
  <1>8. \A y \in Request : AskingStands(y)'
    BY <1>0, <1>1, <1>3, <1>5, <1>6 DEF AskingStands
  <1>9. LettersAreAsShown'
    BY <1>0, <1>1, <1>3, <1>5 DEF LettersAreAsShown
  <1> QED BY <1>7, <1>8, <1>9 DEF LetterInv

LEMMA PersistLetterKeeps == ASSUME LetterInv, NEW x \in Request, PersistLetter(x) PROVE LetterInv'
  <1>0. LetterTypes /\ (\A y \in Request : AskingStands(y)) /\ LettersAreAsShown
    BY DEF LetterInv
  <1>1. /\ asking[x].pc = "write" /\ asking[x] \in Composed /\ asking[x].text.owner = LetterOf[asking[x].about]
        /\ UNCHANGED <<told, muddled>>
    BY <1>0, AskingKinds DEF PersistLetter, AskingStands
  <1>2. PICK l \in Letter, t \in LetterText : l = asking[x].about /\ t = asking[x].text
    BY <1>1 DEF Composed
  <1>3. PICK q : q = [asking[x] EXCEPT !.pc = "answer"]
    BY Zenon
  <1>4. q \in Composed /\ q.pc = "answer" /\ q.about = l /\ q.text = t
    BY <1>1, <1>2, <1>3 DEF Composed
  <1>5. \A y \in Request : asking'[y] = IF y = x THEN q ELSE asking[y]
    BY <1>0, <1>3 DEF LetterTypes, PersistLetter
  <1>6. \A k \in Letter : letter'[k] = IF k = l THEN t ELSE letter[k]
    BY <1>0, <1>2 DEF LetterTypes, PersistLetter
  <1>7. asking[x] # NoRequest /\ q # NoRequest
    BY <1>1, <1>4 DEF NoRequest
  <1>8. LetterTypes'
    <2>1. asking' = [asking EXCEPT ![x] = q] /\ letter' = [letter EXCEPT ![l] = t]
      BY <1>0, <1>2, <1>3 DEF PersistLetter, LetterTypes
    <2> QED BY <1>0, <1>1, <1>2, <1>4, <2>1 DEF LetterTypes
  <1>9. ASSUME NEW y \in Request PROVE AskingStands(y)'
    <2>1. CASE y = x
      <3>1. l \in muddled \/ \A z \in Request : asking[z] # NoRequest /\ asking[z].about = l => z = x
        BY <1>0, <1>2, <1>7 DEF AskingStands
      <3> QED BY <1>1, <1>2, <1>4, <1>5, <1>6, <2>1, <3>1 DEF AskingStands
    <2>2. CASE y # x
      <3>1. asking'[y] = asking[y] /\ AskingStands(y)
        BY <1>0, <1>5, <2>2
      <3>2. asking[y] # NoRequest => asking[y].about \in Letter /\ (asking[y].about # l \/ l \in muddled)
        <4>1. asking[y] # NoRequest /\ asking[y].about = l => l \in muddled
          BY <1>2, <1>7, <2>2, <3>1 DEF AskingStands
        <4> QED BY <1>0, <4>1, AskingKinds
      <3>3. asking[y].pc = "answer" => asking[y] # NoRequest
        BY DEF NoRequest
      <3>4. \A z \in Request : asking'[z] # NoRequest => asking[z] # NoRequest /\ asking'[z].about = asking[z].about
        BY <1>2, <1>4, <1>5, <1>7
      <3> QED BY <1>1, <1>6, <3>1, <3>2, <3>3, <3>4 DEF AskingStands
    <2> QED BY <2>1, <2>2
  <1>10. LettersAreAsShown'
    <2> SUFFICES ASSUME NEW k \in Letter
                 PROVE  /\ letter'[k] # NoLetter => letter'[k].owner = LetterOf[k]
                        /\ k \in muddled \/ letter'[k] = told[k]
                           \/ \E y \in Request : asking'[y].pc = "answer" /\ asking'[y].about = k /\ asking'[y].text = letter'[k]
      BY <1>1 DEF LettersAreAsShown
    <2>1. CASE k = l
      BY <1>1, <1>2, <1>4, <1>5, <1>6, <2>1
    <2>2. CASE k # l
      <3>1. letter'[k] = letter[k]
        BY <1>6, <2>2
      <3>2. \A y \in Request : asking[y].pc = "answer" => asking'[y] = asking[y]
        BY <1>1, <1>5
      <3> QED BY <1>0, <3>1, <3>2 DEF LettersAreAsShown
    <2> QED BY <2>1, <2>2
  <1> QED BY <1>8, <1>9, <1>10 DEF LetterInv

LEMMA AnswerLetterKeeps == ASSUME LetterInv, NEW x \in Request, AnswerLetter(x) PROVE LetterInv'
  <1>0. LetterTypes /\ (\A y \in Request : AskingStands(y)) /\ LettersAreAsShown
    BY DEF LetterInv
  <1>1. asking[x].pc = "answer" /\ asking[x] \in Composed /\ UNCHANGED <<letter, muddled>>
    BY <1>0, AskingKinds DEF AnswerLetter
  <1>2. PICK l \in Letter, t \in LetterText : l = asking[x].about /\ t = asking[x].text
    BY <1>1 DEF Composed
  <1>3. l \in muddled \/ letter[l] = t
    BY <1>0, <1>1, <1>2 DEF AskingStands
  <1>4. asking' = [asking EXCEPT ![x] = NoRequest] /\ told' = [told EXCEPT ![l] = t]
    BY <1>2 DEF AnswerLetter
  <1>5. \A y \in Request : asking'[y] = IF y = x THEN NoRequest ELSE asking[y]
    BY <1>0, <1>4 DEF LetterTypes
  <1>6. \A k \in Letter : told'[k] = IF k = l THEN t ELSE told[k]
    BY <1>0, <1>4 DEF LetterTypes
  <1>7. LetterTypes'
    BY <1>0, <1>1, <1>2, <1>4 DEF LetterTypes
  <1>8. \A y \in Request : AskingStands(y)'
    BY <1>0, <1>1, <1>5 DEF AskingStands, NoRequest
  <1>9. LettersAreAsShown'
    BY <1>0, <1>1, <1>2, <1>3, <1>5, <1>6 DEF LettersAreAsShown
  <1> QED BY <1>7, <1>8, <1>9 DEF LetterInv

LEMMA LoseRequestKeeps == ASSUME LetterInv, NEW x \in Request, LoseRequest(x) PROVE LetterInv'
  <1>0. LetterTypes /\ (\A y \in Request : AskingStands(y)) /\ LettersAreAsShown
    BY DEF LetterInv
  <1>1. PICK l \in Letter : l = asking[x].about
    BY <1>0, AskingKinds DEF LoseRequest
  <1>2. muddled' = muddled \cup {l} /\ asking' = [asking EXCEPT ![x] = NoRequest] /\ UNCHANGED <<letter, told>>
    BY <1>1 DEF LoseRequest
  <1>3. \A y \in Request : asking'[y] = IF y = x THEN NoRequest ELSE asking[y]
    BY <1>0, <1>2 DEF LetterTypes
  <1>4. LetterTypes'
    BY <1>0, <1>2 DEF LetterTypes
  <1>5. \A y \in Request : AskingStands(y)'
    BY <1>0, <1>2, <1>3 DEF AskingStands, NoRequest
  <1>6. LettersAreAsShown'
    BY <1>0, <1>1, <1>2, <1>3 DEF LettersAreAsShown
  <1> QED BY <1>4, <1>5, <1>6 DEF LetterInv

LEMMA LetterStep == LetterInv /\ [LettersNext]_letterVars => LetterInv'
  <1> SUFFICES ASSUME LetterInv, [LettersNext]_letterVars PROVE LetterInv'
    OBVIOUS
  <1>1. CASE UNCHANGED <<letter, asking, told, muddled>>
    BY <1>1 DEF LetterInv, LetterTypes, AskingStands, LettersAreAsShown
  <1>2. CASE \E x \in Request :
               \/ \E w \in Writer, l \in Letter : CoverLetter(x, w, l)
               \/ \E by \in {"ai", "template"} : Generate(x, by)
               \/ PersistLetter(x) \/ AnswerLetter(x) \/ LoseRequest(x)
    BY <1>2, CoverLetterKeeps, GenerateKeeps, PersistLetterKeeps, AnswerLetterKeeps, LoseRequestKeeps
  <1> QED BY <1>1, <1>2 DEF LettersNext, letterVars, SetTier, Reparse

-----------------------------------------------------------------------------
(* The builder's documents. *)

DocumentRow == [state : {"open", "removed"}, link : ExportFile \cup {NoFile}]
ExportRow == [state : {"listed", "superseded", "deleted"}, of : Document]
Putting == [pc : {"put"}, doc : Document, todo : SUBSET Section]
Inserting == [pc : {"insert"}, doc : Document, todo : SUBSET Section, section : Section, taken : SUBSET Nat, put : Nat]
ReadingOf ==
  [pc : {"read"}, aim : {"copy", "export"}, doc : Document, link : ExportFile \cup {NoFile}, rest : SUBSET Section,
   seen : [Section -> SUBSET Nat], crossed : BOOLEAN]
DocumentTypes ==
  /\ document \in [Document -> {NoDocument} \cup DocumentRow] /\ section \in [Document -> [Section -> SUBSET Nat]]
  /\ picker \in [ExportFile -> {NoExport} \cup ExportRow]
  /\ editor \in [Editor -> {Away} \cup Putting \cup Inserting \cup ReadingOf] /\ puts \in Nat /\ mixed \subseteq Nat

\* The rows of a section come from one write, or from writes that overlapped.
OneWrite(rows) == rows \subseteq mixed \/ \A a, b \in rows : a = b
SectionsStand == \A d \in Document, s \in Section : OneWrite(section[d][s])
\* A document's link is to an export of its own.
LinksStand == \A d \in Document : document[d].link \in ExportFile => picker[document[d].link].of = d
\* What is in a section beside what an insertion took came from one that overlapped it; a document
\* that is read keeps its link until an export of it is stored.
Newer(e) == section[editor[e].doc][editor[e].section] \ editor[e].taken
EditorStands(e) ==
  /\ editor[e] # Away => document[editor[e].doc] # NoDocument
  /\ editor[e].pc = "insert" =>
       /\ Newer(e) # {} => editor[e].put \in mixed /\ Newer(e) \subseteq mixed
       /\ \A x \in Editor : editor[x].pc = "insert" /\ editor[x].doc = editor[e].doc /\ editor[x].section = editor[e].section
            /\ x # e => editor[e].put \in mixed
  /\ editor[e].pc = "read" =>
       /\ \A s \in Section : OneWrite(editor[e].seen[s])
       /\ editor[e].crossed \/ editor[e].link = document[editor[e].doc].link
       /\ editor[e].link \in ExportFile => picker[editor[e].link].of = editor[e].doc
DocumentInv ==
  DocumentTypes /\ SectionsStand /\ LinksStand /\ (\A e \in Editor : EditorStands(e)) /\ PickerFollowsTheDocuments

LEMMA DocumentIds == 0 \notin Document /\ NoFile \notin ExportFile /\ Document \subseteq Nat /\ ExportFile \subseteq Nat
  BY DocumentsAssumption DEF NoFile

LEMMA EditorKinds ==
  ASSUME DocumentTypes, NEW e \in Editor
  PROVE  /\ editor[e].pc = "put" => editor[e] \in Putting
         /\ editor[e].pc = "insert" => editor[e] \in Inserting
         /\ editor[e].pc = "read" => editor[e] \in ReadingOf
         /\ editor[e].pc = "away" <=> editor[e] = Away
         /\ editor[e] # Away => editor[e].doc \in Document
  BY DEF DocumentTypes, Away, Putting, Inserting, ReadingOf

LEMMA DocumentStart == DocumentsInit => DocumentInv
  <1> SUFFICES ASSUME DocumentsInit PROVE DocumentInv
    OBVIOUS
  <1>1. DocumentTypes
    BY DEF DocumentsInit, DocumentTypes, Blank
  <1>2. SectionsStand
    BY DEF DocumentsInit, SectionsStand, OneWrite, Blank
  <1>3. LinksStand /\ PickerFollowsTheDocuments
    BY DocumentIds DEF DocumentsInit, LinksStand, PickerFollowsTheDocuments, NoDocument, NoExport
  <1>4. \A e \in Editor : EditorStands(e)
    BY DEF DocumentsInit, EditorStands, Away
  <1> QED BY <1>1, <1>2, <1>3, <1>4 DEF DocumentInv

\* A step that changes one editor, and of the rows at most the state of one document's.
LEMMA OneEditorMoves ==
  ASSUME DocumentInv, NEW e \in Editor, NEW r, editor' = [editor EXCEPT ![e] = r],
         r \in {Away} \cup Putting \cup Inserting \cup ReadingOf, r.pc # "insert",
         r # Away => document[r.doc] # NoDocument,
         r.pc = "read" => /\ \A s \in Section : OneWrite(r.seen[s])
                          /\ r.crossed \/ r.link = document[r.doc].link
                          /\ r.link \in ExportFile => picker[r.link].of = r.doc,
         UNCHANGED <<document, section, picker, puts, mixed, crossed>>
  PROVE  DocumentInv'
  <1>1. \A x \in Editor : editor'[x] = IF x = e THEN r ELSE editor[x]
    BY DEF DocumentInv, DocumentTypes
  <1>2. DocumentTypes'
    BY DEF DocumentInv, DocumentTypes
  <1>3. SectionsStand' /\ LinksStand' /\ PickerFollowsTheDocuments'
    BY DEF DocumentInv, SectionsStand, LinksStand, PickerFollowsTheDocuments, OneWrite
  <1>4. ASSUME NEW x \in Editor PROVE EditorStands(x)'
    <2>1. CASE x = e
      BY <1>1, <2>1 DEF EditorStands, OneWrite
    <2>2. CASE x # e
      <3>1. editor'[x] = editor[x] /\ EditorStands(x)
        BY <1>1, <2>2 DEF DocumentInv
      <3>2. \A y \in Editor : editor'[y].pc = "insert" => editor'[y] = editor[y]
        BY <1>1
      <3> QED BY <3>1, <3>2 DEF EditorStands, OneWrite, Newer
    <2> QED BY <2>1, <2>2
  <1> QED BY <1>2, <1>3, <1>4 DEF DocumentInv

\* A step that changes rows of documents that no editor's place depends on.
LEMMA DocumentMoves ==
  ASSUME DocumentInv, NEW d \in Document, NEW r \in DocumentRow, document' = [document EXCEPT ![d] = r],
         r.link = document[d].link, UNCHANGED <<section, picker, editor, puts, mixed, crossed>>
  PROVE  DocumentInv'
  <1>1. \A c \in Document : /\ document'[c] = IF c = d THEN r ELSE document[c]
                            /\ document'[c].link = document[c].link
                            /\ document[c] # NoDocument => document'[c] # NoDocument
    BY DEF DocumentInv, DocumentTypes, DocumentRow, NoDocument
  <1>2. DocumentTypes'
    BY DEF DocumentInv, DocumentTypes
  <1>3. SectionsStand'
    BY DEF DocumentInv, SectionsStand, OneWrite
  <1>4. LinksStand'
    BY <1>1 DEF DocumentInv, LinksStand
  <1>5. PickerFollowsTheDocuments'
    <2>1. \A f \in ExportFile : picker[f].state = "listed" => picker[f].of \in Document
      BY DEF DocumentInv, DocumentTypes, NoExport, ExportRow
    <2> QED BY <1>1, <2>1 DEF DocumentInv, PickerFollowsTheDocuments
  <1>6. ASSUME NEW x \in Editor PROVE EditorStands(x)'
    <2>1. EditorStands(x) /\ (editor[x] # Away => editor[x].doc \in Document) /\ Away.pc = "away"
      BY EditorKinds DEF DocumentInv, Away
    <2> QED BY <1>1, <2>1 DEF EditorStands, OneWrite, Newer
  <1> QED BY <1>2, <1>3, <1>4, <1>5, <1>6 DEF DocumentInv

LEMMA NewDocumentKeeps == ASSUME DocumentInv, NEW e \in Editor, NEW d \in Document, CreateDocument(e, d) \/ RemoveDocument(e, d) PROVE DocumentInv'
  <1>1. CASE CreateDocument(e, d)
    <2>1. PICK r : r = [state |-> "open", link |-> NoFile]
      BY Zenon
    <2>2. r \in DocumentRow /\ r.link = document[d].link
      BY <1>1, <2>1 DEF DocumentRow, CreateDocument, NextDocument, NoDocument
    <2> QED BY <1>1, <2>1, <2>2, DocumentMoves, Zenon DEF CreateDocument
  <1>2. CASE RemoveDocument(e, d)
    <2>1. PICK r : r = [document[d] EXCEPT !.state = "removed"]
      BY Zenon
    <2>2. document[d] \in DocumentRow
      BY <1>2 DEF RemoveDocument, Editable, DocumentInv, DocumentTypes, NoDocument
    <2>3. r \in DocumentRow /\ r.link = document[d].link
      BY <2>1, <2>2 DEF DocumentRow
    <2>4. document' = [document EXCEPT ![d] = r]
      BY <1>2, <2>1 DEF RemoveDocument, DocumentInv, DocumentTypes
    <2> QED BY <1>2, <2>3, <2>4, DocumentMoves, Zenon DEF RemoveDocument
  <1> QED BY <1>1, <1>2

LEMMA BeginKeeps ==
  ASSUME DocumentInv, NEW e \in Editor, NEW d \in Document,
         (\E todo \in SUBSET Section : BeginPut(e, d, todo)) \/ (\E aim \in {"copy", "export"} : BeginReading(e, d, aim))
  PROVE  DocumentInv'
  <1>0. Editable(d)
    BY Zenon DEF BeginPut, BeginReading
  <1>1. document[d] # NoDocument
    <2>1. NoDocument.state = "none"
      BY DEF NoDocument
    <2> QED BY <1>0, <2>1 DEF Editable
  <1>2. CASE \E todo \in SUBSET Section : BeginPut(e, d, todo)
    <2>1. PICK todo \in SUBSET Section : BeginPut(e, d, todo)
      BY <1>2
    <2>2. PICK r : r = [pc |-> "put", doc |-> d, todo |-> todo]
      BY Zenon
    <2>3. r \in Putting /\ r.doc = d /\ r.pc = "put"
      BY <2>2 DEF Putting
    <2>4. editor' = [editor EXCEPT ![e] = r] /\ UNCHANGED <<document, section, picker, puts, mixed, crossed>>
      BY <2>1, <2>2 DEF BeginPut, Turn
    <2> QED BY <1>1, <2>3, <2>4, OneEditorMoves, Zenon
  <1>3. CASE \E aim \in {"copy", "export"} : BeginReading(e, d, aim)
    <2>1. PICK aim \in {"copy", "export"} : BeginReading(e, d, aim)
      BY <1>3
    <2>2. PICK r : r = [pc |-> "read", aim |-> aim, doc |-> d, link |-> document[d].link, rest |-> Section, seen |-> Blank,
              crossed |-> FALSE]
      BY Zenon
    <2>3. document[d].link \in ExportFile \cup {NoFile} /\ Blank \in [Section -> SUBSET Nat]
      BY <1>1 DEF DocumentInv, DocumentTypes, DocumentRow, Blank
    <2>4. r \in ReadingOf /\ r.doc = d /\ r.pc = "read" /\ r.link = document[d].link /\ r.seen = Blank
      BY <2>2, <2>3 DEF ReadingOf
    <2>5. (\A s \in Section : OneWrite(Blank[s])) /\ (document[d].link \in ExportFile => picker[document[d].link].of = d)
      BY DEF OneWrite, Blank, DocumentInv, LinksStand
    <2>6. editor' = [editor EXCEPT ![e] = r] /\ UNCHANGED <<document, section, picker, puts, mixed, crossed>>
      BY <2>1, <2>2 DEF BeginReading, Turn
    <2> QED BY <1>1, <2>4, <2>5, <2>6, OneEditorMoves, Zenon
  <1> QED BY <1>2, <1>3

LEMMA ReadSectionKeeps == ASSUME DocumentInv, NEW e \in Editor, ReadSection(e) \/ GiveUpEditing(e) PROVE DocumentInv'
  <1>1. CASE ReadSection(e)
    <2>1. PICK q : q = editor[e]
      OBVIOUS
    <2>2. q \in ReadingOf /\ q.pc = "read" /\ EditorStands(e) /\ document[q.doc] # NoDocument /\ q.doc \in Document
      BY <1>1, <2>1, EditorKinds, Zenon DEF ReadSection, DocumentInv, EditorStands, Away
    <2>3. PICK s \in q.rest : editor' = [editor EXCEPT ![e] = [q EXCEPT !.rest = @ \ {s}, !.seen[s] = section[q.doc][s]]]
      BY <1>1, <2>1, Zenon DEF ReadSection, Turn
    <2>4. PICK r : r = [q EXCEPT !.rest = q.rest \ {s}, !.seen = [q.seen EXCEPT ![s] = section[q.doc][s]]]
      OBVIOUS
    <2>5. editor' = [editor EXCEPT ![e] = r]
      BY <2>3, <2>4
    <2>6. s \in Section /\ section[q.doc][s] \in SUBSET Nat /\ OneWrite(section[q.doc][s])
      BY <2>2 DEF ReadingOf, DocumentInv, DocumentTypes, SectionsStand
    <2>7. r \in ReadingOf /\ r.doc = q.doc /\ r.pc = "read" /\ r.link = q.link /\ r.crossed = q.crossed
          /\ \A t \in Section : r.seen[t] = IF t = s THEN section[q.doc][s] ELSE q.seen[t]
      BY <2>2, <2>4, <2>6, Zenon DEF ReadingOf
    <2>8. \A t \in Section : OneWrite(r.seen[t])
      BY <2>1, <2>2, <2>6, <2>7 DEF EditorStands
    <2> QED BY <1>1, <2>1, <2>2, <2>5, <2>7, <2>8, OneEditorMoves, Zenon DEF EditorStands, ReadSection
  <1>2. CASE GiveUpEditing(e)
    <2>1. Away.pc = "away"
      BY DEF Away
    <2> QED BY <1>2, <2>1, OneEditorMoves, Zenon DEF GiveUpEditing, Turn
  <1> QED BY <1>1, <1>2

LEMMA TakeOldKeeps == ASSUME DocumentInv, NEW e \in Editor, TakeOld(e) PROVE DocumentInv'
  <1>0. DocumentTypes /\ SectionsStand /\ LinksStand /\ (\A x \in Editor : EditorStands(x)) /\ PickerFollowsTheDocuments
    BY DEF DocumentInv
  <1>1. PICK q : q = editor[e]
    OBVIOUS
  <1>2. q \in Putting /\ q.pc = "put" /\ q.doc \in Document /\ document[q.doc] # NoDocument
    BY <1>0, <1>1, EditorKinds DEF TakeOld, EditorStands, Away
  <1>3. PICK s \in q.todo, rivals \in SUBSET (Editor \ {e}) :
          /\ rivals = {x \in Editor \ {e} : editor[x].pc = "insert" /\ editor[x].doc = q.doc /\ editor[x].section = s}
          /\ editor' = [editor EXCEPT ![e] = [pc |-> "insert", doc |-> q.doc, todo |-> q.todo, section |-> s,
                      taken |-> section[q.doc][s], put |-> puts + 1]]
          /\ mixed' = IF rivals = {} THEN mixed ELSE mixed \cup {editor[x].put : x \in rivals} \cup {puts + 1}
    BY <1>1, Zenon DEF TakeOld, Turn
  <1>4. PICK r : r = [pc |-> "insert", doc |-> q.doc, todo |-> q.todo, section |-> s, taken |-> section[q.doc][s], put |-> puts + 1]
    BY Zenon
  <1>5. s \in Section /\ section[q.doc][s] \in SUBSET Nat /\ puts + 1 \in Nat
    BY <1>0, <1>2 DEF DocumentTypes, Putting
  <1>6. r \in Inserting /\ r.pc = "insert" /\ r.doc = q.doc /\ r.section = s /\ r.taken = section[q.doc][s] /\ r.put = puts + 1
        /\ r # Away
    BY <1>2, <1>4, <1>5 DEF Inserting, Putting, Away
  <1>7. UNCHANGED <<document, section, picker, crossed>> /\ puts' = puts + 1 /\ editor' = [editor EXCEPT ![e] = r]
    BY <1>3, <1>4 DEF TakeOld
  <1>8. \A x \in Editor : editor'[x] = IF x = e THEN r ELSE editor[x]
    BY <1>0, <1>7 DEF DocumentTypes
  <1>9. \A x \in rivals : editor[x] \in Inserting /\ editor[x].put \in Nat
    BY <1>0, <1>3, EditorKinds DEF Inserting
  <1>10. mixed \subseteq mixed' /\ mixed' \subseteq Nat
    BY <1>0, <1>3, <1>5, <1>9 DEF DocumentTypes
  <1>11. DocumentTypes'
    BY <1>0, <1>5, <1>6, <1>7, <1>10 DEF DocumentTypes
  <1>12. SectionsStand' /\ LinksStand' /\ PickerFollowsTheDocuments'
    <2>1. SectionsStand'
      BY <1>0, <1>7, <1>10, Zenon DEF SectionsStand, OneWrite
    <2> QED BY <1>0, <1>7, <2>1 DEF LinksStand, PickerFollowsTheDocuments
  <1>13. ASSUME NEW x \in Editor PROVE EditorStands(x)'
    <2>1. CASE x = e
      <3>1. Newer(e)' = {}
        BY <1>6, <1>7, <1>8 DEF Newer
      <3>2. \A y \in Editor : editor'[y].pc = "insert" /\ editor'[y].doc = q.doc /\ editor'[y].section = s /\ y # e => y \in rivals
        BY <1>3, <1>8
      <3>3. rivals # {} => puts + 1 \in mixed'
        BY <1>3
      <3> QED BY <1>2, <1>6, <1>7, <1>8, <2>1, <3>1, <3>2, <3>3 DEF EditorStands
    <2>2. CASE x # e
      <3>1. editor'[x] = editor[x] /\ EditorStands(x)
        BY <1>0, <1>8, <2>2
      <3>2. ASSUME editor[x].pc = "insert", NEW y \in Editor, editor'[y].pc = "insert", editor'[y].doc = editor[x].doc,
                   editor'[y].section = editor[x].section, y # x
            PROVE  editor[x].put \in mixed'
        <4>1. CASE y = e
          <5>1. x \in rivals
            BY <1>3, <1>6, <1>8, <2>2, <3>2, <4>1
          <5> QED BY <1>3, <5>1
        <4>2. CASE y # e
          BY <1>8, <1>10, <3>1, <3>2, <4>2, Zenon DEF EditorStands
        <4> QED BY <4>1, <4>2
      <3>3. editor[x].pc = "insert" => Newer(x)' = Newer(x)
        BY <1>7, <3>1 DEF Newer
      <3>4. editor[x].pc = "read" => \A t \in Section : OneWrite(editor[x].seen[t])'
        BY <1>10, <3>1, Zenon DEF EditorStands, OneWrite
      <3>5. editor[x].pc = "insert" => (Newer(x)' # {} => editor[x].put \in mixed' /\ Newer(x)' \subseteq mixed')
        BY <1>10, <3>1, <3>3, Zenon DEF EditorStands
      <3>6. /\ editor'[x] # Away => document'[editor'[x].doc] # NoDocument
            /\ editor'[x].pc = "read" =>
                 /\ editor'[x].crossed \/ editor'[x].link = document'[editor'[x].doc].link
                 /\ editor'[x].link \in ExportFile => picker'[editor'[x].link].of = editor'[x].doc
        BY <1>7, <3>1 DEF EditorStands
      <3> QED BY <3>1, <3>2, <3>4, <3>5, <3>6 DEF EditorStands, OneWrite
    <2> QED BY <2>1, <2>2
  <1> QED BY <1>11, <1>12, <1>13 DEF DocumentInv

LEMMA InsertNewKeeps == ASSUME DocumentInv, NEW e \in Editor, InsertNew(e) PROVE DocumentInv'
  <1>0. DocumentTypes /\ SectionsStand /\ LinksStand /\ (\A x \in Editor : EditorStands(x)) /\ PickerFollowsTheDocuments
    BY DEF DocumentInv
  <1>1. PICK q : q = editor[e]
    OBVIOUS
  <1>2. q \in Inserting /\ q.pc = "insert" /\ q.doc \in Document /\ q.section \in Section /\ document[q.doc] # NoDocument
    BY <1>0, <1>1, EditorKinds DEF InsertNew, EditorStands, Away, Inserting
  <1>3. PICK newer : newer = section[q.doc][q.section] \ q.taken
    BY Zenon
  <1>4. newer = Newer(e) /\ PutNew(e) = {q.put} \cup newer
    BY <1>1, <1>3 DEF Newer, PutNew
  <1>5. PICK rows \in {PutNew(e), PutNew(e) \ {q.put}} : section' = [section EXCEPT ![q.doc][q.section] = rows]
    BY <1>1, Zenon DEF InsertNew
  <1>6. rows \subseteq {q.put} \cup newer /\ q.put \in Nat /\ newer \subseteq Nat
    BY <1>0, <1>2, <1>3, <1>4, <1>5 DEF DocumentTypes, Inserting
  <1>7. UNCHANGED <<document, picker, puts, mixed, crossed>>
    BY DEF InsertNew
  <1>8. newer # {} => q.put \in mixed /\ newer \subseteq mixed
    BY <1>0, <1>1, <1>2, <1>4 DEF EditorStands
  <1>9. \A d \in Document, s \in Section : section'[d][s] = IF d = q.doc /\ s = q.section THEN rows ELSE section[d][s]
    BY <1>0, <1>2, <1>5 DEF DocumentTypes
  <1>10. section' \in [Document -> [Section -> SUBSET Nat]]
    BY <1>0, <1>2, <1>5, <1>6, Zenon DEF DocumentTypes
  <1>11. PICK r : r = IF q.todo = {q.section} THEN Away ELSE [pc |-> "put", doc |-> q.doc, todo |-> q.todo \ {q.section}]
    BY Zenon
  <1>12. r \in {Away} \cup Putting /\ r.pc \notin {"insert", "read"} /\ (r # Away => r.doc = q.doc)
    BY <1>2, <1>11 DEF Away, Putting, Inserting
  <1>13. editor' = [editor EXCEPT ![e] = r]
    BY <1>1, <1>11 DEF InsertNew, Turn
  <1>14. \A x \in Editor : editor'[x] = IF x = e THEN r ELSE editor[x]
    BY <1>0, <1>13 DEF DocumentTypes
  <1>15. DocumentTypes'
    BY <1>0, <1>7, <1>10, <1>12, <1>13 DEF DocumentTypes
  <1>16. OneWrite(rows)
    <2>1. CASE newer = {}
      BY <1>6, <2>1 DEF OneWrite
    <2>2. CASE newer # {}
      BY <1>6, <1>8, <2>2, Zenon DEF OneWrite
    <2> QED BY <2>1, <2>2
  <1>17. SectionsStand'
    BY <1>0, <1>7, <1>9, <1>16 DEF SectionsStand, OneWrite
  <1>18. LinksStand' /\ PickerFollowsTheDocuments'
    BY <1>0, <1>7 DEF LinksStand, PickerFollowsTheDocuments
  <1>19. ASSUME NEW x \in Editor PROVE EditorStands(x)'
    <2>1. CASE x = e
      BY <1>2, <1>7, <1>12, <1>14, <2>1 DEF EditorStands
    <2>2. CASE x # e
      <3>1. editor'[x] = editor[x] /\ EditorStands(x)
        BY <1>0, <1>14, <2>2
      <3>2. ASSUME editor[x].pc = "insert" PROVE Newer(x)' # {} => editor[x].put \in mixed /\ Newer(x)' \subseteq mixed
        <4>1. editor[x] \in Inserting /\ editor[x].doc \in Document /\ editor[x].section \in Section
          BY <1>0, <3>2, EditorKinds DEF Inserting
        <4>2. CASE editor[x].doc = q.doc /\ editor[x].section = q.section
          <5>1. editor[x].put \in mixed
            BY <1>1, <1>2, <2>2, <3>1, <3>2, <4>2 DEF EditorStands
          <5>2. q.put \in mixed
            BY <1>0, <1>1, <1>2, <2>2, <3>2, <4>2 DEF EditorStands
          <5>3. Newer(x)' \subseteq rows
            BY <1>9, <3>1, <4>1, <4>2 DEF Newer
          <5> QED BY <1>6, <1>8, <5>1, <5>2, <5>3, Zenon
        <4>3. CASE ~(editor[x].doc = q.doc /\ editor[x].section = q.section)
          <5>1. Newer(x)' = Newer(x)
            BY <1>9, <3>1, <4>1, <4>3 DEF Newer
          <5> QED BY <3>1, <3>2, <5>1 DEF EditorStands
        <4> QED BY <4>2, <4>3
      <3>3. ASSUME editor[x].pc = "insert", NEW y \in Editor, editor'[y].pc = "insert", editor'[y].doc = editor[x].doc,
                   editor'[y].section = editor[x].section, y # x
            PROVE  editor[x].put \in mixed
        BY <1>12, <1>14, <3>1, <3>3 DEF EditorStands
      <3>4. /\ editor'[x] # Away => document'[editor'[x].doc] # NoDocument
            /\ editor'[x].pc = "read" =>
                 /\ \A t \in Section : OneWrite(editor[x].seen[t])'
                 /\ editor'[x].crossed \/ editor'[x].link = document'[editor'[x].doc].link
                 /\ editor'[x].link \in ExportFile => picker'[editor'[x].link].of = editor'[x].doc
        BY <1>7, <3>1 DEF EditorStands, OneWrite
      <3> QED BY <1>7, <3>1, <3>2, <3>3, <3>4 DEF EditorStands, OneWrite
    <2> QED BY <2>1, <2>2
  <1> QED BY <1>15, <1>17, <1>18, <1>19 DEF DocumentInv

LEMMA DuplicateKeeps == ASSUME DocumentInv, NEW e \in Editor, NEW c \in Document, Duplicate(e, c) PROVE DocumentInv'
  <1>0. DocumentTypes /\ SectionsStand /\ LinksStand /\ (\A x \in Editor : EditorStands(x)) /\ PickerFollowsTheDocuments
    BY DEF DocumentInv
  <1>1. PICK q : q = editor[e]
    OBVIOUS
  <1>2. q \in ReadingOf /\ q.pc = "read" /\ document[c] = NoDocument
    BY <1>0, <1>1, EditorKinds DEF Duplicate, ReadAll, NextDocument
  <1>3. UNCHANGED <<picker, puts, mixed, crossed>> /\ section' = [section EXCEPT ![c] = q.seen]
        /\ editor' = [editor EXCEPT ![e] = Away]
    BY <1>1 DEF Duplicate, Turn
  <1>4. PICK r : r = [state |-> "open", link |-> NoFile]
    BY Zenon
  <1>5. document' = [document EXCEPT ![c] = r] /\ r \in DocumentRow /\ r.link = NoFile /\ r # NoDocument
    BY <1>4 DEF Duplicate, CopiedLink, DocumentRow, NoDocument
  <1>6. \A d \in Document : /\ document'[d] = IF d = c THEN r ELSE document[d]
                            /\ document'[d].link = document[d].link
                            /\ document[d] # NoDocument => document'[d] # NoDocument
    BY <1>0, <1>2, <1>5 DEF DocumentTypes, NoDocument
  <1>7. \A x \in Editor : editor'[x] = IF x = e THEN Away ELSE editor[x]
    BY <1>0, <1>3 DEF DocumentTypes
  <1>8. q.seen \in [Section -> SUBSET Nat] /\ \A s \in Section : OneWrite(q.seen[s])
    BY <1>0, <1>1, <1>2 DEF ReadingOf, EditorStands
  <1>9. \A d \in Document, s \in Section : section'[d][s] = IF d = c THEN q.seen[s] ELSE section[d][s]
    BY <1>0, <1>3 DEF DocumentTypes
  <1>10. DocumentTypes'
    BY <1>0, <1>3, <1>5, <1>8 DEF DocumentTypes
  <1>11. SectionsStand'
    BY <1>0, <1>3, <1>8, <1>9 DEF SectionsStand, OneWrite
  <1>12. LinksStand'
    BY <1>0, <1>3, <1>6 DEF LinksStand
  <1>13. PickerFollowsTheDocuments'
    <2>1. \A f \in ExportFile : picker[f].state = "listed" => picker[f].of \in Document
      BY <1>0 DEF DocumentTypes, NoExport, ExportRow
    <2> QED BY <1>0, <1>3, <1>6, <2>1 DEF PickerFollowsTheDocuments
  <1>14. ASSUME NEW x \in Editor PROVE EditorStands(x)'
    <2>1. CASE x = e
      BY <1>7, <2>1 DEF EditorStands, Away
    <2>2. CASE x # e
      <3>1. editor'[x] = editor[x] /\ EditorStands(x) /\ (editor[x] # Away => editor[x].doc \in Document)
        BY <1>0, <1>7, <2>2, EditorKinds
      <3>2. editor[x].pc = "insert" => Newer(x)' = Newer(x)
        <4>1. editor[x].pc = "insert" => editor[x].doc # c /\ editor[x].section \in Section /\ editor[x].doc \in Document
          BY <1>0, <1>2, <3>1, EditorKinds DEF EditorStands, Inserting, Away
        <4> QED BY <1>9, <3>1, <4>1 DEF Newer
      <3>3. \A y \in Editor : editor'[y].pc = "insert" => editor'[y] = editor[y]
        BY <1>7 DEF Away
      <3>4. /\ editor'[x] # Away => document'[editor'[x].doc] # NoDocument
            /\ editor'[x].pc = "read" =>
                 /\ \A t \in Section : OneWrite(editor[x].seen[t])'
                 /\ editor'[x].crossed \/ editor'[x].link = document'[editor'[x].doc].link
                 /\ editor'[x].link \in ExportFile => picker'[editor'[x].link].of = editor'[x].doc
        <4>1. editor[x].pc = "read" => editor[x].doc \in Document
          BY <1>0, EditorKinds DEF ReadingOf
        <4> QED BY <1>3, <1>6, <3>1, <4>1 DEF EditorStands, OneWrite
      <3> QED BY <1>3, <3>1, <3>2, <3>3, <3>4 DEF EditorStands, OneWrite
    <2> QED BY <2>1, <2>2
  <1> QED BY <1>10, <1>11, <1>12, <1>13, <1>14 DEF DocumentInv

LEMMA PersistKeeps == ASSUME DocumentInv, NEW e \in Editor, NEW f \in ExportFile, Persist(e, f) PROVE DocumentInv'
  <1>0. DocumentTypes /\ SectionsStand /\ LinksStand /\ (\A x \in Editor : EditorStands(x)) /\ PickerFollowsTheDocuments
    BY DEF DocumentInv
  <1>1. PICK q : q = editor[e]
    OBVIOUS
  <1>2. q \in ReadingOf /\ q.pc = "read" /\ q.doc \in Document /\ document[q.doc] \in DocumentRow
        /\ q.link \in ExportFile \cup {NoFile} /\ q.crossed \in BOOLEAN
    BY <1>0, <1>1, EditorKinds DEF Persist, ReadAll, EditorStands, Away, ReadingOf, DocumentTypes
  <1>3. picker[f] = NoExport /\ picker[f].of = 0 /\ picker[f].state = "none" /\ 0 \notin Document /\ NoFile \notin ExportFile
    BY DocumentIds DEF Persist, NextFile, NoExport
  <1>4. UNCHANGED <<section, puts, mixed>>
    BY DEF Persist
  <1>5. \A g \in ExportFile : picker'[g] = IF g = f THEN [state |-> "listed", of |-> q.doc]
                                           ELSE IF g = q.link THEN [picker[g] EXCEPT !.state = "superseded"] ELSE picker[g]
    BY <1>1 DEF Persist
  <1>6. PICK r : r = [document[q.doc] EXCEPT !.link = f]
    BY Zenon
  <1>7. r \in DocumentRow /\ r.link = f /\ r # NoDocument /\ document' = [document EXCEPT ![q.doc] = r]
    BY <1>0, <1>1, <1>2, <1>3, <1>6 DEF Persist, DocumentRow, NoDocument, DocumentTypes
  <1>8. \A d \in Document : document'[d] = IF d = q.doc THEN r ELSE document[d]
    BY <1>0, <1>7 DEF DocumentTypes
  <1>9. \A x \in Editor : editor'[x] = IF x = e THEN Away ELSE IF editor[x].pc = "read" /\ editor[x].doc = q.doc
                                       THEN [editor[x] EXCEPT !.crossed = TRUE] ELSE editor[x]
    BY <1>1 DEF Persist
  <1>10. EditorStands(e)
    BY <1>0
  <1>11. q.link \in ExportFile => picker[q.link] \in ExportRow /\ picker[q.link].of = q.doc /\ q.link # f
    <2>1. q.link \in ExportFile => picker[q.link].of = q.doc
      BY <1>1, <1>2, <1>10 DEF EditorStands
    <2> QED BY <1>0, <1>2, <1>3, <2>1 DEF DocumentTypes, NoExport
  <1>12. \A g \in ExportFile : g # f => picker'[g].of = picker[g].of
                                       /\ (g # q.link => picker'[g] = picker[g])
                                       /\ (g = q.link => picker'[g].state = "superseded" /\ picker'[g] \in ExportRow)
    <2>1. \A g \in ExportFile : g # f /\ g # q.link => picker'[g] = picker[g]
      BY <1>5, Zenon
    <2>2. q.link \in ExportFile => /\ picker'[q.link] = [picker[q.link] EXCEPT !.state = "superseded"]
      BY <1>5, <1>11
    <2>3. q.link \in ExportFile => picker'[q.link].of = picker[q.link].of /\ picker'[q.link].state = "superseded"
                                   /\ picker'[q.link] \in ExportRow
      BY <1>11, <2>2 DEF ExportRow
    <2> QED BY <2>1, <2>3
  <1>13. picker'[f].state = "listed" /\ picker'[f].of = q.doc /\ picker'[f] \in ExportRow
    <2>1. picker'[f] = [state |-> "listed", of |-> q.doc]
      BY <1>5, Zenon
    <2> QED BY <1>2, <2>1 DEF ExportRow
  <1>14. PICK cross : cross = {x \in Editor : editor[x].pc = "read" /\ editor[x].doc = q.doc}
    BY Zenon
  <1>15. ASSUME NEW x \in Editor, x # e
         PROVE  IF x \in cross
                THEN editor[x] \in ReadingOf /\ editor'[x] \in ReadingOf /\ editor'[x].crossed /\ editor'[x].pc = "read"
                     /\ editor'[x].doc = editor[x].doc /\ editor'[x].link = editor[x].link /\ editor'[x].seen = editor[x].seen
                ELSE editor'[x] = editor[x]
    <2>1. CASE x \in cross
      <3>1. editor[x] \in ReadingOf /\ editor'[x] = [editor[x] EXCEPT !.crossed = TRUE]
        BY <1>0, <1>9, <1>14, <1>15, <2>1, EditorKinds
      <3> QED BY <1>14, <2>1, <3>1, Zenon DEF ReadingOf
    <2>2. CASE x \notin cross
      BY <1>9, <1>14, <1>15, <2>2, Zenon
    <2> QED BY <2>1, <2>2
  <1>16. DocumentTypes'
    <2>1. document' \in [Document -> {NoDocument} \cup DocumentRow]
      BY <1>0, <1>7, Zenon DEF DocumentTypes
    <2>2. picker' \in [ExportFile -> {NoExport} \cup ExportRow]
      <3>1. \A g \in ExportFile : picker'[g] \in {NoExport} \cup ExportRow
        BY <1>0, <1>12, <1>13 DEF DocumentTypes
      <3> QED BY <3>1 DEF Persist
    <2>3. editor' \in [Editor -> {Away} \cup Putting \cup Inserting \cup ReadingOf]
      <3>1. \A x \in Editor : editor'[x] \in {Away} \cup Putting \cup Inserting \cup ReadingOf
        BY <1>0, <1>9, <1>15, Zenon DEF DocumentTypes
      <3> QED BY <3>1 DEF Persist
    <2> QED BY <1>0, <1>4, <2>1, <2>2, <2>3 DEF DocumentTypes
  <1>17. SectionsStand'
    BY <1>0, <1>4 DEF SectionsStand, OneWrite
  <1>18. LinksStand'
    <2>1. ASSUME NEW d \in Document, document'[d].link \in ExportFile PROVE picker'[document'[d].link].of = d
      <3>1. CASE d = q.doc
        BY <1>7, <1>8, <1>13, <3>1
      <3>2. CASE d # q.doc
        <4>1. document'[d].link = document[d].link /\ picker[document[d].link].of = d
          BY <1>0, <1>8, <2>1, <3>2 DEF LinksStand
        <4>2. document[d].link # f
          BY <1>3, <2>1, <4>1
        <4> QED BY <1>12, <2>1, <4>1, <4>2
      <3> QED BY <3>1, <3>2
    <2> QED BY <2>1 DEF LinksStand
  <1>19. crossed \subseteq crossed' /\ (q.crossed => f \in crossed' /\ document[q.doc].link \in crossed')
         /\ (~q.crossed => q.link = document[q.doc].link)
    BY <1>1, <1>2, <1>10 DEF Persist, EditorStands
  <1>20. PickerFollowsTheDocuments'
    <2>1. ASSUME NEW g \in ExportFile \ crossed', picker'[g].state = "listed" PROVE document'[picker'[g].of].link = g
      <3>1. CASE g = f
        BY <1>2, <1>7, <1>8, <1>13, <3>1
      <3>2. CASE g # f
        <4>1. picker'[g] = picker[g] /\ g # q.link
          BY <1>12, <2>1, <3>2
        <4>2. g \in ExportFile \ crossed /\ document[picker[g].of].link = g /\ picker[g].of \in Document
          BY <1>0, <1>19, <2>1, <4>1 DEF PickerFollowsTheDocuments, DocumentTypes, NoExport, ExportRow
        <4>3. picker[g].of # q.doc
          BY <1>19, <2>1, <4>1, <4>2
        <4> QED BY <1>8, <4>1, <4>2, <4>3
      <3> QED BY <3>1, <3>2
    <2>2. ASSUME NEW d \in Document, document'[d].link \in ExportFile \ crossed'
          PROVE  picker'[document'[d].link].of = d /\ picker'[document'[d].link].state # "superseded"
      <3>1. CASE d = q.doc
        BY <1>7, <1>8, <1>13, <3>1
      <3>2. CASE d # q.doc
        <4>1. document'[d].link = document[d].link /\ document[d].link \in ExportFile \ crossed
          BY <1>8, <1>19, <2>2, <3>2
        <4>2. picker[document[d].link].of = d /\ picker[document[d].link].state # "superseded"
          BY <1>0, <4>1 DEF PickerFollowsTheDocuments
        <4>3. document[d].link # f /\ document[d].link # q.link
          BY <1>3, <1>11, <3>2, <4>1, <4>2
        <4> QED BY <1>12, <4>1, <4>2, <4>3
      <3> QED BY <3>1, <3>2
    <2> QED BY <2>1, <2>2 DEF PickerFollowsTheDocuments
  <1>21. ASSUME NEW x \in Editor PROVE EditorStands(x)'
    <2>1. CASE x = e
      <3>1. editor'[e] = Away
        BY <1>9, Zenon
      <3>2. Away.pc = "away"
        BY DEF Away
      <3> QED BY <2>1, <3>1, <3>2 DEF EditorStands
    <2>2. CASE x # e /\ x \in cross
      <3>1. EditorStands(x) /\ editor[x] \in ReadingOf /\ editor[x].doc = q.doc /\ editor[x].pc = "read"
        BY <1>0, <1>14, <1>15, <2>2
      <3>2. editor[x].link \in ExportFile => picker[editor[x].link].of = q.doc /\ editor[x].link # f
        BY <1>2, <1>3, <3>1 DEF EditorStands
      <3>3. editor'[x].link \in ExportFile => picker'[editor'[x].link].of = editor'[x].doc
        BY <1>12, <1>15, <2>2, <3>1, <3>2
      <3>4. \A s \in Section : OneWrite(editor[x].seen[s])'
        BY <1>4, <1>15, <2>2, <3>1 DEF EditorStands, OneWrite
      <3>5. editor'[x].pc = "read" /\ editor'[x].crossed /\ document'[editor'[x].doc] # NoDocument
        BY <1>2, <1>7, <1>8, <1>15, <2>2, <3>1
      <3> QED BY <3>3, <3>4, <3>5 DEF EditorStands, OneWrite
    <2>3. CASE x # e /\ x \notin cross
      <3>1. editor'[x] = editor[x] /\ EditorStands(x) /\ (editor[x] # Away => editor[x].doc \in Document)
        BY <1>0, <1>15, <2>3, EditorKinds
      <3>2. editor[x].pc = "insert" => Newer(x)' = Newer(x)
        BY <1>4, <3>1 DEF Newer
      <3>3. \A y \in Editor : editor'[y].pc = "insert" => editor'[y] = editor[y]
        <4>1. \A y \in Editor \ {e} : editor'[y].pc = "insert" => editor'[y] = editor[y]
          BY <1>15
        <4>2. editor'[e] = Away /\ Away.pc = "away"
          BY <1>9, Zenon DEF Away
        <4> QED BY <4>1, <4>2
      <3>4. editor'[x].pc = "read" =>
                 /\ editor[x].doc # q.doc /\ editor[x].doc \in Document
                 /\ editor[x].link \in ExportFile => picker[editor[x].link].of = editor[x].doc
                 /\ \A s \in Section : OneWrite(editor[x].seen[s])
                 /\ editor[x].crossed \/ editor[x].link = document[editor[x].doc].link
        BY <1>0, <1>14, <2>3, <3>1, EditorKinds DEF EditorStands, ReadingOf
      <3>5. editor'[x].pc = "read" => (editor[x].link \in ExportFile => picker'[editor[x].link].of = editor[x].doc)
        BY <1>3, <1>12, <3>4
      <3>6. editor'[x].pc = "read" =>
                 /\ \A t \in Section : OneWrite(editor[x].seen[t])'
                 /\ editor'[x].crossed \/ editor'[x].link = document'[editor'[x].doc].link
                 /\ editor'[x].link \in ExportFile => picker'[editor'[x].link].of = editor'[x].doc
        BY <1>4, <1>8, <3>1, <3>4, <3>5 DEF OneWrite
      <3>7. editor'[x] # Away => document'[editor'[x].doc] # NoDocument
        BY <1>7, <1>8, <3>1 DEF EditorStands
      <3>8. editor'[x].pc = "insert" =>
              /\ Newer(x)' # {} => editor'[x].put \in mixed' /\ Newer(x)' \subseteq mixed'
              /\ \A y \in Editor : editor'[y].pc = "insert" /\ editor'[y].doc = editor'[x].doc
                   /\ editor'[y].section = editor'[x].section /\ y # x => editor'[x].put \in mixed'
        BY <1>4, <3>1, <3>2, <3>3 DEF EditorStands
      <3> QED BY <3>6, <3>7, <3>8 DEF EditorStands, OneWrite
    <2> QED BY <2>1, <2>2, <2>3
  <1> QED BY <1>16, <1>17, <1>18, <1>20, <1>21 DEF DocumentInv

LEMMA DeleteExportKeeps == ASSUME DocumentInv, NEW f \in ExportFile, DeleteExport(f) PROVE DocumentInv'
  <1>0. DocumentTypes /\ SectionsStand /\ LinksStand /\ (\A x \in Editor : EditorStands(x)) /\ PickerFollowsTheDocuments
    BY DEF DocumentInv
  <1>1. picker[f] \in ExportRow
    BY <1>0 DEF DeleteExport, DocumentTypes, NoExport
  <1>2. PICK r : r = [picker[f] EXCEPT !.state = "deleted"]
    BY Zenon
  <1>3. r \in ExportRow /\ r.of = picker[f].of /\ r.state = "deleted" /\ picker' = [picker EXCEPT ![f] = r]
    BY <1>0, <1>1, <1>2 DEF ExportRow, DeleteExport, DocumentTypes
  <1>4. UNCHANGED <<document, section, editor, puts, mixed, crossed>>
    BY DEF DeleteExport
  <1>5. \A g \in ExportFile : /\ picker'[g].of = picker[g].of
                              /\ picker'[g].state = "listed" => picker'[g] = picker[g]
                              /\ picker'[g].state = "superseded" => picker[g].state = "superseded"
    BY <1>0, <1>3 DEF DocumentTypes
  <1>6. DocumentTypes'
    BY <1>0, <1>3, <1>4 DEF DocumentTypes
  <1>7. SectionsStand' /\ LinksStand'
    BY <1>0, <1>4, <1>5 DEF SectionsStand, LinksStand, OneWrite
  <1>8. PickerFollowsTheDocuments'
    BY <1>0, <1>4, <1>5 DEF PickerFollowsTheDocuments
  <1>9. ASSUME NEW x \in Editor PROVE EditorStands(x)'
    <2>1. EditorStands(x) /\ Newer(x)' = Newer(x)
      BY <1>0, <1>4 DEF Newer
    <2> QED BY <1>4, <1>5, <2>1 DEF EditorStands, OneWrite
  <1> QED BY <1>6, <1>7, <1>8, <1>9 DEF DocumentInv

LEMMA DocumentStep == DocumentInv /\ (DocumentsNext \/ UNCHANGED documentVars) => DocumentInv'
  <1>1. DocumentInv /\ UNCHANGED documentVars => DocumentInv'
    BY DEF DocumentInv, documentVars, DocumentTypes, SectionsStand, LinksStand, EditorStands, PickerFollowsTheDocuments,
           OneWrite, Newer
  <1>2. ASSUME DocumentInv, DocumentsNext PROVE DocumentInv'
    BY <1>2, NewDocumentKeeps, BeginKeeps, ReadSectionKeeps, TakeOldKeeps, InsertNewKeeps, DuplicateKeeps, PersistKeeps,
       DeleteExportKeeps DEF DocumentsNext
  <1> QED BY <1>1, <1>2

LEMMA DocumentSound == DocumentInv => SectionsAreWhole /\ PickerFollowsTheDocuments
  <1> SUFFICES ASSUME DocumentInv PROVE SectionsAreWhole
    BY DEF DocumentInv
  <1>1. ASSUME NEW d \in Document, NEW s \in Section, Cardinality(section[d][s]) > 1 PROVE section[d][s] \subseteq mixed
    <2>1. PICK rows : rows = section[d][s]
      OBVIOUS
    <2>2. rows \subseteq mixed \/ \A x \in rows, y \in rows : x = y
      BY <2>1 DEF DocumentInv, SectionsStand, OneWrite
    <2>3. CASE \A x \in rows, y \in rows : x = y
      <3>1. Cardinality(rows) <= 1 /\ Cardinality(rows) \in Nat
        BY <2>3, AtMostOne
      <3> QED BY <1>1, <2>1, <3>1
    <2> QED BY <2>1, <2>2, <2>3
  <1> QED BY <1>1 DEF SectionsAreWhole

-----------------------------------------------------------------------------
(* The bell. *)

TitleSet == DOMAIN NOTIFICATION_TITLES
NoticeRow == [of : Nat \X (TitleSet \cup {"message"}), to : Applicant \cup Recruiter, row : Row, title : TitleSet \cup {"message"}]
EventRow ==
  [of : Nat \X (TitleSet \cup {"message"}), row : Row, actor : {"CANDIDATE", "EMPLOYER", "SYSTEM"},
   by : Applicant \cup Recruiter \cup {NoUser}, title : TitleSet \cup {"message"}, named : BOOLEAN]
OpenDeal ==
  [pc : {"write", "swap", "tell", "commit"}, id : 1 .. deals, row : Row, actor : {"CANDIDATE", "EMPLOYER", "SYSTEM"},
   by : Applicant \cup Recruiter \cup {NoUser}, from : DOMAIN TRANSITIONS_OfApplications, to : TitleSet \cup {"none"},
   notices : SUBSET NoticeRow, events : SUBSET EventRow]
BellTypes ==
  /\ deals \in Nat /\ deal \in [Deal -> {NoDeal} \cup OpenDeal]
  /\ stage \in [Row -> DOMAIN TRANSITIONS_OfApplications]
  /\ bell \subseteq NoticeRow /\ happened \subseteq EventRow
  /\ poster \in [Vacancy -> Recruiter \cup {NoUser}] /\ \A v \in Vacancy : poster[v] \in {NoUser, RecruiterOf[v]}

\* A notice is of its event.
DealNotice(n, h) ==
  /\ h.of = n.of /\ h.row = n.row /\ n.to # h.by
  /\ n.to = IF h.actor = "CANDIDATE" THEN RecruiterOf[h.row[2]] ELSE h.row[1]
  /\ n.title # "message" => NOTIFICATION_TITLES[n.title] = IF n.to \in Recruiter THEN "employer" ELSE "candidate"
\* What a transaction, or the feed, holds of notices and of events pairs up.
PairUp(notices, events) ==
  /\ \A n \in notices : \E h \in events : DealNotice(n, h)
  /\ \A h \in events : (h.actor = "CANDIDATE" => h.named) => \E n \in notices : n.of = h.of
  /\ \A n, o \in notices : n.of = o.of => n = o
\* A transaction notes what it writes under its own number; its move is noted last.
DealStands(d) ==
  /\ d.by = ActorUser(d.actor, d.row)
  /\ d.to # "none" => NOTIFICATION_TITLES[d.to] = IF d.actor = "CANDIDATE" THEN "employer" ELSE "candidate"
  /\ d.pc \in {"swap", "tell"} => d.to # "none"
  /\ d.pc = "write" => d.notices = {} /\ d.events = {}
  /\ \A n \in d.notices : n.of[1] = d.id /\ (d.pc # "commit" => n.of[2] = "message")
  /\ PairUp(d.notices, d.events)
DealsApart ==
  /\ \A t, u \in Deal : t # u /\ deal[t] # NoDeal /\ deal[u] # NoDeal => deal[t].id # deal[u].id
  /\ \A n \in bell : n.of[1] <= deals /\ \A t \in Deal : deal[t] # NoDeal => deal[t].id # n.of[1]
BellInv ==
  /\ BellTypes /\ (\A t \in Deal : deal[t] # NoDeal => DealStands(deal[t])) /\ DealsApart
  /\ PairUp(bell, happened) /\ seen = ownRead

LEMMA UserKinds == /\ \A f \in Row : f[1] \in Applicant /\ f[2] \in Vacancy /\ RecruiterOf[f[2]] \in Recruiter
                   /\ NoUser \notin Applicant \cup Recruiter /\ Applicant \cap Recruiter = {}
  BY DeskAssumption DEF Row, NoUser

LEMMA BellSound == BellInv => BellIsTrue
  BY DEF BellInv, BellIsTrue, PairUp, DealNotice

LEMMA BellStart == BellInit => BellInv
  <1> SUFFICES ASSUME BellInit PROVE BellInv
    OBVIOUS
  <1>1. BellTypes
    BY DEF BellInit, BellTypes, TRANSITIONS_OfApplications
  <1> QED BY <1>1 DEF BellInit, BellInv, PairUp, DealsApart

\* What was read in a transaction stands if another one's number is not taken.
LEMMA OneDealMoves ==
  ASSUME BellInv, NEW t \in Deal, NEW d, deal' = [deal EXCEPT ![t] = d], d = NoDeal \/ (d \in OpenDeal' /\ DealStands(d)),
         deals' \in Nat, deals' >= deals,
         d # NoDeal => \/ deal[t] # NoDeal /\ d.id = deal[t].id
                       \/ d.id > deals,
         UNCHANGED <<bell, happened, poster, seen, ownRead>>,
         stage' \in [Row -> DOMAIN TRANSITIONS_OfApplications]
  PROVE  BellInv'
  <1>1. \A u \in Deal : deal'[u] = IF u = t THEN d ELSE deal[u]
    BY DEF BellInv, BellTypes
  <1>2. OpenDeal \subseteq OpenDeal' /\ \A u \in Deal : deal[u] # NoDeal => deal[u].id \in Nat /\ deal[u].id <= deals
    BY DEF OpenDeal, BellInv, BellTypes
  <1>3. BellTypes'
    BY <1>2 DEF BellInv, BellTypes
  <1>4. \A u \in Deal : deal'[u] # NoDeal => DealStands(deal'[u])
    BY <1>1 DEF BellInv
  <1>5. \A x, y \in Deal : x # y /\ deal'[x] # NoDeal /\ deal'[y] # NoDeal => deal'[x].id # deal'[y].id
    BY <1>1, <1>2 DEF BellInv, BellTypes, DealsApart, OpenDeal
  <1>6. ASSUME NEW n \in bell PROVE n.of[1] <= deals' /\ \A x \in Deal : deal'[x] # NoDeal => deal'[x].id # n.of[1]
    <2>1. n.of[1] \in Nat /\ n.of[1] <= deals /\ \A x \in Deal : deal[x] # NoDeal => deal[x].id # n.of[1]
      BY DEF BellInv, BellTypes, NoticeRow, DealsApart
    <2>2. deals \in Nat /\ (d # NoDeal => d.id \in Nat)
      BY DEF BellInv, BellTypes, OpenDeal
    <2> QED BY <1>1, <2>1, <2>2
  <1>7. DealsApart'
    BY <1>5, <1>6 DEF DealsApart
  <1>8. (\A u \in Deal : deal[u] # NoDeal => DealStands(deal[u]))'
    BY <1>4 DEF DealStands, PairUp, DealNotice
  <1> QED BY <1>3, <1>7, <1>8 DEF BellInv, PairUp, DealNotice

LEMMA BeginDealKeeps ==
  ASSUME BellInv, NEW t \in Deal, NEW f \in Row, NEW actor \in {"CANDIDATE", "EMPLOYER", "SYSTEM"},
         NEW to \in TitleSet \cup {"none"}, NEW pc \in {"write", "swap"}, BeginDeal(t, f, actor, to, pc),
         to # "none" => NOTIFICATION_TITLES[to] = IF actor = "CANDIDATE" THEN "employer" ELSE "candidate",
         pc = "swap" => to # "none"
  PROVE  BellInv'
  <1>1. PICK d : d = [pc |-> pc, id |-> deals + 1, row |-> f, actor |-> actor, by |-> ActorUser(actor, f), from |-> stage[f],
                      to |-> to, notices |-> {}, events |-> {}]
    BY Zenon
  <1>2. deals \in Nat /\ stage[f] \in DOMAIN TRANSITIONS_OfApplications /\ deals' = deals + 1
    BY DEF BellInv, BellTypes, BeginDeal
  <1>3. ActorUser(actor, f) \in Applicant \cup Recruiter \cup {NoUser}
    BY UserKinds DEF ActorUser
  <1>4. d \in OpenDeal'
    BY <1>1, <1>2, <1>3 DEF OpenDeal
  <1>5. DealStands(d)
    BY <1>1 DEF DealStands, PairUp
  <1>6. deal' = [deal EXCEPT ![t] = d] /\ stage' = stage /\ UNCHANGED <<bell, happened, poster, seen, ownRead>>
    BY <1>1 DEF BeginDeal
  <1>7. d.id > deals /\ deals' >= deals /\ deals' \in Nat
    BY <1>1, <1>2
  <1>8. stage' \in [Row -> DOMAIN TRANSITIONS_OfApplications]
    BY <1>6 DEF BellInv, BellTypes
  <1> QED BY <1>4, <1>5, <1>6, <1>7, <1>8, OneDealMoves, Zenon

LEMMA MovesAreWorded ==
  ASSUME NEW actor \in {"CANDIDATE", "EMPLOYER", "SYSTEM"}, NEW to \in TitleSet, to \in SETTABLE_BY_ACTOR[actor]
  PROVE  NOTIFICATION_TITLES[to] = IF actor = "CANDIDATE" THEN "employer" ELSE "candidate"
  <1>1. CASE actor = "CANDIDATE"
    BY <1>1 DEF SETTABLE_BY_ACTOR, NOTIFICATION_TITLES
  <1>2. CASE actor = "EMPLOYER"
    BY <1>2 DEF SETTABLE_BY_ACTOR, NOTIFICATION_TITLES
  <1>3. CASE actor = "SYSTEM"
    BY <1>3 DEF SETTABLE_BY_ACTOR, NOTIFICATION_TITLES
  <1> QED BY <1>1, <1>2, <1>3

LEMMA BeginMoveKeeps ==
  ASSUME BellInv, NEW t \in Deal, NEW f \in Row, NEW actor \in {"CANDIDATE", "EMPLOYER", "SYSTEM"}, NEW to \in TitleSet,
         BeginMove(t, f, actor, to)
  PROVE  BellInv'
  <1>1. to # "none"
    BY DEF TitleSet, NOTIFICATION_TITLES
  <1> QED BY <1>1, MovesAreWorded, BeginDealKeeps DEF BeginMove

LEMMA DealNotesKeep ==
  ASSUME BellInv, NEW t \in Deal, NEW f \in Row, NEW actor \in {"CANDIDATE", "EMPLOYER"}, PostMessage(t, f, actor)
  PROVE  BellInv'
  <1>1. PICK to : to = IF actor = "CANDIDATE" /\ stage[f] = "OFFER" THEN "NEGOTIATING" ELSE "none"
    OBVIOUS
  <1>2. to \in TitleSet \cup {"none"} /\ (to # "none" => actor = "CANDIDATE" /\ NOTIFICATION_TITLES[to] = "employer")
    BY <1>1 DEF TitleSet, NOTIFICATION_TITLES
  <1>3. BeginDeal(t, f, actor, to, "write")
    BY <1>1 DEF PostMessage
  <1> QED BY <1>2, <1>3, BeginDealKeeps

\* What is noted of one event: its notice, unless it is to nobody.
LEMMA NotedInPairs ==
  ASSUME BellInv, NEW t \in Deal, deal[t] # NoDeal, NEW title \in TitleSet \cup {"message"}, NEW to,
         title # "message" => title = deal[t].to,
         to = (IF deal[t].actor = "CANDIDATE" THEN poster[deal[t].row[2]] ELSE deal[t].row[1])
  PROVE  /\ Event(deal[t], title) \in EventRow /\ Notice(deal[t], to, title) \subseteq NoticeRow
         /\ PairUp(Notice(deal[t], to, title), {Event(deal[t], title)})
         /\ \A n \in Notice(deal[t], to, title) : n.of = <<deal[t].id, title>>
  <1>1. PICK d : d = deal[t]
    OBVIOUS
  <1>2. d \in OpenDeal /\ DealStands(d) /\ d.row \in Row /\ d.id \in Nat /\ deals \in Nat
    BY <1>1 DEF BellInv, BellTypes, OpenDeal
  <1>3. PICK h : h = Event(d, title)
    OBVIOUS
  <1>4. h.of = <<d.id, title>> /\ h.row = d.row /\ h.actor = d.actor /\ h.by = d.by /\ h.named = (poster[d.row[2]] # NoUser)
    BY <1>3 DEF Event
  <1>5. h \in EventRow
    BY <1>2, <1>3 DEF Event, EventRow, OpenDeal
  <1>6. /\ d.row[1] \in Applicant /\ d.row[2] \in Vacancy /\ RecruiterOf[d.row[2]] \in Recruiter
        /\ poster[d.row[2]] \in {NoUser, RecruiterOf[d.row[2]]}
    BY <1>2, UserKinds DEF BellInv, BellTypes
  <1>7. PICK n : n = [of |-> <<d.id, title>>, to |-> to, row |-> d.row, title |-> title]
    BY Zenon
  <1>8. Notice(d, to, title) = IF to \in {NoUser, d.by} THEN {} ELSE {n}
    BY <1>7 DEF Notice
  <1>9. to \notin {NoUser, d.by} => n \in NoticeRow /\ DealNotice(n, h)
    <2> SUFFICES ASSUME to \notin {NoUser, d.by} PROVE n \in NoticeRow /\ DealNotice(n, h)
      OBVIOUS
    <2>1. to = (IF d.actor = "CANDIDATE" THEN RecruiterOf[d.row[2]] ELSE d.row[1])
      BY <1>1, <1>6
    <2>2. n \in NoticeRow
      BY <1>2, <1>6, <1>7, <2>1 DEF NoticeRow, OpenDeal
    <2>3. n.to = to /\ n.of = h.of /\ n.row = h.row /\ n.to # h.by /\ n.title = title
      BY <1>4, <1>7
    <2>4. title # "message" => NOTIFICATION_TITLES[title] = IF d.actor = "CANDIDATE" THEN "employer" ELSE "candidate"
      <3>1. title # "message" => title = d.to /\ d.to # "none"
        BY <1>1 DEF TitleSet, NOTIFICATION_TITLES
      <3> QED BY <1>2, <3>1 DEF DealStands
    <2>5. to \in Recruiter <=> d.actor = "CANDIDATE"
      BY <1>6, <2>1, UserKinds
    <2> QED BY <1>4, <2>1, <2>2, <2>3, <2>4, <2>5 DEF DealNotice
  <1>10. (h.actor = "CANDIDATE" => h.named) => to \notin {NoUser, d.by}
    <2>1. d.by = ActorUser(d.actor, d.row)
      BY <1>2 DEF DealStands
    <2>2. CASE d.actor = "CANDIDATE"
      BY <1>1, <1>4, <1>6, <2>1, <2>2, UserKinds, Zenon DEF ActorUser
    <2>3. CASE d.actor # "CANDIDATE"
      BY <1>1, <1>6, <2>1, <2>3, UserKinds DEF ActorUser
    <2> QED BY <2>2, <2>3
  <1>11. PairUp(Notice(d, to, title), {h})
    BY <1>4, <1>7, <1>8, <1>9, <1>10 DEF PairUp
  <1> QED BY <1>1, <1>3, <1>5, <1>7, <1>8, <1>9, <1>11

\* Pairs under different numbers or titles stay pairs together.
LEMMA PairsJoin ==
  ASSUME NEW A, NEW B, NEW G, NEW H, PairUp(A, G), PairUp(B, H), \A n \in A, o \in B : n.of # o.of
  PROVE  PairUp(A \cup B, G \cup H)
  BY DEF PairUp

LEMMA MessageKeeps == ASSUME BellInv, NEW t \in Deal, NotifyOfMessage(t) PROVE BellInv'
  <1>1. PICK d : d = deal[t]
    OBVIOUS
  <1>2. d # NoDeal /\ d \in OpenDeal /\ DealStands(d) /\ d.pc = "write" /\ deals \in Nat
    BY <1>1 DEF BellInv, BellTypes, NotifyOfMessage, NoDeal
  <1>3. PICK to : to = IF d.actor = "CANDIDATE" THEN poster[d.row[2]] ELSE d.row[1]
    OBVIOUS
  <1>4. PICK new : new = Notice(d, to, "message")
    OBVIOUS
  <1>5. PICK h : h = Event(d, "message")
    OBVIOUS
  <1>6. h \in EventRow /\ new \subseteq NoticeRow /\ PairUp(new, {h}) /\ \A n \in new : n.of = <<d.id, "message">>
    BY <1>1, <1>2, <1>3, <1>4, <1>5, NotedInPairs
  <1>7. PICK next : next \in {"commit", "swap"} /\ next = IF d.to = "none" THEN "commit" ELSE "swap"
    OBVIOUS
  <1>8. PICK x : x = [d EXCEPT !.pc = next, !.notices = new, !.events = {h}]
    OBVIOUS
  <1>9. deal' = [deal EXCEPT ![t] = x] /\ UNCHANGED <<poster, stage, deals, bell, seen, happened, ownRead>>
    BY <1>1, <1>3, <1>4, <1>5, <1>7, <1>8 DEF NotifyOfMessage
  <1>10. /\ x \in OpenDeal /\ x.pc = next /\ x.notices = new /\ x.events = {h} /\ x.id = d.id /\ x.by = d.by /\ x.to = d.to
         /\ x.actor = d.actor /\ x.row = d.row
    BY <1>2, <1>6, <1>7, <1>8, Zenon DEF OpenDeal
  <1>11. x # NoDeal
    BY <1>7, <1>10 DEF NoDeal
  <1>12. DealStands(x)
    BY <1>2, <1>6, <1>7, <1>10 DEF DealStands
  <1>13. x \in OpenDeal' /\ stage' \in [Row -> DOMAIN TRANSITIONS_OfApplications] /\ deals' \in Nat /\ deals' >= deals
    BY <1>2, <1>9, <1>10 DEF OpenDeal, BellInv, BellTypes
  <1> QED BY <1>1, <1>2, <1>9, <1>10, <1>11, <1>12, <1>13, OneDealMoves, Zenon

LEMMA SwapKeeps == ASSUME BellInv, NEW t \in Deal, SwapStatus(t) \/ RollBackDeal(t) PROVE BellInv'
  <1>1. PICK d : d = deal[t]
    OBVIOUS
  <1>2. d # NoDeal /\ d \in OpenDeal /\ DealStands(d) /\ deals \in Nat
    BY <1>1 DEF BellInv, BellTypes, SwapStatus, RollBackDeal, NoDeal
  <1>3. UNCHANGED <<poster, stage, deals, bell, seen, happened, ownRead>>
    BY DEF SwapStatus, RollBackDeal
  <1>4. stage' \in [Row -> DOMAIN TRANSITIONS_OfApplications] /\ deals' \in Nat /\ deals' >= deals
    BY <1>2, <1>3 DEF BellInv, BellTypes
  <1>5. CASE deal' = [deal EXCEPT ![t] = NoDeal]
    BY <1>3, <1>4, <1>5, OneDealMoves, Zenon
  <1>6. CASE SwapStatus(t) /\ stage[d.row] = d.from
    <2>1. PICK x : x = [d EXCEPT !.pc = "tell"]
      BY Zenon
    <2>2. deal' = [deal EXCEPT ![t] = x] /\ d.pc = "swap"
      BY <1>1, <1>6, <2>1 DEF SwapStatus
    <2>3. /\ x \in OpenDeal /\ x.pc = "tell" /\ x.notices = d.notices /\ x.events = d.events /\ x.id = d.id /\ x.by = d.by
          /\ x.to = d.to /\ x.actor = d.actor /\ x.row = d.row
      BY <1>2, <2>1 DEF OpenDeal
    <2>4. DealStands(x)
      BY <1>2, <2>2, <2>3 DEF DealStands
    <2>5. x \in OpenDeal'
      BY <1>3, <2>3 DEF OpenDeal
    <2> QED BY <1>1, <1>2, <1>3, <1>4, <2>2, <2>3, <2>4, <2>5, OneDealMoves, Zenon
  <1> QED BY <1>1, <1>5, <1>6 DEF SwapStatus, RollBackDeal

LEMMA NotifyKeeps == ASSUME BellInv, NEW t \in Deal, NotifyCounterparty(t) PROVE BellInv'
  <1>1. PICK d : d = deal[t]
    OBVIOUS
  <1>2. d # NoDeal /\ d \in OpenDeal /\ DealStands(d) /\ d.pc = "tell" /\ deals \in Nat
    BY <1>1 DEF BellInv, BellTypes, NotifyCounterparty, NoDeal
  <1>3. d.to \in TitleSet /\ d.to # "message"
    BY <1>2 DEF DealStands, OpenDeal, TitleSet, NOTIFICATION_TITLES
  <1>4. PICK to : to = IF d.actor = "CANDIDATE" THEN poster[d.row[2]] ELSE d.row[1]
    OBVIOUS
  <1>5. PICK new : new = Notice(d, to, d.to)
    OBVIOUS
  <1>6. PICK h : h = Event(d, d.to)
    OBVIOUS
  <1>7. h \in EventRow /\ new \subseteq NoticeRow /\ PairUp(new, {h}) /\ \A n \in new : n.of = <<d.id, d.to>>
    BY <1>1, <1>2, <1>3, <1>4, <1>5, <1>6, NotedInPairs
  <1>8. PICK x : x = [d EXCEPT !.pc = "commit", !.events = d.events \cup {h}, !.notices = d.notices \cup new]
    OBVIOUS
  <1>9. deal' = [deal EXCEPT ![t] = x] /\ UNCHANGED <<poster, stage, deals, bell, seen, happened, ownRead>>
    BY <1>1, <1>4, <1>5, <1>6, <1>8 DEF NotifyCounterparty, Recipient
  <1>10. /\ x \in OpenDeal /\ x.pc = "commit" /\ x.notices = d.notices \cup new /\ x.events = d.events \cup {h} /\ x.id = d.id
         /\ x.by = d.by /\ x.to = d.to /\ x.actor = d.actor /\ x.row = d.row
    BY <1>2, <1>7, <1>8, Zenon DEF OpenDeal
  <1>11. \A n \in d.notices, o \in new : n.of # o.of
    BY <1>2, <1>3, <1>7 DEF DealStands
  <1>12. PairUp(x.notices, x.events)
    BY <1>2, <1>7, <1>10, <1>11, PairsJoin DEF DealStands
  <1>13. DealStands(x)
    BY <1>2, <1>7, <1>10, <1>12 DEF DealStands
  <1>14. x \in OpenDeal' /\ stage' \in [Row -> DOMAIN TRANSITIONS_OfApplications] /\ deals' \in Nat /\ deals' >= deals
    BY <1>2, <1>9, <1>10 DEF OpenDeal, BellInv, BellTypes
  <1> QED BY <1>1, <1>2, <1>9, <1>10, <1>13, <1>14, OneDealMoves, Zenon

LEMMA CommitDealKeeps == ASSUME BellInv, NEW t \in Deal, CommitDeal(t) PROVE BellInv'
  <1>1. PICK d : d = deal[t]
    OBVIOUS
  <1>2. d # NoDeal /\ d \in OpenDeal /\ DealStands(d) /\ deals \in Nat
    BY <1>1 DEF BellInv, BellTypes, CommitDeal, NoDeal
  <1>3. /\ deal' = [deal EXCEPT ![t] = NoDeal] /\ UNCHANGED <<poster, deals, seen, ownRead>>
        /\ bell' = bell \cup d.notices /\ happened' = happened \cup d.events
    BY <1>1 DEF CommitDeal
  <1>4. \A u \in Deal : deal'[u] = IF u = t THEN NoDeal ELSE deal[u]
    BY <1>3 DEF BellInv, BellTypes
  <1>5. stage' \in [Row -> DOMAIN TRANSITIONS_OfApplications]
    <2>1. d.to # "none" => d.to \in DOMAIN TRANSITIONS_OfApplications
      BY <1>2 DEF OpenDeal, TitleSet, NOTIFICATION_TITLES, TRANSITIONS_OfApplications
    <2>2. stage \in [Row -> DOMAIN TRANSITIONS_OfApplications]
      BY DEF BellInv, BellTypes
    <2>3. PICK all : all = DOMAIN TRANSITIONS_OfApplications
      OBVIOUS
    <2>4. stage' = (IF d.to = "none" THEN stage ELSE [stage EXCEPT ![d.row] = d.to])
      BY <1>1 DEF CommitDeal
    <2>5. stage' \in [Row -> all]
      BY <2>1, <2>2, <2>3, <2>4, Zenon
    <2> QED BY <2>3, <2>5
  <1>6. BellTypes'
    <2>1. OpenDeal' = OpenDeal
      BY <1>3 DEF OpenDeal
    <2>2. deal' \in [Deal -> {NoDeal} \cup OpenDeal]
      BY <1>3 DEF BellInv, BellTypes
    <2>3. bell' \subseteq NoticeRow /\ happened' \subseteq EventRow
      BY <1>2, <1>3 DEF BellInv, BellTypes, OpenDeal
    <2> QED BY <1>3, <1>5, <2>1, <2>2, <2>3 DEF BellInv, BellTypes
  <1>7. \A n \in d.notices : n.of[1] = d.id /\ d.id \in 1 .. deals
    BY <1>2 DEF DealStands, OpenDeal
  <1>8. \A n \in bell, o \in d.notices : n.of # o.of
    BY <1>1, <1>2, <1>7 DEF BellInv, DealsApart
  <1>9. PairUp(bell', happened')
    BY <1>2, <1>3, <1>8, PairsJoin DEF BellInv, DealStands
  <1>10. DealsApart'
    <2>1. \A x, y \in Deal : x # y /\ deal'[x] # NoDeal /\ deal'[y] # NoDeal => deal'[x].id # deal'[y].id
      BY <1>4 DEF BellInv, DealsApart
    <2>2. ASSUME NEW n \in bell' PROVE n.of[1] <= deals' /\ \A x \in Deal : deal'[x] # NoDeal => deal'[x].id # n.of[1]
      <3>1. CASE n \in bell
        BY <1>3, <1>4, <3>1 DEF BellInv, DealsApart
      <3>2. CASE n \in d.notices
        <4>1. n.of[1] = d.id /\ d.id <= deals
          BY <1>2, <1>7, <3>2
        <4> QED BY <1>1, <1>2, <1>3, <1>4, <4>1 DEF BellInv, DealsApart
      <3> QED BY <1>3, <3>1, <3>2
    <2> QED BY <2>1, <2>2 DEF DealsApart
  <1>11. (\A u \in Deal : deal[u] # NoDeal => DealStands(deal[u]))'
    BY <1>4 DEF BellInv, DealStands, PairUp, DealNotice
  <1>12. (seen = ownRead)'
    BY <1>3 DEF BellInv
  <1> QED BY <1>6, <1>9, <1>10, <1>11, <1>12 DEF BellInv, PairUp, DealNotice

LEMMA PosterKeeps == ASSUME BellInv, NEW v \in Vacancy, SetPostedBy(v) PROVE BellInv'
  <1>1. UNCHANGED <<stage, deal, deals, bell, seen, happened, ownRead>> /\ poster' = [poster EXCEPT ![v] = RecruiterOf[v]]
    BY DEF SetPostedBy
  <1>2. RecruiterOf[v] \in Recruiter
    BY DeskAssumption
  <1>3. BellTypes'
    BY <1>1, <1>2 DEF BellInv, BellTypes, OpenDeal
  <1> QED BY <1>1, <1>3 DEF BellInv, DealsApart, DealStands, PairUp, DealNotice

LEMMA ReadBellKeeps ==
  ASSUME BellInv, NEW u, MarkAllRead(u) \/ \E n \in bell : MarkRead(u, n) PROVE BellInv'
  <1>1. UNCHANGED <<poster, stage, deal, deals, bell, happened>>
    BY DEF MarkAllRead, MarkRead
  <1>2. seen' = ownRead'
    BY DEF MarkAllRead, MarkRead, BellInv
  <1>3. BellTypes'
    BY <1>1 DEF BellInv, BellTypes, OpenDeal
  <1> QED BY <1>1, <1>2, <1>3 DEF BellInv, DealsApart, DealStands, PairUp, DealNotice

LEMMA BellStep == BellInv /\ (BellNext \/ UNCHANGED bellVars) => BellInv'
  <1>1. ASSUME BellInv, UNCHANGED bellVars PROVE BellInv'
    <2>1. UNCHANGED <<poster, stage, deal, deals, bell, seen, happened, ownRead>>
      BY <1>1 DEF bellVars
    <2>2. BellTypes'
      BY <1>1, <2>1 DEF BellInv, BellTypes, OpenDeal
    <2> QED BY <1>1, <2>1, <2>2 DEF BellInv, DealsApart, DealStands, PairUp, DealNotice
  <1>2. ASSUME BellInv, BellNext PROVE BellInv'
    <2>1. DOMAIN SETTABLE_BY_ACTOR = {"CANDIDATE", "EMPLOYER", "SYSTEM"}
      BY DEF SETTABLE_BY_ACTOR
    <2> QED BY <1>2, <2>1, PosterKeeps, ReadBellKeeps, MessageKeeps, SwapKeeps, NotifyKeeps, CommitDealKeeps, DealNotesKeep,
               BeginMoveKeeps DEF BellNext, TitleSet
  <1> QED BY <1>1, <1>2

-----------------------------------------------------------------------------
(* The limits. *)

AtMostEach(U, I, f, n) ==
  IsFiniteSet(U) /\ IsFiniteSet(I) /\ n \in Nat /\ f \in [U -> I] /\ \A i \in I : Cardinality({x \in U : f[x] = i}) <= n

\* What is dealt out to so many places, so much to each at the most, is bounded by the product.
LEMMA Dealt ==
  ASSUME NEW U, NEW I, NEW f, NEW n, AtMostEach(U, I, f, n)
  PROVE  Cardinality(U) <= n * Cardinality(I) /\ Cardinality(I) \in Nat
  <1> USE DEF AtMostEach
  <1> DEFINE DealtTo(i) == {x \in U : f[x] = i}
  <1>1. ASSUME NEW i \in I PROVE \E h \in [DealtTo(i) -> 1 .. n] : \A x, y \in DealtTo(i) : h[x] = h[y] => x = y
    <2>0. PICK V : V = DealtTo(i)
      BY Zenon
    <2>1. IsFiniteSet(V) /\ Cardinality(V) <= n
      BY <2>0, FS_Subset
    <2>2. PICK k \in Nat : k = Cardinality(V) /\ ExistsBijection(1 .. k, V)
      BY <2>1, FS_CardinalityType
    <2>3. PICK b \in Bijection(1 .. k, V) : TRUE
      BY <2>2 DEF ExistsBijection
    <2>4. \A x \in V : \E j \in 1 .. k : b[j] = x
      BY <2>3 DEF Bijection, Surjection
    <2>5. PICK h : h = [x \in V |-> CHOOSE j \in 1 .. k : b[j] = x]
      BY Zenon
    <2>6. \A x \in V : h[x] \in 1 .. k /\ b[h[x]] = x
      BY <2>4, <2>5
    <2>7. h \in [V -> 1 .. n]
      <3>1. 1 .. k \subseteq 1 .. n
        BY <2>1, <2>2
      <3> QED BY <3>1, <2>5, <2>6
    <2>8. \A x, y \in V : h[x] = h[y] => x = y
      BY <2>6
    <2> QED BY <2>0, <2>7, <2>8, Zenon
  <1> DEFINE H(i) == CHOOSE h \in [DealtTo(i) -> 1 .. n] : \A x, y \in DealtTo(i) : h[x] = h[y] => x = y
  <1>2. \A i \in I : H(i) \in [DealtTo(i) -> 1 .. n] /\ \A x, y \in DealtTo(i) : H(i)[x] = H(i)[y] => x = y
    BY <1>1, Zenon
  <1> HIDE DEF H
  <1>3. PICK g : g = [x \in U |-> <<f[x], H(f[x])[x]>>]
    BY Zenon
  <1>4. \A x \in U : x \in DealtTo(f[x]) /\ f[x] \in I
    OBVIOUS
  <1>5. g \in [U -> I \X (1 .. n)]
    <2>1. \A x \in U : H(f[x])[x] \in 1 .. n
      BY <1>2, <1>4, Zenon
    <2> QED BY <1>3, <1>4, <2>1
  <1>6. ASSUME NEW x \in U, NEW y \in U, g[x] = g[y] PROVE x = y
    <2>1. f[x] = f[y] /\ H(f[x])[x] = H(f[y])[y]
      BY <1>3, <1>6
    <2>2. x \in DealtTo(f[x]) /\ y \in DealtTo(f[x]) /\ H(f[x])[x] = H(f[x])[y]
      BY <2>1, <1>4
    <2> QED BY <1>2, <1>4, <2>2, Zenon
  <1>7. g \in Injection(U, I \X (1 .. n))
    BY <1>5, <1>6 DEF Injection, IsInjective
  <1>8. IsFiniteSet(1 .. n) /\ Cardinality(1 .. n) = n
    BY FS_Interval
  <1>9. IsFiniteSet(I \X (1 .. n)) /\ Cardinality(I \X (1 .. n)) = Cardinality(I) * n
    BY <1>8, FS_Product, Zenon
  <1>10. Cardinality(U) <= Cardinality(I \X (1 .. n))
    BY <1>7, <1>9, FS_Injection
  <1>11. Cardinality(I) \in Nat
    BY FS_CardinalityType
  <1> QED BY <1>9, <1>10, <1>11

LEMMA AddOne ==
  ASSUME NEW U, IsFiniteSet(U), NEW x, x \notin U
  PROVE  IsFiniteSet(U \cup {x}) /\ Cardinality(U \cup {x}) = Cardinality(U) + 1 /\ Cardinality(U) \in Nat
  BY FS_AddElement, FS_CardinalityType

Costed == Writer \X Nat \X Nat \X Metered \X Server
MeterKeys == Server \X Metered \X (({"user"} \X Writer) \cup ({"ip"} \X Address))
IsMeter(m) == m = [hits |-> m.hits, until |-> m.until] /\ m.hits \subseteq Nat \X Nat /\ IsFiniteSet(m.hits) /\ m.until \in Nat

\* The requests of an account through one route and instance; those of an hour; and those that
\* count at a time and after, as they were made and as they were metered.
Through(N, s, r, w) == {c \in N : c[1] = w /\ c[4] = r /\ c[5] = s}
WithinHour(N, t) == {c \in N : c[2] \in t .. t + Hour - 1}
Counting(N, y) == {c \in N : c[2] + Hour > y}
Metering(m, y) == {h \in m.hits : h[1] + Hour > y}
\* What a meter holds of the requests N it let through, at a time.
MeterStands(m, N, at) ==
  /\ \A t \in Nat : Cardinality(WithinHour(N, t)) <= HourlyLimit
  /\ m.until = 0 =>
       /\ \A y \in Nat : y >= at => Cardinality(Counting(N, y)) = Cardinality(Metering(m, y))
       /\ \A h \in m.hits : h[1] <= at /\ (h[1] = at => h[2] < Cardinality(Metering(m, at)))
  /\ m.until # 0 =>
       /\ \A c \in N : c[2] + Hour <= m.until
       /\ Cardinality({c \in N : c[2] + 2 * Hour > m.until}) >= HourlyLimit

\* What went through instances before they started anew, and what went through since.
EarlierCost(old, n) ==
  \A w \in Writer, t \in Nat :
    Cardinality(WithinHour({c \in old : c[1] = w}, t)) <= HourlyLimit * Cardinality(Metered) * n
SinceStart(N, f, at) ==
  \A s \in Server, r \in Metered, w \in Writer : MeterStands(f[<<s, r, <<"user", w>>>>], Through(N, s, r, w), at)
Split(N, f, at, n) == \E old \in SUBSET N : EarlierCost(old, n) /\ SinceStart(N \ old, f, at)
Numbered(N, at) ==
  \A c \in N : c[2] <= at /\ c[3] < Cardinality({d \in N : d[1] = c[1] /\ d[2] = c[2]})
LimitTypes ==
  /\ hour \in Nat \ {0} /\ restarts \in Nat /\ made \subseteq Costed /\ IsFiniteSet(made)
  /\ meter = [k \in MeterKeys |-> meter[k]] /\ \A k \in MeterKeys : IsMeter(meter[k])
LimitInv ==
  LimitTypes /\ Numbered(made, hour) /\ Split(made, meter, hour, restarts) /\ RefusalsAreEarned

LEMMA LimitNumbers ==
  /\ HourlyLimit \in Nat \ {0} /\ Hour \in Nat \ {0} /\ IsFiniteSet(Server) /\ IsFiniteSet(Metered)
  /\ Cardinality(Server) \in Nat /\ Cardinality(Metered) \in Nat
  BY GenerationAssumption, FS_CardinalityType

LEMMA UnseenStands == \A at : IsMeter(Unseen) /\ MeterStands(Unseen, {}, at)
  <1>1. Unseen.hits = {} /\ Unseen.until = 0 /\ IsMeter(Unseen)
    BY FS_EmptySet DEF Unseen, IsMeter
  <1>2. \A y : WithinHour({}, y) = {} /\ Counting({}, y) = {} /\ Metering(Unseen, y) = {}
    BY <1>1 DEF WithinHour, Counting, Metering
  <1> QED BY <1>1, <1>2, FS_EmptySet, LimitNumbers DEF MeterStands

LEMMA LimitStart == LimitsInit => LimitInv
  <1> SUFFICES ASSUME LimitsInit PROVE LimitInv
    OBVIOUS
  <1>1. LimitTypes
    BY UnseenStands, FS_EmptySet DEF LimitsInit, LimitTypes, MeterKeys
  <1>2. Numbered(made, hour)
    BY DEF LimitsInit, Numbered
  <1>3. EarlierCost({}, restarts)
    <2>1. \A w, t : WithinHour({c \in {} : c[1] = w}, t) = {}
      BY DEF WithinHour
    <2>2. restarts = 0 /\ HourlyLimit * Cardinality(Metered) * 0 = 0
      BY LimitNumbers DEF LimitsInit
    <2> QED BY <2>1, <2>2, FS_EmptySet DEF EarlierCost
  <1>4. SinceStart({}, meter, hour)
    <2>1. \A s \in Server, r \in Metered, w \in Writer : meter[<<s, r, <<"user", w>>>>] = Unseen
      BY DEF LimitsInit
    <2>2. \A s, r, w : Through({}, s, r, w) = {}
      BY DEF Through
    <2> QED BY <2>1, <2>2, UnseenStands, Zenon DEF SinceStart
  <1>5. Split(made, meter, hour, restarts)
    BY <1>3, <1>4 DEF Split, LimitsInit
  <1> QED BY <1>1, <1>2, <1>5 DEF LimitInv, RefusalsAreEarned, LimitsInit

\* One more request, which is let through and metered, or over the limit and blocked.
OneMoreCounts(m, N, at, live, hits, c) ==
  /\ IsMeter(m) /\ N \subseteq Costed /\ IsFiniteSet(N) /\ at \in Nat \ {0} /\ MeterStands(m, N, at)
  /\ ~ (m.until > at) /\ (\A d \in N : d[2] <= at)
  /\ (m.until # 0 => live = {}) /\ (m.until = 0 => live = Metering(m, at))
  /\ c \in Costed /\ c \notin N /\ c[2] = at /\ hits = live \cup {<<at, Cardinality(live)>>}

LEMMA MeterCounts ==
  ASSUME NEW m, NEW N, NEW at, NEW live, NEW hits, NEW c, OneMoreCounts(m, N, at, live, hits, c)
  PROVE  /\ hits \subseteq Nat \X Nat /\ IsFiniteSet(hits)
         /\ ~ (Cardinality(hits) > HourlyLimit) => MeterStands([hits |-> hits, until |-> 0], N \cup {c}, at)
         /\ Cardinality(hits) > HourlyLimit =>
              /\ MeterStands([hits |-> hits, until |-> at + Hour], N, at)
              /\ Cardinality({d \in N : d[2] + 2 * Hour > at}) >= HourlyLimit
  <1> USE DEF OneMoreCounts
  <1>0. N \cup {c} \subseteq Costed /\ \A d \in N \cup {c} : d[2] \in Nat
    BY DEF Costed
  <1>1. /\ live \subseteq Nat \X Nat /\ IsFiniteSet(live) /\ Cardinality(live) \in Nat
        /\ \A h \in live : h[1] <= at /\ (h[1] = at => h[2] < Cardinality(live))
    <2>1. CASE m.until # 0
      BY <2>1, FS_EmptySet DEF IsMeter
    <2>2. CASE m.until = 0
      <3>1. live = Metering(m, at) /\ live \subseteq m.hits
        BY <2>2 DEF Metering
      <3>2. IsFiniteSet(live) /\ Cardinality(live) \in Nat
        BY <3>1, FS_Subset, FS_CardinalityType DEF IsMeter
      <3> QED BY <2>2, <3>1, <3>2 DEF MeterStands, IsMeter
    <2> QED BY <2>1, <2>2
  <1>2. PICK l \in Nat : l = Cardinality(live)
    BY <1>1
  <1>3. <<at, l>> \notin live
    BY <1>1, <1>2
  <1>4. hits \subseteq Nat \X Nat /\ IsFiniteSet(hits) /\ Cardinality(hits) = l + 1
    <2>1. hits = live \cup {<<at, l>>}
      BY <1>2
    <2>2. IsFiniteSet(live \cup {<<at, l>>}) /\ Cardinality(live \cup {<<at, l>>}) = l + 1
      BY <1>1, <1>2, <1>3, AddOne, Zenon
    <2>3. live \cup {<<at, l>>} \subseteq Nat \X Nat
      BY <1>1
    <2> QED BY <2>1, <2>2, <2>3, Zenon
  \* What counts from now on is the same in both.
  <1>5. ASSUME NEW y \in Nat, y >= at
        PROVE  Cardinality(Counting(N, y)) = Cardinality({h \in live : h[1] + Hour > y})
    <2>1. CASE m.until # 0
      <3>1. Counting(N, y) = {}
        <4>1. \A d \in N : d[2] + Hour <= y
          BY <1>0, <1>5, <2>1, LimitNumbers DEF MeterStands, IsMeter
        <4> QED BY <4>1, <1>0, LimitNumbers DEF Counting
      <3>2. live = {}
        BY <2>1 DEF IsMeter
      <3> QED BY <3>1, <3>2
    <2>2. CASE m.until = 0
      <3>1. {h \in live : h[1] + Hour > y} = Metering(m, y)
        BY <2>2, <1>5, LimitNumbers DEF Metering, IsMeter
      <3> QED BY <3>1, <2>2, <1>5, Zenon DEF MeterStands
    <2> QED BY <2>1, <2>2
  <1>6. Cardinality(Counting(N, at)) = l
    <2>1. \A h \in live : h[1] + Hour > at
      <3>1. CASE m.until # 0
        BY <3>1 DEF IsMeter
      <3>2. CASE m.until = 0
        BY <3>2 DEF Metering
      <3> QED BY <3>1, <3>2
    <2>2. {h \in live : h[1] + Hour > at} = live
      BY <2>1
    <2> QED BY <1>2, <1>5, <2>2
  <1>7. ASSUME ~ (Cardinality(hits) > HourlyLimit) PROVE MeterStands([hits |-> hits, until |-> 0], N \cup {c}, at)
    <2>1. PICK q : q = [hits |-> hits, until |-> 0]
      BY Zenon
    <2>2. q.hits = hits /\ q.until = 0
      BY <2>1
    <2>3. l + 1 <= HourlyLimit
      BY <1>4, <1>7, LimitNumbers
    <2>4. ASSUME NEW t \in Nat PROVE Cardinality(WithinHour(N \cup {c}, t)) <= HourlyLimit
      <3>1. IsFiniteSet(WithinHour(N, t)) /\ Cardinality(WithinHour(N, t)) <= HourlyLimit
        BY FS_Subset DEF WithinHour, MeterStands
      <3>2. CASE at \notin t .. t + Hour - 1
        <4>1. WithinHour(N \cup {c}, t) = WithinHour(N, t)
          BY <3>2 DEF WithinHour
        <4> QED BY <3>1, <4>1
      <3>3. CASE at \in t .. t + Hour - 1
        <4>1. WithinHour(N, t) \subseteq Counting(N, at)
          BY <3>3, <1>0, LimitNumbers DEF WithinHour, Counting
        <4>2. IsFiniteSet(Counting(N, at))
          BY FS_Subset DEF Counting
        <4>3. Cardinality(WithinHour(N, t)) <= l /\ Cardinality(WithinHour(N, t)) \in Nat
          BY <3>1, <4>1, <4>2, <1>6, FS_Subset, FS_CardinalityType
        <4>4. WithinHour(N \cup {c}, t) = WithinHour(N, t) \cup {c} /\ c \notin WithinHour(N, t)
          BY <3>3 DEF WithinHour
        <4>5. Cardinality(WithinHour(N, t) \cup {c}) = Cardinality(WithinHour(N, t)) + 1
          BY <3>1, <4>4, AddOne
        <4>6. PICK k \in Nat : k = Cardinality(WithinHour(N, t))
          BY <4>3
        <4>7. k + 1 <= HourlyLimit
          BY <2>3, <4>3, <4>6, LimitNumbers
        <4> QED BY <4>4, <4>5, <4>6, <4>7, Zenon
      <3> QED BY <3>2, <3>3
    <2>5. ASSUME NEW y \in Nat, y >= at PROVE Cardinality(Counting(N \cup {c}, y)) = Cardinality(Metering(q, y))
      <3> DEFINE K == {h \in live : h[1] + Hour > y}
      <3>1. IsFiniteSet(Counting(N, y)) /\ IsFiniteSet(K) /\ Cardinality(Counting(N, y)) = Cardinality(K)
        BY <1>1, <1>5, <2>5, FS_Subset DEF Counting
      <3>2. CASE at + Hour > y
        <4>1. Counting(N \cup {c}, y) = Counting(N, y) \cup {c} /\ c \notin Counting(N, y)
          BY <3>2 DEF Counting
        <4>2. Metering(q, y) = K \cup {<<at, l>>} /\ <<at, l>> \notin K
          BY <1>2, <1>3, <2>2, <3>2 DEF Metering
        <4>3. Cardinality(Counting(N, y) \cup {c}) = Cardinality(Counting(N, y)) + 1
          BY <3>1, <4>1, AddOne
        <4>4. Cardinality(K \cup {<<at, l>>}) = Cardinality(K) + 1
          BY <3>1, <4>2, AddOne, Zenon
        <4> QED BY <3>1, <4>1, <4>2, <4>3, <4>4, Zenon
      <3>3. CASE ~ (at + Hour > y)
        <4>1. Counting(N \cup {c}, y) = Counting(N, y)
          BY <3>3 DEF Counting
        <4>2. Metering(q, y) = K
          BY <2>2, <3>3 DEF Metering
        <4> QED BY <3>1, <4>1, <4>2
      <3> QED BY <3>2, <3>3
    <2>6. Metering(q, at) = hits
      <3>1. \A h \in live : h[1] + Hour > at
        <4>1. CASE m.until # 0
          BY <4>1 DEF IsMeter
        <4>2. CASE m.until = 0
          BY <4>2 DEF Metering
        <4> QED BY <4>1, <4>2
      <3>2. \A h \in hits : h[1] + Hour > at
        BY <3>1, LimitNumbers
      <3> QED BY <2>2, <3>2 DEF Metering
    <2>7. \A h \in hits : h[1] <= at /\ (h[1] = at => h[2] < l + 1)
      BY <1>1, <1>2
    <2>8. \A h \in q.hits : h[1] <= at /\ (h[1] = at => h[2] < Cardinality(Metering(q, at)))
      BY <1>4, <2>2, <2>6, <2>7
    <2>9. MeterStands(q, N \cup {c}, at)
      BY <2>2, <2>4, <2>5, <2>8, Zenon DEF MeterStands
    <2> QED BY <2>1, <2>9
  <1>8. ASSUME Cardinality(hits) > HourlyLimit
        PROVE  /\ MeterStands([hits |-> hits, until |-> at + Hour], N, at)
               /\ Cardinality({d \in N : d[2] + 2 * Hour > at}) >= HourlyLimit
    <2>1. PICK q : q = [hits |-> hits, until |-> at + Hour]
      BY Zenon
    <2>2. q.until = at + Hour /\ q.until # 0
      BY <2>1, LimitNumbers
    <2>3. l >= HourlyLimit
      BY <1>4, <1>8, LimitNumbers
    <2>4. {d \in N : d[2] + 2 * Hour > q.until} = Counting(N, at)
      BY <1>0, <2>2, LimitNumbers DEF Counting
    <2>5. Cardinality({d \in N : d[2] + 2 * Hour > q.until}) >= HourlyLimit
      BY <1>6, <2>3, <2>4, Zenon
    <2>6. \A d \in N : d[2] + Hour <= q.until
      BY <1>0, <2>2, LimitNumbers
    <2>7. MeterStands(q, N, at)
      BY <2>2, <2>5, <2>6 DEF MeterStands
    <2>8. Cardinality({d \in N : d[2] + 2 * Hour > at}) >= HourlyLimit
      <3> DEFINE D == {d \in N : d[2] + 2 * Hour > at}
      <3>1. Counting(N, at) \subseteq D /\ IsFiniteSet(D)
        BY <1>0, LimitNumbers, FS_Subset DEF Counting
      <3>2. l <= Cardinality(D) /\ Cardinality(D) \in Nat
        BY <3>1, <1>6, FS_Subset, FS_CardinalityType
      <3> QED BY <3>2, <2>3, LimitNumbers
    <2> QED BY <2>1, <2>7, <2>8
  <1> QED BY <1>4, <1>7, <1>8

\* A request through one route and instance is none of the others' business.
LEMMA ElsewhereSame ==
  ASSUME NEW N, NEW c, NEW s, NEW r, NEW w, ~ (c[1] = w /\ c[4] = r /\ c[5] = s)
  PROVE  Through(N \cup {c}, s, r, w) = Through(N, s, r, w)
  BY DEF Through

LEMMA RequestKeeps ==
  ASSUME LimitInv, NEW s \in Server, NEW r \in Metered, NEW w \in Writer, NEW a \in Address, HandleRequest(s, r, w, a)
  PROVE  LimitInv'
  <1>1. PICK k : k = <<s, r, <<"user", w>>>>
    BY Zenon
  <1>2. k \in MeterKeys
    BY <1>1 DEF MeterKeys
  <1>3. PICK m : m = meter[k]
    OBVIOUS
  <1>4. PICK c : c = <<w, hour, Cardinality({d \in made : d[1] = w /\ d[2] = hour}), r, s>>
    BY Zenon
  <1>5. PICK i : i = Increment(m)
    OBVIOUS
  <1>6. /\ meter' = IF m.until > hour THEN meter ELSE [meter EXCEPT ![k] = i]
        /\ IF m.until > hour \/ i.until # 0 THEN refused' = <<w, r>> /\ made' = made
           ELSE refused' = Nobody /\ made' = made \cup {c}
        /\ hour' = hour /\ restarts' = restarts
    BY <1>1, <1>3, <1>4, <1>5 DEF HandleRequest, GetTracker, Blocked
  <1>7. PICK old \in SUBSET made : EarlierCost(old, restarts) /\ SinceStart(made \ old, meter, hour)
    BY Zenon DEF LimitInv, Split
  <1>8. PICK N : N = Through(made \ old, s, r, w)
    OBVIOUS
  <1>9. IsMeter(m) /\ MeterStands(m, N, hour)
    BY <1>1, <1>2, <1>3, <1>7, <1>8, Zenon DEF LimitInv, LimitTypes, SinceStart
  <1>10. N \subseteq made /\ N \subseteq Costed /\ IsFiniteSet(N) /\ \A d \in N : d[2] <= hour
    BY <1>8, FS_Subset, Zenon DEF Through, LimitInv, LimitTypes, Numbered
  <1>11. /\ c \in Costed /\ c[1] = w /\ c[2] = hour /\ c[4] = r /\ c[5] = s
         /\ c[3] = Cardinality({d \in made : d[1] = w /\ d[2] = hour})
    <2>1. IsFiniteSet({d \in made : d[1] = w /\ d[2] = hour})
      BY FS_Subset DEF LimitInv, LimitTypes
    <2>2. PICK n \in Nat : n = Cardinality({d \in made : d[1] = w /\ d[2] = hour})
      BY <2>1, FS_CardinalityType, Zenon
    <2>3. c = <<w, hour, n, r, s>>
      BY <1>4, <2>2
    <2> QED BY <2>2, <2>3 DEF Costed, LimitInv, LimitTypes
  <1>12. c \notin made
    BY <1>11 DEF LimitInv, LimitTypes, Numbered, Costed
  <1>13. RefusalsAreEarned /\ hour \in Nat \ {0}
    BY DEF LimitInv, LimitTypes
  \* Whoever is refused earned it.
  <1>14. ASSUME Cardinality({d \in N : d[2] + 2 * Hour > hour}) >= HourlyLimit, made' = made, refused' = <<w, r>>
         PROVE  RefusalsAreEarned'
    <2> DEFINE D == {d \in N : d[2] + 2 * Hour > hour}
               E == {d \in made : d[1] = w /\ d[4] = r /\ d[2] + 2 * Hour > hour}
    <2>1. D \subseteq E
      BY <1>8, <1>10 DEF Through
    <2>2. IsFiniteSet(E)
      BY FS_Subset DEF LimitInv, LimitTypes
    <2>3. Cardinality(D) <= Cardinality(E) /\ Cardinality(E) \in Nat /\ Cardinality(D) \in Nat
      BY <2>1, <2>2, FS_Subset, FS_CardinalityType
    <2>4. Cardinality(E) >= HourlyLimit
      BY <1>14, <2>3, LimitNumbers
    <2>5. PICK u : u = <<w, r>>
      BY Zenon
    <2>6. u[1] = w /\ u[2] = r /\ refused' = u
      BY <2>5, <1>14
    <2>7. E = {d \in made : d[1] = u[1] /\ d[4] = u[2] /\ d[2] + 2 * Hour > hour}
      BY <2>6
    <2> HIDE DEF E, D
    <2> QED BY <1>6, <1>14, <2>4, <2>6, <2>7 DEF RefusalsAreEarned
  <1>15. CASE m.until > hour
    <2>1. meter' = meter /\ made' = made /\ refused' = <<w, r>>
      BY <1>6, <1>15
    <2>2. m.until # 0
      BY <1>13, <1>15
    <2>3. Cardinality({d \in N : d[2] + 2 * Hour > hour}) >= HourlyLimit
      <3> DEFINE D == {d \in N : d[2] + 2 * Hour > m.until}
                 E == {d \in N : d[2] + 2 * Hour > hour}
      <3>1. D \subseteq E /\ IsFiniteSet(E)
        BY <1>9, <1>10, <1>13, <1>15, LimitNumbers, FS_Subset DEF IsMeter, Costed
      <3>2. Cardinality(D) <= Cardinality(E) /\ Cardinality(E) \in Nat /\ Cardinality(D) \in Nat
        BY <3>1, FS_Subset, FS_CardinalityType
      <3>3. Cardinality(D) >= HourlyLimit
        BY <1>9, <2>2 DEF MeterStands
      <3> QED BY <3>2, <3>3, LimitNumbers
    <2>4. RefusalsAreEarned'
      BY <1>14, <2>1, <2>3
    <2>5. LimitTypes' /\ Numbered(made, hour)' /\ Split(made, meter, hour, restarts)'
      BY <1>6, <2>1 DEF LimitInv, LimitTypes
    <2> QED BY <2>4, <2>5 DEF LimitInv
  <1>16. CASE ~ (m.until > hour)
    <2>1. PICK live : live = (IF m.until # 0 /\ m.until <= hour THEN {} ELSE Metering(m, hour))
      BY Zenon
    <2>2. live = Live(m) /\ (m.until # 0 => live = {}) /\ (m.until = 0 => live = Metering(m, hour))
      <3>1. m.until \in Nat /\ (m.until # 0 => m.until <= hour)
        BY <1>9, <1>13, <1>16 DEF IsMeter
      <3> QED BY <2>1, <3>1 DEF Live, Metering
    <2>3. PICK hits : hits = live \cup {<<hour, Cardinality(live)>>}
      BY Zenon
    <2>4. i = [hits |-> hits, until |-> IF Cardinality(hits) > HourlyLimit THEN hour + Hour ELSE 0]
      BY <1>5, <2>2, <2>3 DEF Increment
    <2>5. c \notin N
      BY <1>10, <1>12
    <2>6. /\ hits \subseteq Nat \X Nat /\ IsFiniteSet(hits)
          /\ ~ (Cardinality(hits) > HourlyLimit) => MeterStands([hits |-> hits, until |-> 0], N \cup {c}, hour)
          /\ Cardinality(hits) > HourlyLimit =>
               /\ MeterStands([hits |-> hits, until |-> hour + Hour], N, hour)
               /\ Cardinality({d \in N : d[2] + 2 * Hour > hour}) >= HourlyLimit
      <3>1. /\ IsMeter(m) /\ N \subseteq Costed /\ IsFiniteSet(N) /\ hour \in Nat \ {0} /\ MeterStands(m, N, hour)
            /\ ~ (m.until > hour) /\ (\A d \in N : d[2] <= hour)
            /\ (m.until # 0 => live = {}) /\ (m.until = 0 => live = Metering(m, hour))
            /\ c \in Costed /\ c \notin N /\ c[2] = hour
        BY <1>9, <1>10, <1>11, <1>13, <1>16, <2>2, <2>5
      <3>2. PICK at : at = hour
        OBVIOUS
      <3>3. OneMoreCounts(m, N, at, live, hits, c)
        BY <3>1, <3>2, <2>3, Zenon DEF OneMoreCounts
      <3>4. /\ hits \subseteq Nat \X Nat /\ IsFiniteSet(hits)
            /\ ~ (Cardinality(hits) > HourlyLimit) => MeterStands([hits |-> hits, until |-> 0], N \cup {c}, at)
            /\ Cardinality(hits) > HourlyLimit =>
                 /\ MeterStands([hits |-> hits, until |-> at + Hour], N, at)
                 /\ Cardinality({d \in N : d[2] + 2 * Hour > at}) >= HourlyLimit
        BY <3>3, MeterCounts, Zenon
      <3> QED BY <3>2, <3>4
    <2>7. meter' = [meter EXCEPT ![k] = i]
      BY <1>6, <1>16
    <2>8. IsMeter(i)
      <3>1. PICK v : v = IF Cardinality(hits) > HourlyLimit THEN hour + Hour ELSE 0
        OBVIOUS
      <3>2. v \in Nat
        BY <3>1, <1>13, LimitNumbers
      <3>3. i = [hits |-> hits, until |-> v]
        BY <2>4, <3>1
      <3>4. i.hits = hits /\ i.until = v
        BY <3>3
      <3> QED BY <2>6, <3>2, <3>3, <3>4 DEF IsMeter
    <2>9. meter'[k] = i /\ \A x \in MeterKeys : x # k => meter'[x] = meter[x]
      BY <2>7, <1>2 DEF LimitInv, LimitTypes
    <2>10. meter' = [x \in MeterKeys |-> meter'[x]] /\ \A x \in MeterKeys : IsMeter(meter'[x])
      <3>1. meter' = [x \in MeterKeys |-> meter'[x]]
        BY <2>7 DEF LimitInv, LimitTypes
      <3>2. \A x \in MeterKeys : IsMeter(meter'[x])
        BY <2>8, <2>9 DEF LimitInv, LimitTypes
      <3> QED BY <3>1, <3>2
    <2>11. \A x \in Server, y \in Metered, z \in Writer :
             /\ <<x, y, <<"user", z>>>> \in MeterKeys
             /\ <<x, y, <<"user", z>>>> = k => x = s /\ y = r /\ z = w
      BY <1>1 DEF MeterKeys
    <2>12. CASE Cardinality(hits) > HourlyLimit
      <3>1. i = [hits |-> hits, until |-> hour + Hour] /\ i.until # 0
        <4>1. i = [hits |-> hits, until |-> hour + Hour]
          BY <2>4, <2>12
        <4>2. i.until = hour + Hour
          BY <4>1
        <4> QED BY <4>1, <4>2, <1>13, LimitNumbers
      <3>2. made' = made /\ refused' = <<w, r>>
        BY <1>6, <3>1
      <3>3. RefusalsAreEarned'
        BY <1>14, <2>6, <2>12, <3>2
      <3>4. SinceStart(made \ old, meter', hour)
        <4> SUFFICES ASSUME NEW x \in Server, NEW y \in Metered, NEW z \in Writer
                     PROVE  MeterStands(meter'[<<x, y, <<"user", z>>>>], Through(made \ old, x, y, z), hour)
          BY Zenon DEF SinceStart
        <4>1. CASE <<x, y, <<"user", z>>>> = k
          BY <4>1, <1>8, <2>6, <2>9, <2>11, <2>12, <3>1
        <4>2. CASE <<x, y, <<"user", z>>>> # k
          BY <4>2, <1>7, <2>9, <2>11, Zenon DEF SinceStart
        <4> QED BY <4>1, <4>2
      <3>5. Split(made, meter', hour, restarts)
        BY <1>7, <3>4 DEF Split
      <3>6. Split(made, meter, hour, restarts)'
        BY <1>6, <3>2, <3>5
      <3>7. LimitTypes' /\ Numbered(made, hour)'
        BY <1>6, <2>10, <3>2 DEF LimitInv, LimitTypes
      <3> QED BY <3>3, <3>6, <3>7 DEF LimitInv
    <2>13. CASE ~ (Cardinality(hits) > HourlyLimit)
      <3>1. i = [hits |-> hits, until |-> 0] /\ i.until = 0
        <4>1. i = [hits |-> hits, until |-> 0]
          BY <2>4, <2>13
        <4> QED BY <4>1
      <3>2. made' = made \cup {c} /\ refused' = Nobody
        BY <1>6, <1>16, <3>1
      <3>3. RefusalsAreEarned'
        BY <3>2 DEF RefusalsAreEarned
      <3>4. (made \cup {c}) \ old = (made \ old) \cup {c}
        BY <1>7, <1>12
      <3>5. SinceStart((made \cup {c}) \ old, meter', hour)
        <4> SUFFICES ASSUME NEW x \in Server, NEW y \in Metered, NEW z \in Writer
                     PROVE  MeterStands(meter'[<<x, y, <<"user", z>>>>], Through((made \ old) \cup {c}, x, y, z), hour)
          BY <3>4, Zenon DEF SinceStart
        <4>1. CASE <<x, y, <<"user", z>>>> = k
          <5>1. x = s /\ y = r /\ z = w
            BY <4>1, <2>11
          <5>2. Through((made \ old) \cup {c}, s, r, w) = N \cup {c}
            BY <1>8, <1>11 DEF Through
          <5> QED BY <4>1, <5>1, <5>2, <2>6, <2>9, <2>13, <3>1, Zenon
        <4>2. CASE <<x, y, <<"user", z>>>> # k
          <5>1. ~ (c[1] = z /\ c[4] = y /\ c[5] = x)
            BY <4>2, <1>1, <1>11
          <5>2. Through((made \ old) \cup {c}, x, y, z) = Through(made \ old, x, y, z)
            BY <5>1, ElsewhereSame
          <5> QED BY <4>2, <5>2, <1>7, <2>9, <2>11 DEF SinceStart
        <4> QED BY <4>1, <4>2
      <3>6. Split(made \cup {c}, meter', hour, restarts)
        BY <1>7, <3>5 DEF Split
      <3>7. Split(made, meter, hour, restarts)'
        BY <1>6, <3>2, <3>6
      <3>8. Numbered(made \cup {c}, hour)
        <4> SUFFICES ASSUME NEW d \in made \cup {c}
                     PROVE  d[2] <= hour /\ d[3] < Cardinality({x \in made \cup {c} : x[1] = d[1] /\ x[2] = d[2]})
          BY DEF Numbered
        <4> DEFINE D == {x \in made : x[1] = d[1] /\ x[2] = d[2]}
                   E == {x \in made \cup {c} : x[1] = d[1] /\ x[2] = d[2]}
        <4>1. IsFiniteSet(D) /\ Cardinality(D) \in Nat
          BY FS_Subset, FS_CardinalityType DEF LimitInv, LimitTypes
        <4>2. d[3] \in Nat /\ d[2] <= hour
          <5>1. d \in Costed
            BY <1>11 DEF LimitInv, LimitTypes
          <5>2. CASE d \in made
            BY <5>1, <5>2, Zenon DEF LimitInv, Numbered, Costed
          <5>3. CASE d = c
            BY <5>1, <5>3, <1>11, <1>13 DEF Costed
          <5> QED BY <5>2, <5>3
        <4>3. d \in made => d[3] < Cardinality(D)
          BY DEF LimitInv, Numbered
        <4>4. CASE c[1] = d[1] /\ c[2] = d[2]
          <5>1. E = D \cup {c} /\ c \notin D
            BY <1>12, <4>4
          <5>2. Cardinality(D \cup {c}) = Cardinality(D) + 1
            BY <4>1, <5>1, AddOne
          <5>3. d = c => d[3] = Cardinality(D)
            BY <1>11, Zenon
          <5>4. d[3] <= Cardinality(D)
            BY <4>1, <4>2, <4>3, <5>3
          <5>5. PICK n \in Nat : n = Cardinality(D)
            BY <4>1, Zenon
          <5>6. Cardinality(E) = n + 1 /\ d[3] <= n
            BY <5>1, <5>2, <5>4, <5>5, Zenon
          <5> QED BY <4>2, <5>5, <5>6
        <4>5. CASE ~ (c[1] = d[1] /\ c[2] = d[2])
          <5>1. E = D /\ d \in made
            BY <4>5
          <5> QED BY <4>2, <4>3, <5>1, Zenon
        <4> QED BY <4>4, <4>5
      <3>9. Numbered(made, hour)'
        BY <1>6, <3>2, <3>8
      <3>10. IsFiniteSet(made \cup {c})
        BY <1>12, AddOne DEF LimitInv, LimitTypes
      <3>11. LimitTypes'
        BY <1>6, <1>11, <2>10, <3>2, <3>10 DEF LimitInv, LimitTypes
      <3> QED BY <3>3, <3>7, <3>9, <3>11 DEF LimitInv
    <2> QED BY <2>12, <2>13
  <1> QED BY <1>15, <1>16

\* What an account sends within an hour through instances that have not started anew since, by
\* one or by any of them.
LEMMA OneServerCosts ==
  ASSUME LimitInv, NEW N, N \subseteq made, SinceStart(N, meter, hour), NEW s \in Server, NEW w \in Writer, NEW t \in Nat
  PROVE  Cardinality({c \in WithinHour(N, t) : c[1] = w /\ c[5] = s}) <= HourlyLimit * Cardinality(Metered)
  <1> DEFINE U == {c \in WithinHour(N, t) : c[1] = w /\ c[5] = s}
  <1>1. IsFiniteSet(U) /\ U \subseteq Costed
    BY FS_Subset DEF LimitInv, LimitTypes, WithinHour
  <1>2. PICK f : f = [c \in U |-> c[4]]
    BY Zenon
  <1>3. f \in [U -> Metered]
    BY <1>1, <1>2 DEF Costed
  <1>4. ASSUME NEW r \in Metered PROVE Cardinality({c \in U : f[c] = r}) <= HourlyLimit
    <2>1. {c \in U : f[c] = r} = WithinHour(Through(N, s, r, w), t)
      BY <1>2 DEF WithinHour, Through
    <2>2. Cardinality(WithinHour(Through(N, s, r, w), t)) <= HourlyLimit
      BY Zenon DEF SinceStart, MeterStands
    <2> QED BY <2>1, <2>2, Zenon
  <1> HIDE DEF U
  <1>5. AtMostEach(U, Metered, f, HourlyLimit)
    BY <1>1, <1>3, <1>4, LimitNumbers DEF AtMostEach
  <1>6. Cardinality(U) <= HourlyLimit * Cardinality(Metered)
    BY <1>5, Dealt
  <1> QED BY <1>6 DEF U

LEMMA AllServersCost ==
  ASSUME LimitInv, NEW N, N \subseteq made, SinceStart(N, meter, hour), NEW w \in Writer, NEW t \in Nat
  PROVE  Cardinality({c \in WithinHour(N, t) : c[1] = w}) <= HourlyLimit * (Cardinality(Server) * Cardinality(Metered))
  <1> DEFINE U == {c \in WithinHour(N, t) : c[1] = w}
  <1>1. IsFiniteSet(U) /\ U \subseteq Costed
    BY FS_Subset DEF LimitInv, LimitTypes, WithinHour
  <1>2. PICK f : f = [c \in U |-> <<c[5], c[4]>>]
    BY Zenon
  <1>3. f \in [U -> Server \X Metered]
    BY <1>1, <1>2 DEF Costed
  <1>4. ASSUME NEW i \in Server \X Metered PROVE Cardinality({c \in U : f[c] = i}) <= HourlyLimit
    <2>1. PICK s \in Server, r \in Metered : i = <<s, r>>
      OBVIOUS
    <2>2. {c \in U : f[c] = i} = WithinHour(Through(N, s, r, w), t)
      BY <1>2, <2>1 DEF WithinHour, Through
    <2>3. Cardinality(WithinHour(Through(N, s, r, w), t)) <= HourlyLimit
      BY Zenon DEF SinceStart, MeterStands
    <2> QED BY <2>2, <2>3, Zenon
  <1>5. IsFiniteSet(Server \X Metered) /\ Cardinality(Server \X Metered) = Cardinality(Server) * Cardinality(Metered)
    BY LimitNumbers, FS_Product
  <1> HIDE DEF U
  <1>6. AtMostEach(U, Server \X Metered, f, HourlyLimit)
    BY <1>1, <1>3, <1>4, <1>5, LimitNumbers DEF AtMostEach
  <1>7. Cardinality(U) <= HourlyLimit * Cardinality(Server \X Metered)
    BY <1>6, Dealt
  <1> QED BY <1>5, <1>7 DEF U

LEMMA StartAnewKeeps == ASSUME LimitInv, NEW s \in Server, StartAnew(s) PROVE LimitInv'
  <1>1. /\ meter' = [k \in MeterKeys |-> IF k[1] = s THEN Unseen ELSE meter[k]]
        /\ restarts' = restarts + 1 /\ refused' = Nobody /\ hour' = hour /\ made' = made
    BY DEF StartAnew, LimitInv, LimitTypes
  <1>2. PICK old \in SUBSET made : EarlierCost(old, restarts) /\ SinceStart(made \ old, meter, hour)
    BY DEF LimitInv, Split
  <1>3. PICK N : N = made \ old
    BY Zenon
  <1>4. PICK gone : gone = old \cup {c \in N : c[5] = s}
    BY Zenon
  <1>5. gone \in SUBSET made /\ made \ gone = {c \in N : c[5] # s}
    BY <1>3, <1>4
  <1>6. EarlierCost(gone, restarts + 1)
    <2> SUFFICES ASSUME NEW w \in Writer, NEW t \in Nat
                 PROVE  Cardinality(WithinHour({c \in gone : c[1] = w}, t)) <= HourlyLimit * Cardinality(Metered) * (restarts + 1)
      BY DEF EarlierCost
    <2>1. PICK A, B : A = WithinHour({c \in old : c[1] = w}, t) /\ B = {c \in WithinHour(N, t) : c[1] = w /\ c[5] = s}
      BY Zenon
    <2>2. WithinHour({c \in gone : c[1] = w}, t) = A \cup B /\ A \cap B = {}
      BY <1>3, <1>4, <2>1 DEF WithinHour
    <2>3. A \subseteq made /\ B \subseteq made
      BY <1>3, <2>1 DEF WithinHour
    <2>4. IsFiniteSet(A) /\ IsFiniteSet(B)
      BY <2>3, FS_Subset DEF LimitInv, LimitTypes
    <2>5. Cardinality(A \cup B) = Cardinality(A) + Cardinality(B) - Cardinality({})
      BY <2>2, <2>4, FS_Union
    <2>6. PICK p \in Nat : p = HourlyLimit * Cardinality(Metered)
      BY LimitNumbers
    <2>7. Cardinality(B) <= p
      BY <1>2, <1>3, <2>1, <2>6, OneServerCosts, Zenon
    <2>8. Cardinality(A) <= p * restarts
      BY <1>2, <2>1, <2>6 DEF EarlierCost
    <2>9. PICK a, b \in Nat : a = Cardinality(A) /\ b = Cardinality(B)
      BY <2>4, FS_CardinalityType
    <2>10. PICK z \in Nat : z = p * restarts /\ p * (restarts + 1) = z + p
      BY DEF LimitInv, LimitTypes
    <2>11. a + b <= p * (restarts + 1)
      BY <2>7, <2>8, <2>9, <2>10
    <2>12. Cardinality(A \cup B) = a + b
      BY <2>5, <2>9, FS_EmptySet
    <2> QED BY <2>2, <2>6, <2>11, <2>12, Zenon
  <1>7. SinceStart(made \ gone, meter', hour)
    <2> SUFFICES ASSUME NEW x \in Server, NEW r \in Metered, NEW w \in Writer
                 PROVE  MeterStands(meter'[<<x, r, <<"user", w>>>>], Through(made \ gone, x, r, w), hour)
      BY Zenon DEF SinceStart
    <2>1. PICK k : k = <<x, r, <<"user", w>>>>
      BY Zenon
    <2>2. k \in MeterKeys /\ k[1] = x
      BY <2>1 DEF MeterKeys
    <2>3. CASE x = s
      <3>1. Through(made \ gone, x, r, w) = {}
        BY <1>5, <2>3 DEF Through
      <3>2. meter'[k] = Unseen
        BY <1>1, <2>2, <2>3
      <3> QED BY <2>1, <3>1, <3>2, UnseenStands
    <2>4. CASE x # s
      <3>1. Through(made \ gone, x, r, w) = Through(N, x, r, w)
        BY <1>5, <2>4 DEF Through
      <3>2. meter'[k] = meter[k]
        BY <1>1, <2>2, <2>4
      <3> QED BY <1>2, <1>3, <2>1, <3>1, <3>2 DEF SinceStart
    <2> QED BY <2>3, <2>4
  <1>8. Split(made, meter', hour, restarts + 1)
    BY <1>5, <1>6, <1>7, Zenon DEF Split
  <1>9. Split(made, meter, hour, restarts)'
    BY <1>1, <1>8
  <1>10. LimitTypes'
    <2>1. \A k \in MeterKeys : IsMeter(meter'[k])
      BY <1>1, UnseenStands DEF LimitInv, LimitTypes
    <2>2. meter' = [k \in MeterKeys |-> meter'[k]]
      BY <1>1
    <2> QED BY <1>1, <2>1, <2>2 DEF LimitInv, LimitTypes
  <1>11. Numbered(made, hour)' /\ RefusalsAreEarned'
    BY <1>1 DEF LimitInv, RefusalsAreEarned
  <1> QED BY <1>9, <1>10, <1>11 DEF LimitInv

LEMMA HalfAnHourKeeps == ASSUME LimitInv, HalfAnHour PROVE LimitInv'
  <1>1. hour' = hour + 1 /\ refused' = Nobody /\ meter' = meter /\ restarts' = restarts /\ made' = made
    BY DEF HalfAnHour
  <1>2. PICK old \in SUBSET made : EarlierCost(old, restarts) /\ SinceStart(made \ old, meter, hour)
    BY DEF LimitInv, Split
  <1>3. PICK at \in Nat : at = hour
    BY DEF LimitInv, LimitTypes
  <1>4. ASSUME NEW m, NEW N, IsMeter(m), MeterStands(m, N, at) PROVE MeterStands(m, N, at + 1)
    <2>1. \A h \in m.hits : h[1] \in Nat
      BY <1>4 DEF IsMeter
    <2>2. m.until = 0 => \A h \in m.hits : h[1] <= at + 1 /\ h[1] # at + 1
      BY <1>4, <2>1 DEF MeterStands
    <2>3. m.until = 0 => \A y \in Nat : y >= at + 1 => Cardinality(Counting(N, y)) = Cardinality(Metering(m, y))
      BY <1>4 DEF MeterStands
    <2> QED BY <1>4, <2>2, <2>3 DEF MeterStands
  <1>5. SinceStart(made \ old, meter, at + 1)
    <2>1. \A s \in Server, r \in Metered, w \in Writer : IsMeter(meter[<<s, r, <<"user", w>>>>])
      BY Zenon DEF LimitInv, LimitTypes, MeterKeys
    <2>2. SinceStart(made \ old, meter, at)
      BY <1>2, <1>3
    <2> QED BY <1>4, <2>1, <2>2, Zenon DEF SinceStart
  <1>6. Split(made, meter, at + 1, restarts)
    BY <1>2, <1>5, Zenon DEF Split
  <1>7. Split(made, meter, hour, restarts)'
    BY <1>1, <1>3, <1>6
  <1>8. LimitTypes'
    BY <1>1 DEF LimitInv, LimitTypes
  <1>9. Numbered(made, hour)'
    <2>1. \A c \in made : c[2] <= hour + 1
      <3>1. \A c \in made : c[2] \in Nat
        BY DEF LimitInv, LimitTypes, Costed
      <3>2. \A c \in made : c[2] <= at
        BY <1>3, Zenon DEF LimitInv, Numbered
      <3>3. \A c \in made : c[2] <= at + 1
        BY <3>1, <3>2
      <3> QED BY <1>3, <3>3
    <2> QED BY <1>1, <2>1 DEF LimitInv, Numbered
  <1>10. RefusalsAreEarned'
    BY <1>1 DEF RefusalsAreEarned
  <1> QED BY <1>7, <1>8, <1>9, <1>10 DEF LimitInv

LEMMA LimitStep == LimitInv /\ (LimitsNext \/ UNCHANGED limitVars) => LimitInv'
  <1>1. LimitInv /\ UNCHANGED limitVars => LimitInv'
    BY DEF limitVars, LimitInv, LimitTypes, RefusalsAreEarned
  <1> QED BY <1>1, RequestKeeps, StartAnewKeeps, HalfAnHourKeeps DEF LimitsNext

LEMMA LimitSound == LimitInv => CostIsBounded /\ RefusalsAreEarned
  <1> SUFFICES ASSUME LimitInv, NEW w \in Writer, NEW t \in 1 .. LastHalfHour
               PROVE  Cardinality({c \in made : c[1] = w /\ c[2] \in t .. t + Hour - 1})
                        <= HourlyLimit * Cardinality(Metered) * (Cardinality(Server) + restarts)
    BY DEF LimitInv, CostIsBounded
  <1>1. t \in Nat
    BY GenerationAssumption
  <1>2. PICK old \in SUBSET made : EarlierCost(old, restarts) /\ SinceStart(made \ old, meter, hour)
    BY DEF LimitInv, Split
  <1>3. PICK A, B : A = WithinHour({c \in old : c[1] = w}, t) /\ B = {c \in WithinHour(made \ old, t) : c[1] = w}
    BY Zenon
  <1>4. {c \in made : c[1] = w /\ c[2] \in t .. t + Hour - 1} = A \cup B /\ A \cap B = {}
    BY <1>3 DEF WithinHour
  <1>5. A \subseteq made /\ B \subseteq made
    BY <1>3 DEF WithinHour
  <1>6. IsFiniteSet(A) /\ IsFiniteSet(B)
    BY <1>5, FS_Subset DEF LimitInv, LimitTypes
  <1>7. Cardinality(A \cup B) = Cardinality(A) + Cardinality(B) - Cardinality({})
    BY <1>4, <1>6, FS_Union
  <1>8. PICK a, b \in Nat : a = Cardinality(A) /\ b = Cardinality(B)
    BY <1>6, FS_CardinalityType
  <1>9. PICK m, n \in Nat : m = Cardinality(Metered) /\ n = Cardinality(Server)
    BY LimitNumbers
  <1>10. a <= HourlyLimit * m * restarts
    BY <1>1, <1>2, <1>3, <1>8, <1>9 DEF EarlierCost
  <1>11. b <= HourlyLimit * (n * m)
    BY <1>1, <1>2, <1>3, <1>8, <1>9, AllServersCost, Zenon
  <1>12. HourlyLimit * (n * m) + HourlyLimit * m * restarts = HourlyLimit * m * (n + restarts)
    BY LimitNumbers DEF LimitInv, LimitTypes
  <1>13. HourlyLimit * (n * m) \in Nat /\ HourlyLimit * m * restarts \in Nat
    BY LimitNumbers DEF LimitInv, LimitTypes
  <1>14. a + b <= HourlyLimit * m * (n + restarts)
    BY <1>10, <1>11, <1>12, <1>13
  <1>15. Cardinality(A \cup B) = a + b
    BY <1>7, <1>8, FS_EmptySet
  <1> QED BY <1>4, <1>9, <1>14, <1>15

-----------------------------------------------------------------------------
(* Vectors. *)

IsVectorRow(r) == r = [vector |-> r.vector, status |-> r.status, error |-> r.error]
VectorTypes == vectorRow = [i \in EmbedRow |-> vectorRow[i]] /\ \A i \in EmbedRow : IsVectorRow(vectorRow[i])

LEMMA VectorStart == VectorsInit => VectorTypes
  BY DEF VectorsInit, VectorTypes, IsVectorRow

LEMMA StoreVectorKeeps ==
  ASSUME VectorTypes, NEW i, NEW v, v # NoVector, StoreEmbedding(i, v)
  PROVE  VectorTypes' /\ VectorsAreNotLost
  <1> DEFINE r == [vector |-> v, status |-> "SUCCESS", error |-> NoError]
  <1>1. vectorRow' = [vectorRow EXCEPT ![i] = r]
    BY DEF StoreEmbedding
  <1>2. r.vector # NoVector /\ IsVectorRow(r)
    BY DEF IsVectorRow
  <1> HIDE DEF r
  <1>3. \A j \in EmbedRow : vectorRow'[j] = IF j = i THEN r ELSE vectorRow[j]
    BY <1>1 DEF VectorTypes
  <1>4. vectorRow' = [j \in EmbedRow |-> vectorRow'[j]]
    BY <1>1 DEF VectorTypes
  <1>5. \A j \in EmbedRow : IsVectorRow(vectorRow'[j])
    BY <1>2, <1>3 DEF VectorTypes
  <1>6. VectorsAreNotLost
    BY <1>2, <1>3 DEF VectorsAreNotLost
  <1> QED BY <1>4, <1>5, <1>6 DEF VectorTypes, IsVectorRow

LEMMA MarkKeeps ==
  ASSUME VectorTypes, NEW i, MarkEmbeddingFailed(i)
  PROVE  VectorTypes' /\ VectorsAreNotLost
  <1>1. CASE UNCHANGED vectorRow
    BY <1>1 DEF VectorTypes, VectorsAreNotLost, IsVectorRow
  <1>2. CASE vectorRow' = [vectorRow EXCEPT ![i].status = "FAILED",
               ![i].error = IF lastEmbedError = NoError THEN "unavailable" ELSE lastEmbedError]
    <2>1. PICK w : w = IF lastEmbedError = NoError THEN "unavailable" ELSE lastEmbedError
      OBVIOUS
    <2>2. CASE i \in EmbedRow
      <3>1. PICK q : q = vectorRow[i]
        OBVIOUS
      <3>2. q = [vector |-> q.vector, status |-> q.status, error |-> q.error]
        BY <2>2, <3>1 DEF VectorTypes, IsVectorRow
      <3>3. PICK r : r = [vector |-> q.vector, status |-> "FAILED", error |-> w]
        BY Zenon
      <3>4. [[q EXCEPT !.status = "FAILED"] EXCEPT !.error = w] = r
        <4>1. PICK v, t, n : q = [vector |-> v, status |-> t, error |-> n]
          BY <3>2
        <4>2. q.vector = v
          BY <4>1
        <4>3. [q EXCEPT !.status = "FAILED"] = [vector |-> v, status |-> "FAILED", error |-> n]
          BY <4>1
        <4>4. PICK u : u = [q EXCEPT !.status = "FAILED"]
          BY Zenon
        <4>5. u = [vector |-> v, status |-> "FAILED", error |-> n]
          BY <4>3, <4>4, Zenon
        <4>6. [u EXCEPT !.error = w] = [vector |-> v, status |-> "FAILED", error |-> w]
          BY <4>5
        <4> QED BY <4>2, <4>4, <4>6, <3>3
      <3>5. vectorRow' = [vectorRow EXCEPT ![i] = r]
        BY <1>2, <2>1, <2>2, <3>1, <3>4, Zenon DEF VectorTypes
      <3>6. \A j \in EmbedRow : vectorRow'[j] = IF j = i THEN r ELSE vectorRow[j]
        BY <3>5 DEF VectorTypes
      <3>7. vectorRow' = [j \in EmbedRow |-> vectorRow'[j]]
        BY <3>5 DEF VectorTypes
      <3>8. IsVectorRow(r) /\ r.vector = q.vector
        BY <3>3 DEF IsVectorRow
      <3>9. \A j \in EmbedRow : IsVectorRow(vectorRow'[j]) /\ vectorRow'[j].vector = vectorRow[j].vector
        BY <3>1, <3>6, <3>8 DEF VectorTypes
      <3> QED BY <3>7, <3>9 DEF VectorTypes, VectorsAreNotLost, IsVectorRow
    <2>3. CASE i \notin EmbedRow
      <3>1. vectorRow' = vectorRow
        BY <1>2, <2>3 DEF VectorTypes
      <3> QED BY <3>1 DEF VectorTypes, VectorsAreNotLost, IsVectorRow
    <2> QED BY <2>2, <2>3
  <1> QED BY <1>1, <1>2 DEF MarkEmbeddingFailed

LEMMA VectorMoves == ASSUME VectorTypes, VectorsNext PROVE VectorTypes' /\ VectorsAreNotLost
  <1>1. CASE UNCHANGED vectorRow
    BY <1>1 DEF VectorTypes, VectorsAreNotLost, IsVectorRow
  <1>2. ASSUME NEW e \in Embedder, StoreNext(e) PROVE VectorTypes' /\ VectorsAreNotLost
    <2>1. PICK a, i : /\ a = embedding[e].answers[1]
                      /\ i = embedding[e].batch[1].id
                      /\ IF a # NoVector THEN StoreEmbedding(i, a) ELSE MarkEmbeddingFailed(i)
      BY <1>2, Zenon DEF StoreNext
    <2> QED BY <2>1, StoreVectorKeeps, MarkKeeps
  <1> QED BY <1>1, <1>2, Zenon DEF VectorsNext, EmbedAll, EmbedOne, AskModel, Reword

LEMMA VectorStep == VectorTypes /\ (VectorsNext \/ UNCHANGED vectorVars) => VectorTypes'
  <1>1. VectorTypes /\ UNCHANGED vectorVars => VectorTypes'
    BY DEF VectorTypes, vectorVars, IsVectorRow
  <1> QED BY <1>1, VectorMoves

-----------------------------------------------------------------------------
(* Each of them where its part is exercised. *)

LEMMA OcrHeld == Spec => [](part = "ocr" => OcrInv)
  <1>1. Init => (part = "ocr" => OcrInv)
    BY OcrStart DEF Init
  <1>2. (part = "ocr" => OcrInv) /\ [Next]_vars => (part = "ocr" => OcrInv)'
    BY OcrStep DEF Next, vars
  <1> QED BY <1>1, <1>2, PTL DEF Spec

LEMMA LettersHeld == Spec => [](part = "letters" => LetterInv)
  <1>1. Init => (part = "letters" => LetterInv)
    BY LetterStart DEF Init
  <1>2. (part = "letters" => LetterInv) /\ [Next]_vars => (part = "letters" => LetterInv)'
    BY LetterStep DEF Next, vars
  <1> QED BY <1>1, <1>2, PTL DEF Spec

LEMMA BuilderHeld == Spec => [](part = "documents" => DocumentInv)
  <1>1. Init => (part = "documents" => DocumentInv)
    BY DocumentStart DEF Init
  <1>2. (part = "documents" => DocumentInv) /\ [Next]_vars => (part = "documents" => DocumentInv)'
    BY DocumentStep DEF Next, vars
  <1> QED BY <1>1, <1>2, PTL DEF Spec

LEMMA BellHeld == Spec => [](part = "bell" => BellInv)
  <1>1. Init => (part = "bell" => BellInv)
    BY BellStart DEF Init
  <1>2. (part = "bell" => BellInv) /\ [Next]_vars => (part = "bell" => BellInv)'
    BY BellStep DEF Next, vars
  <1> QED BY <1>1, <1>2, PTL DEF Spec

LEMMA LimitsHeld == Spec => [](part = "limits" => LimitInv)
  <1>1. Init => (part = "limits" => LimitInv)
    BY LimitStart DEF Init
  <1>2. (part = "limits" => LimitInv) /\ [Next]_vars => (part = "limits" => LimitInv)'
    BY LimitStep DEF Next, vars
  <1> QED BY <1>1, <1>2, PTL DEF Spec

LEMMA VectorsHeld == Spec => [](part = "vectors" => VectorTypes) /\ [][part = "vectors" => VectorsAreNotLost]_vars
  <1>1. Init => (part = "vectors" => VectorTypes)
    BY VectorStart DEF Init
  <1>2. (part = "vectors" => VectorTypes) /\ [Next]_vars => (part = "vectors" => VectorTypes)'
    BY VectorStep DEF Next, vars
  <1>3. (part = "vectors" => VectorTypes) /\ [Next]_vars => [part = "vectors" => VectorsAreNotLost]_vars
    <2> SUFFICES ASSUME part = "vectors", VectorTypes, Next PROVE VectorsAreNotLost
      BY DEF vars
    <2> QED BY VectorMoves DEF Next
  <1> QED BY <1>1, <1>2, <1>3, PTL DEF Spec
=============================================================================
