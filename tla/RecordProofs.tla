----------------------------- MODULE RecordProofs -----------------------------
(***************************************************************************)
(* Theorems about Services: a match report is handed out again only while  *)
(* it is current; what a run of ingestion, a company, a posting and a list *)
(* read by the model say is what happened; and a candidate's documents,    *)
(* letters, notices and limits are as they were made.                      *)
(*                                                                         *)
(* As in AccountProofs, each part is proved on its own, from the invariant *)
(* of that part, because the others rest.                                  *)
(***************************************************************************)
EXTENDS ServicesProofs

-----------------------------------------------------------------------------
(* The largest of a set of numbers. *)

\* The largest has the fewest from itself upwards.
LEMMA LargestOf ==
  ASSUME NEW U \in SUBSET Nat, U # {}, IsFiniteSet(U)
  PROVE Max(U) \in U /\ \A k \in U : Max(U) >= k
  <1>1. PICK above : above = [k \in U |-> {j \in U : j >= k}]
    BY Zenon
  <1>2. \A k \in U : above[k] \subseteq U /\ IsFiniteSet(above[k]) /\ Cardinality(above[k]) \in Nat
    BY <1>1, FS_Subset, FS_CardinalityType
  <1>3. PICK sizes : sizes = {Cardinality(above[k]) : k \in U}
    BY Zenon
  <1>4. sizes \in SUBSET Nat /\ sizes # {}
    BY <1>2, <1>3, Zenon
  <1>5. PICK n \in sizes : \A m \in sizes : n <= m
    BY <1>4, SmallestOf
  <1>6. PICK top \in U : n = Cardinality(above[top])
    BY <1>3
  <1>7. ASSUME NEW k \in U PROVE top >= k
    <2>1. CASE k > top
      <3>0. k \in Nat /\ top \in Nat /\ \A j \in U : j \in Nat
        OBVIOUS
      <3>1. above[k] \subseteq above[top] /\ top \in above[top] /\ top \notin above[k]
        <4>1. \A j \in U : j >= k => j >= top
          BY <2>1, <3>0
        <4>2. top >= top /\ ~(top >= k)
          BY <2>1, <3>0
        <4> QED BY <1>1, <4>1, <4>2, Zenon
      <3>2. Cardinality(above[k]) < Cardinality(above[top])
        <4>1. /\ Cardinality(above[k]) <= Cardinality(above[top])
              /\ Cardinality(above[k]) = Cardinality(above[top]) => above[top] = above[k]
          BY <1>2, <3>1, FS_Subset
        <4> QED BY <1>2, <3>1, <4>1
      <3>3. n <= Cardinality(above[k])
        BY <1>3, <1>5
      <3>4. PICK c \in Nat : c = Cardinality(above[k])
        BY <1>2, Zenon
      <3>5. c < n /\ n <= c /\ n \in Nat
        BY <1>2, <1>6, <3>2, <3>3, <3>4
      <3> QED BY <3>5
    <2> QED BY <2>1
  <1>8. \E x \in U : \A y \in U : x >= y
    BY <1>7
  <1> QED BY <1>8, Zenon DEF Max

-----------------------------------------------------------------------------
(* Reports: what they were made from, and what is judged by now. *)

ResumeState == [status : {"absent", "unread", "parsed", "deleted"}, default : BOOLEAN, at : 0 .. LastTick, text : 0 .. MaxEdits]
LookingUp ==
  [pc : {"look"}, posting : Advert, resume : Resume \cup {NoResume}, overtaken : BOOLEAN, text : 0 .. MaxEdits,
   resumeAt : 0 .. LastTick, chosen : BOOLEAN]
InParts ==
  [pc : {"parts"}, posting : Advert, resume : Resume \cup {NoResume}, text : 0 .. MaxEdits, chosen : BOOLEAN,
   overtaken : BOOLEAN, todo : SUBSET {"score", "match"}, vector : 0 .. MaxEdits, counted : Resume \cup {NoResume}]

ReportTypes ==
  /\ now \in 1 .. LastTick /\ edits \in 0 .. MaxEdits /\ builder \in {1, 2}
  /\ resume \in [Resume -> ResumeState] /\ \A x \in Resume : resume[x].at <= now
  /\ profile \in [at : 1 .. LastTick, content : 0 .. MaxEdits, stamped : 0 .. MaxEdits, vector : 0 .. MaxEdits]
  /\ profile.at <= now
  /\ report \subseteq MatchReport /\ \A r \in report : r.at <= now
  /\ scan \in [Scan -> {NoScan} \cup LookingUp \cup InParts]

OneDefault == \A x, y \in Resume : resume[x].default /\ resume[y].default => x = y

\* What was made from m.resume as m.text stands by resume x as it is: it is about x as x reads now,
\* or about one that would have been picked before x.
TextOf(x) == IF x \in Readable THEN resume[x].text ELSE 0
StillAbout(m, x) ==
  IF m.resume = x THEN m.text = TextOf(x)
  ELSE ~m.chosen => /\ ~(resume[x].default /\ x \in Readable)
                    /\ x \in Readable => m.resume > x
                    /\ resume[x].default => m.resume # NoResume
NothingPicked(m) == m.resume = NoResume => m.text = 0 /\ ~m.chosen

\* A report no edit has overtaken fits every resume that was not stamped since.
RowStands(r) ==
  ~r.overtaken =>
    /\ NothingPicked(r) /\ (r.chosen => r.counted = r.resume)
    /\ r.at >= profile.at => r.vector >= profile.stamped
    /\ \A x \in Listed : resume[x].at <= r.at => StillAbout(r, x)

\* So does a request, whatever the stamps; what it may reuse fits the resume it picked.
RequestStands(q) ==
  q # NoScan /\ ~q.overtaken =>
    /\ NothingPicked(q) /\ (q.chosen => q.resume \in Chosen \cap Readable)
    /\ \A x \in Listed : StillAbout(q, x)
    /\ q.pc = "look" =>
         /\ q.resume = PickResume /\ q.text = TextOf(q.resume)
         /\ q.resume # NoResume => \A r \in report : ~r.overtaken /\ r.at >= q.resumeAt => StillAbout(r, q.resume)
    /\ q.pc = "parts" /\ "match" \notin q.todo => q.vector >= profile.stamped /\ (q.chosen => q.counted = q.resume)

RowsStand == \A r \in report : RowStands(r)
RequestsStand == \A g \in Scan : RequestStands(scan[g])
ReportInv == ReportTypes /\ OneDefault /\ RowsStand /\ RequestsStand /\ ReusedReportsAreCurrent

LEMMA ReadableOnes ==
  ASSUME ReportTypes
  PROVE  /\ Readable \subseteq Listed /\ Chosen \subseteq Listed /\ Listed \subseteq Resume /\ Resume \in SUBSET Nat /\ NoResume \notin Resume
         /\ IsFiniteSet(Readable) /\ IsFiniteSet(Chosen) /\ NoResume \in Nat
         /\ Readable # {} => Max(Readable) \in Readable /\ \A k \in Readable : Max(Readable) >= k
         /\ Chosen # {} => Max(Chosen) \in Chosen
  <1>1. /\ Readable \subseteq Listed /\ Chosen \subseteq Listed /\ Listed \subseteq Resume /\ Resume \in SUBSET Nat /\ NoResume \notin Resume
        /\ NoResume \in Nat
    BY ReportsAssumption DEF Readable, Listed, Chosen, NoResume
  <1>2. IsFiniteSet(Readable) /\ IsFiniteSet(Chosen)
    BY <1>1, ReportsAssumption, FS_Subset, Zenon
  <1>3. Readable # {} => Max(Readable) \in Readable /\ \A k \in Readable : Max(Readable) >= k
    BY <1>1, <1>2, LargestOf
  <1>4. Chosen # {} => Max(Chosen) \in Chosen
    BY <1>1, <1>2, LargestOf
  <1> QED BY <1>1, <1>2, <1>3, <1>4

\* The default if it is read, else the newest that is, else the default.
LEMMA WhoIsPicked ==
  ASSUME ReportTypes, OneDefault, NEW x, x = PickResume
  PROVE  \/ x = NoResume /\ Readable = {} /\ Chosen = {}
         \/ x \in Chosen \cap Readable /\ Chosen = {x}
         \/ Chosen \cap Readable = {} /\ x \in Readable /\ \A y \in Readable : x >= y
         \/ Readable = {} /\ x \in Chosen
  <1>1. \A y, z \in Chosen : y = z
    BY ReadableOnes DEF Chosen, OneDefault
  <1>2. CASE Chosen \cap Readable # {}
    <2>1. x = Max(Chosen)
      BY <1>2 DEF PickResume
    <2>2. x \in Chosen
      BY <1>2, <2>1, ReadableOnes
    <2> QED BY <1>1, <1>2, <2>2
  <1>3. CASE Chosen \cap Readable = {} /\ Readable # {}
    BY <1>3, ReadableOnes DEF PickResume
  <1>4. CASE Readable = {} /\ Chosen # {}
    BY <1>4, ReadableOnes DEF PickResume
  <1>5. CASE Readable = {} /\ Chosen = {}
    BY <1>5 DEF PickResume
  <1> QED BY <1>2, <1>3, <1>4, <1>5

LEMMA PickedFits ==
  ASSUME ReportTypes, OneDefault, NEW m, m.resume = PickResume, m.text = TextOf(m.resume),
         m.chosen <=> m.resume \in Chosen \cap Readable
  PROVE  NothingPicked(m) /\ \A z \in Listed : StillAbout(m, z)
  <1>1. PICK x : x = m.resume
    OBVIOUS
  <1>2. \/ x = NoResume /\ Readable = {} /\ Chosen = {}
        \/ x \in Chosen \cap Readable /\ Chosen = {x}
        \/ Chosen \cap Readable = {} /\ x \in Readable /\ \A y \in Readable : x >= y
        \/ Readable = {} /\ x \in Chosen
    BY <1>1, WhoIsPicked
  <1>3. NothingPicked(m)
    BY <1>1, ReadableOnes DEF NothingPicked, TextOf
  <1>4. ASSUME NEW z \in Listed, z # x, ~m.chosen
        PROVE  ~(resume[z].default /\ z \in Readable) /\ (z \in Readable => x > z) /\ (resume[z].default => x # NoResume)
    <2>1. z \in Resume /\ z \in Nat /\ (resume[z].default => z \in Chosen)
      BY ReadableOnes DEF Chosen
    <2>2. CASE x = NoResume /\ Readable = {} /\ Chosen = {}
      BY <2>1, <2>2
    <2>3. CASE x \in Chosen \cap Readable
      BY <1>1, <1>4, <2>3
    <2>4. CASE Chosen \cap Readable = {} /\ x \in Readable /\ \A y \in Readable : x >= y
      <3>1. x \in Nat /\ x # NoResume
        BY <2>4, ReadableOnes
      <3> QED BY <1>4, <2>1, <2>4, <3>1
    <2>5. CASE Readable = {} /\ x \in Chosen
      BY <2>5, ReadableOnes
    <2> QED BY <1>2, <2>2, <2>3, <2>4, <2>5
  <1> QED BY <1>1, <1>3, <1>4 DEF StillAbout

LEMMA ReportStart == ReportsInit => ReportInv
  <1> SUFFICES ASSUME ReportsInit PROVE ReportInv
    OBVIOUS
  <1>1. ReportTypes
    <2>1. resume \in [Resume -> ResumeState] /\ \A x \in Resume : resume[x].at <= now
      BY ReportsAssumption DEF ReportsInit, ResumeState, NotUploaded
    <2> QED BY <2>1, ReportsAssumption DEF ReportsInit, ReportTypes
  <1>2. OneDefault
    BY DEF ReportsInit, OneDefault, NotUploaded
  <1>3. RowsStand /\ RequestsStand
    BY DEF ReportsInit, RowsStand, RequestsStand, RequestStands
  <1>4. ReusedReportsAreCurrent
    BY DEF ReportsInit, ReusedReportsAreCurrent, NotServed
  <1> QED BY <1>1, <1>2, <1>3, <1>4 DEF ReportInv

-----------------------------------------------------------------------------
(* Steps that change no resume but for its stamp, and no stamp of the profile. *)

SameResumes ==
  \A x \in Resume : /\ resume'[x].status = resume[x].status /\ resume'[x].default = resume[x].default
                    /\ resume'[x].text = resume[x].text /\ resume'[x].at >= resume[x].at
SameProfile == profile'.at = profile.at /\ profile'.stamped = profile.stamped

LEMMA SameView ==
  ASSUME ReportTypes, SameResumes
  PROVE  /\ Readable' = Readable /\ Listed' = Listed /\ Chosen' = Chosen /\ PickResume' = PickResume
         /\ \A x : (TextOf(x))' = TextOf(x)
         /\ \A m, x : x \in Resume => (StillAbout(m, x)' <=> StillAbout(m, x))
  <1>1. Readable' = Readable /\ Listed' = Listed
    BY DEF SameResumes, Readable, Listed
  <1>2. Chosen' = Chosen
    BY <1>1, ReadableOnes DEF SameResumes, Chosen
  <1>3. PickResume' = PickResume
    BY <1>1, <1>2 DEF PickResume
  <1>4. \A x : (TextOf(x))' = TextOf(x)
    BY <1>1, ReadableOnes DEF SameResumes, TextOf
  <1>5. \A m, x : x \in Resume => (StillAbout(m, x)' <=> StillAbout(m, x))
    BY <1>1, <1>4 DEF SameResumes, StillAbout
  <1> QED BY <1>1, <1>2, <1>3, <1>4, <1>5

LEMMA QuietRows ==
  ASSUME ReportInv, ReportTypes', SameResumes, SameProfile
  PROVE  OneDefault' /\ \A r \in report : RowStands(r)'
  <1>1. OneDefault'
    BY DEF ReportInv, OneDefault, SameResumes
  <1>2. ASSUME NEW r \in report PROVE RowStands(r)'
    <2>1. RowStands(r) /\ r.at \in Nat
      BY <1>2 DEF ReportInv, RowsStand, ReportTypes, MatchReport
    <2>2. ASSUME ~r.overtaken, NEW x \in Listed', resume'[x].at <= r.at PROVE StillAbout(r, x)'
      <3>1. x \in Listed /\ x \in Resume
        BY <2>2, SameView, ReadableOnes DEF ReportInv
      <3>2. resume'[x].at \in Nat /\ resume[x].at \in Nat
        BY <3>1 DEF ReportInv, ReportTypes, ResumeState
      <3>3. resume[x].at <= r.at
        BY <2>1, <2>2, <3>1, <3>2 DEF SameResumes
      <3>4. StillAbout(r, x)
        BY <2>1, <2>2, <3>1, <3>3 DEF RowStands
      <3> QED BY <3>1, <3>4, SameView DEF ReportInv
    <2>3. NothingPicked(r)' <=> NothingPicked(r)
      BY DEF NothingPicked
    <2> QED BY <2>1, <2>2, <2>3 DEF RowStands, SameProfile
  <1> QED BY <1>1, <1>2

LEMMA QuietRequest ==
  ASSUME ReportInv, ReportTypes', SameResumes, SameProfile, NEW q, RequestStands(q),
         q.resume \in Resume \cup {NoResume},
         \A r \in report' : r \in report \/ r.overtaken \/ \A x \in Listed : StillAbout(r, x)
  PROVE  RequestStands(q)'
  <1> SUFFICES ASSUME q # NoScan, ~q.overtaken
               PROVE  RequestStands(q)'
    BY DEF RequestStands
  <1>1. NothingPicked(q)' /\ (q.chosen => q.resume \in Chosen' \cap Readable')
    BY SameView DEF RequestStands, ReportInv, NothingPicked
  <1>2. \A x \in Listed' : StillAbout(q, x)'
    BY SameView, ReadableOnes DEF RequestStands, ReportInv
  <1>3. ASSUME q.pc = "look"
        PROVE  /\ q.resume = PickResume' /\ q.text = TextOf(q.resume)'
               /\ q.resume # NoResume => \A r \in report' : ~r.overtaken /\ r.at >= q.resumeAt => StillAbout(r, q.resume)'
    <2>1. q.resume = PickResume' /\ q.text = TextOf(q.resume)'
      BY <1>3, SameView DEF RequestStands, ReportInv
    <2>2. ASSUME q.resume # NoResume, NEW r \in report', ~r.overtaken, r.at >= q.resumeAt PROVE StillAbout(r, q.resume)'
      <3>1. q.resume \in Listed /\ q.resume \in Resume
        <4>1. PickResume \in Chosen \cup Readable \cup {NoResume}
          BY WhoIsPicked DEF ReportInv
        <4> QED BY <1>3, <2>2, <4>1, ReadableOnes DEF RequestStands, ReportInv
      <3>2. StillAbout(r, q.resume)
        BY <1>3, <2>2, <3>1 DEF RequestStands
      <3> QED BY <3>1, <3>2, SameView DEF ReportInv
    <2> QED BY <2>1, <2>2
  <1>4. q.pc = "parts" /\ "match" \notin q.todo => q.vector >= profile'.stamped /\ (q.chosen => q.counted = q.resume)
    BY DEF RequestStands, SameProfile
  <1> QED BY <1>1, <1>2, <1>3, <1>4 DEF RequestStands

-----------------------------------------------------------------------------
(* An edit: what it falls into is overtaken, and what was made before is older than its stamp. *)

LEMMA EditKeeps ==
  ASSUME ReportInv, Edit, ReportTypes', OneDefault',
         \A x \in Resume : \/ resume'[x].at = now \/ resume'[x] = resume[x] \/ resume'[x].status = "deleted",
         profile'.at = now \/ SameProfile
  PROVE  ReportInv'
  <1>1. RowsStand'
    <2> SUFFICES ASSUME NEW r \in report', ~r.overtaken PROVE RowStands(r)'
      BY DEF RowsStand, RowStands
    <2>1. PICK s \in report : r = IF s.at = now THEN [s EXCEPT !.overtaken = TRUE] ELSE s
      BY DEF Edit, Overtake
    <2>2. s \in MatchReport /\ s.at \in Nat /\ now \in Nat /\ s.at <= now
      BY <2>1 DEF ReportInv, ReportTypes, MatchReport
    <2>3. s.at # now /\ r = s
      BY <2>1, <2>2 DEF MatchReport
    <2>4. r.at < now /\ r.at \in Nat /\ RowStands(r) /\ r \in report
      BY <2>2, <2>3 DEF ReportInv, RowsStand
    <2>5. NothingPicked(r)' /\ (r.chosen => r.counted = r.resume)
      BY <2>4 DEF RowStands, NothingPicked
    <2>6. r.at >= profile'.at => r.vector >= profile'.stamped
      BY <2>2, <2>4 DEF RowStands, SameProfile
    <2>7. ASSUME NEW x \in Listed', resume'[x].at <= r.at PROVE StillAbout(r, x)'
      <3>1. x \in Resume /\ resume'[x].status \in {"unread", "parsed"}
        BY <2>7 DEF Listed
      <3>2. resume'[x] = resume[x]
        BY <2>2, <2>4, <2>7, <3>1
      <3>3. x \in Listed
        BY <3>1, <3>2 DEF Listed
      <3>4. StillAbout(r, x)
        BY <2>4, <2>7, <3>2, <3>3 DEF RowStands
      <3>5. (x \in Readable)' <=> x \in Readable
        BY <3>1, <3>2 DEF Readable
      <3>6. (TextOf(x))' = TextOf(x)
        BY <3>2, <3>5 DEF TextOf
      <3> QED BY <3>2, <3>4, <3>5, <3>6 DEF StillAbout
    <2> QED BY <2>5, <2>6, <2>7 DEF RowStands
  <1>2. RequestsStand'
    <2>1. ASSUME NEW g \in Scan PROVE scan'[g] = NoScan \/ scan'[g].overtaken
      <3>1. scan[g] \in {NoScan} \cup LookingUp \cup InParts
        BY DEF ReportInv, ReportTypes
      <3> QED BY <3>1 DEF Edit, Overtake, Open, LookingUp, InParts
    <2> QED BY <2>1 DEF RequestsStand, RequestStands
  <1>3. ReusedReportsAreCurrent'
    BY DEF ReportInv, Edit, ReusedReportsAreCurrent
  <1> QED BY <1>1, <1>2, <1>3 DEF ReportInv

\* What an edit leaves of the types.
LEMMA EditTypes ==
  ASSUME ReportTypes, Edit
  PROVE  /\ now' = now /\ now \in 1 .. LastTick /\ edits' \in 0 .. MaxEdits /\ edits + 1 \in 0 .. MaxEdits /\ builder' \in {1, 2}
         /\ report' \subseteq MatchReport /\ (\A r \in report' : r.at <= now')
         /\ scan' \in [Scan -> {NoScan} \cup LookingUp \cup InParts]
  <1>1. now' = now /\ now \in 1 .. LastTick /\ edits + 1 \in 0 .. MaxEdits /\ edits' = edits + 1 /\ builder' \in {1, 2}
    BY ReportsAssumption DEF ReportTypes, Edit
  <1>2. ASSUME NEW r \in report' PROVE r \in MatchReport /\ r.at <= now
    <2>1. PICK s \in report : r = IF s.at = now THEN [s EXCEPT !.overtaken = TRUE] ELSE s
      BY DEF Edit, Overtake
    <2>2. s \in MatchReport /\ s.at <= now
      BY <2>1 DEF ReportTypes
    <2> QED BY <2>1, <2>2, Zenon DEF MatchReport
  <1>3. ASSUME NEW g \in Scan
        PROVE  (IF Open(g) THEN [scan[g] EXCEPT !.overtaken = TRUE] ELSE scan[g]) \in {NoScan} \cup LookingUp \cup InParts
    <2>1. scan[g] \in {NoScan} \cup LookingUp \cup InParts
      BY DEF ReportTypes
    <2> QED BY <2>1, Zenon DEF Open, LookingUp, InParts
  <1>4. scan' \in [Scan -> {NoScan} \cup LookingUp \cup InParts]
    BY <1>3 DEF Edit, Overtake
  <1> QED BY <1>1, <1>2, <1>4

LEMMA ParseKeeps == ASSUME ReportInv, NEW x \in Resume, Parse(x) PROVE ReportInv'
  <1>0. Edit /\ ReportTypes /\ OneDefault /\ profile' = profile
    BY DEF Parse, ReportInv
  <1>1. resume[x] \in ResumeState /\ x \in DOMAIN resume
    BY <1>0 DEF ReportTypes
  <1>2. PICK rewritten :
          /\ resume' = [resume EXCEPT ![x] = rewritten]
          /\ rewritten = [resume[x] EXCEPT !.status = IF resume[x].status = "unread" THEN "parsed" ELSE "unread", !.at = now,
                                           !.text = IF resume[x].status = "unread" THEN edits + 1 ELSE resume[x].text]
    BY Zenon DEF Parse
  <1>3. PICK status, text : /\ rewritten = [resume[x] EXCEPT !.status = status, !.at = now, !.text = text]
                            /\ status \in {"parsed", "unread"} /\ text \in 0 .. MaxEdits
    BY <1>0, <1>1, <1>2, EditTypes, Zenon DEF ResumeState
  <1>4. rewritten \in ResumeState /\ rewritten.at = now /\ rewritten.default = resume[x].default
    <2>1. now \in 0 .. LastTick
      BY <1>0, EditTypes, ReportsAssumption
    <2> QED BY <1>1, <1>3, <2>1, Zenon DEF ResumeState
  <1>5. \A y \in Resume : resume'[y] = IF y = x THEN rewritten ELSE resume[y]
    BY <1>0, <1>2 DEF ReportTypes
  <1>6. ReportTypes'
    <2>1. resume' \in [Resume -> ResumeState]
      BY <1>0, <1>2, <1>4 DEF ReportTypes
    <2>2. \A y \in Resume : resume'[y].at <= now'
      BY <1>0, <1>4, <1>5, EditTypes DEF ReportTypes
    <2> QED BY <1>0, <2>1, <2>2, EditTypes DEF ReportTypes
  <1>7. OneDefault'
    BY <1>0, <1>4, <1>5 DEF OneDefault
  <1> QED BY <1>0, <1>4, <1>5, <1>6, <1>7, EditKeeps DEF SameProfile

LEMMA SetDefaultKeeps == ASSUME ReportInv, NEW x \in Resume, SetDefaultTo(x) PROVE ReportInv'
  <1>0. Edit /\ ReportTypes /\ OneDefault /\ profile' = profile
    BY Zenon DEF SetDefaultTo, ReportInv
  <1>1. \A y \in Resume : resume'[y] = IF y = x THEN [resume[y] EXCEPT !.default = TRUE, !.at = now]
                                       ELSE IF resume[y].default THEN [resume[y] EXCEPT !.default = FALSE, !.at = now]
                                       ELSE resume[y]
    BY Zenon DEF SetDefaultTo
  <1>2. \A y \in Resume : /\ resume[y] \in ResumeState /\ resume'[y] \in ResumeState /\ resume'[y].at \in {now, resume[y].at}
                          /\ (resume'[y].at = now \/ resume'[y] = resume[y])
                          /\ (resume'[y].default <=> y = x)
    <2>1. now \in 0 .. LastTick
      BY <1>0, EditTypes, ReportsAssumption
    <2>2. \A y \in Resume : resume[y] \in ResumeState
      BY <1>0 DEF ReportTypes
    <2> QED BY <1>1, <2>1, <2>2, Zenon DEF ResumeState
  <1>3. ReportTypes'
    <2>1. resume' \in [Resume -> ResumeState]
      BY <1>2, Zenon DEF SetDefaultTo
    <2>2. \A y \in Resume : resume'[y].at <= now'
      BY <1>0, <1>2, EditTypes DEF ReportTypes
    <2> QED BY <1>0, <2>1, <2>2, EditTypes DEF ReportTypes
  <1>4. OneDefault'
    BY <1>2 DEF OneDefault
  <1> QED BY <1>0, <1>2, <1>3, <1>4, EditKeeps DEF SameProfile

LEMMA DeleteKeeps == ASSUME ReportInv, NEW x \in Resume, DeleteResume(x) PROVE ReportInv'
  <1>0. Edit /\ ReportTypes /\ OneDefault /\ profile' = profile
    BY DEF DeleteResume, ReportInv
  <1>1. PICK rewritten : rewritten = [resume[x] EXCEPT !.status = "deleted"]
    BY Zenon
  <1>2. resume[x] \in ResumeState /\ x \in DOMAIN resume
    BY <1>0 DEF ReportTypes
  <1>3. rewritten \in ResumeState /\ rewritten.at = resume[x].at /\ rewritten.default = resume[x].default /\ rewritten.status = "deleted"
    BY <1>1, <1>2 DEF ResumeState
  <1>4. resume' = [resume EXCEPT ![x] = rewritten]
    BY <1>1 DEF DeleteResume
  <1>5. \A y \in Resume : resume'[y] = IF y = x THEN rewritten ELSE resume[y]
    BY <1>0, <1>4 DEF ReportTypes
  <1>6. ReportTypes'
    <2>1. resume' \in [Resume -> ResumeState]
      BY <1>0, <1>3, <1>4 DEF ReportTypes
    <2>2. \A y \in Resume : resume'[y].at <= now'
      BY <1>0, <1>3, <1>5, EditTypes DEF ReportTypes
    <2> QED BY <1>0, <2>1, <2>2, EditTypes DEF ReportTypes
  <1>7. OneDefault'
    BY <1>0, <1>3, <1>5 DEF OneDefault
  <1> QED BY <1>0, <1>3, <1>5, <1>6, <1>7, EditKeeps DEF SameProfile

LEMMA ProfileKeeps == ASSUME ReportInv, EditProfile \/ EditSection PROVE ReportInv'
  <1>0. Edit /\ ReportTypes /\ OneDefault /\ resume' = resume
    BY DEF EditProfile, EditSection, ReportInv
  <1>1. profile \in [at : 1 .. LastTick, content : 0 .. MaxEdits, stamped : 0 .. MaxEdits, vector : 0 .. MaxEdits]
    BY <1>0 DEF ReportTypes
  <1>2. /\ profile' \in [at : 1 .. LastTick, content : 0 .. MaxEdits, stamped : 0 .. MaxEdits, vector : 0 .. MaxEdits]
        /\ profile'.at <= now'
        /\ profile'.at = now \/ SameProfile
    <2>1. CASE EditProfile
      <3>1. now \in 1 .. LastTick /\ edits + 1 \in 0 .. MaxEdits /\ now' = now
        BY <1>0, EditTypes
      <3>2. profile'.at = now /\ now <= now
        BY <1>1, <2>1, <3>1 DEF EditProfile
      <3>3. profile' \in [at : 1 .. LastTick, content : 0 .. MaxEdits, stamped : 0 .. MaxEdits, vector : 0 .. MaxEdits]
        BY <1>1, <2>1, <3>1, Zenon DEF EditProfile
      <3> QED BY <3>1, <3>2, <3>3
    <2>2. CASE EditSection
      BY <1>0, <1>1, <2>2, EditTypes DEF EditSection, ReportTypes, SameProfile
    <2> QED BY <2>1, <2>2
  <1>3. ReportTypes'
    BY <1>0, <1>2, EditTypes DEF ReportTypes
  <1>4. OneDefault'
    BY <1>0 DEF OneDefault
  <1> QED BY <1>0, <1>2, <1>3, <1>4, EditKeeps

-----------------------------------------------------------------------------
(* Steps of the listener, of the clock and of a deployment. *)

LEMMA StillKeeps == ASSUME ReportInv, Embed \/ Deploy \/ Elapse \/ UNCHANGED reportVars PROVE ReportInv'
  <1>0. ReportTypes /\ resume' = resume /\ edits' = edits /\ report' = report /\ served' = served
    BY DEF ReportInv, reportVars, Embed, Deploy, Elapse, inputs
  <1>1. now \in 1 .. LastTick /\ now' \in 1 .. LastTick /\ now' >= now
    BY <1>0, ReportsAssumption DEF ReportTypes, reportVars, Embed, Deploy, Elapse
  <1>2. /\ profile' \in [at : 1 .. LastTick, content : 0 .. MaxEdits, stamped : 0 .. MaxEdits, vector : 0 .. MaxEdits]
        /\ SameProfile
    BY <1>0 DEF ReportTypes, reportVars, Embed, Deploy, Elapse, inputs, SameProfile
  <1>3. scan' \in [Scan -> {NoScan} \cup LookingUp \cup InParts] /\ builder' \in {1, 2}
    BY <1>0 DEF ReportTypes, reportVars, Embed, Deploy, Elapse
  <1>4. ReportTypes'
    <2>1. \A x \in Resume : resume[x].at \in Nat
      BY <1>0 DEF ReportTypes, ResumeState
    <2>2. \A r \in report : r.at \in Nat
      BY <1>0 DEF ReportTypes, MatchReport
    <2>3. (\A x \in Resume : resume'[x].at <= now') /\ (\A r \in report' : r.at <= now') /\ profile'.at <= now'
      BY <1>0, <1>1, <1>2, <2>1, <2>2 DEF ReportTypes, SameProfile
    <2> QED BY <1>0, <1>1, <1>2, <1>3, <2>3 DEF ReportTypes
  <1>5. SameResumes
    BY <1>0 DEF SameResumes, ReportTypes, ResumeState
  <1>6. OneDefault' /\ RowsStand'
    BY <1>0, <1>2, <1>4, <1>5, QuietRows DEF RowsStand
  <1>7. ASSUME NEW g \in Scan PROVE RequestStands(scan[g])'
    <2>1. CASE scan'[g] = NoScan
      BY <2>1 DEF RequestStands
    <2>2. CASE scan'[g] = scan[g] /\ scan[g] # NoScan
      <3>1. PICK q : q = scan[g]
        OBVIOUS
      <3>2. RequestStands(q) /\ q \in {NoScan} \cup LookingUp \cup InParts
        BY <3>1 DEF ReportInv, ReportTypes, RequestsStand
      <3>3. q.resume \in Resume \cup {NoResume}
        BY <2>2, <3>1, <3>2 DEF LookingUp, InParts
      <3>4. RequestStands(q)'
        BY <1>0, <1>2, <1>4, <1>5, <3>2, <3>3, QuietRequest
      <3> QED BY <2>2, <3>1, <3>4
    <2>3. scan'[g] = NoScan \/ scan'[g] = scan[g]
      BY DEF reportVars, Embed, Deploy, Elapse
    <2> QED BY <2>1, <2>2, <2>3 DEF RequestStands
  <1>8. ReusedReportsAreCurrent'
    BY <1>0 DEF ReportInv, ReusedReportsAreCurrent
  <1> QED BY <1>4, <1>6, <1>7, <1>8 DEF ReportInv, RequestsStand

-----------------------------------------------------------------------------
(* Steps of a request: the others, and the rows, stand as they stood. *)

LEMMA OthersStand ==
  ASSUME ReportInv, ReportTypes', SameResumes, SameProfile, NEW g \in Scan, NEW h \in Scan, h # g,
         scan'[h] = scan[h],
         \A r \in report' : r \in report \/ r.overtaken \/ \A x \in Listed : StillAbout(r, x)
  PROVE  RequestStands(scan[h])'
  <1>1. PICK q : q = scan[h]
    OBVIOUS
  <1>2. RequestStands(q) /\ q \in {NoScan} \cup LookingUp \cup InParts
    BY <1>1 DEF ReportInv, ReportTypes, RequestsStand
  <1>3. CASE q = NoScan
    BY <1>1, <1>3 DEF RequestStands
  <1>4. CASE q # NoScan
    <2>1. q.resume \in Resume \cup {NoResume}
      BY <1>2, <1>4 DEF LookingUp, InParts
    <2>2. RequestStands(q)'
      BY <1>2, <2>1, QuietRequest
    <2> QED BY <1>1, <2>2
  <1> QED BY <1>3, <1>4

LEMMA PickKeeps == ASSUME ReportInv, NEW g \in Scan, NEW p \in Advert, Pick(g, p) PROVE ReportInv'
  <1>0. ReportTypes /\ OneDefault /\ UNCHANGED <<now, resume, profile, edits, builder, report, served>>
    BY DEF Pick, ReportInv, inputs
  <1>1. PICK x : x = PickResume
    OBVIOUS
  <1>2. x \in Resume \cup {NoResume} /\ (x # NoResume => x \in Listed)
    BY <1>0, <1>1, WhoIsPicked, ReadableOnes
  <1>3. PICK q : q = [pc |-> "look", posting |-> p, resume |-> x, overtaken |-> FALSE,
                      text |-> IF x \in Readable THEN resume[x].text ELSE 0,
                      resumeAt |-> IF x = NoResume THEN 0 ELSE resume[x].at,
                      chosen |-> x \in Chosen \cap Readable]
    BY Zenon
  <1>4. scan' = [scan EXCEPT ![g] = q]
    BY <1>1, <1>3 DEF Pick
  <1>5. q \in LookingUp
    <2>1. \A y \in Resume : resume[y].text \in 0 .. MaxEdits /\ resume[y].at \in 0 .. LastTick
      BY <1>0 DEF ReportTypes, ResumeState
    <2>2. 0 \in 0 .. MaxEdits /\ 0 \in 0 .. LastTick
      BY ReportsAssumption
    <2>3. (IF x \in Readable THEN resume[x].text ELSE 0) \in 0 .. MaxEdits
      BY <1>0, <2>1, <2>2, ReadableOnes
    <2>4. (IF x = NoResume THEN 0 ELSE resume[x].at) \in 0 .. LastTick
      BY <1>2, <2>1, <2>2
    <2> QED BY <1>2, <1>3, <2>3, <2>4 DEF LookingUp
  <1>6. ReportTypes'
    <2>1. scan' \in [Scan -> {NoScan} \cup LookingUp \cup InParts]
      BY <1>0, <1>4, <1>5 DEF ReportTypes
    <2> QED BY <1>0, <2>1 DEF ReportTypes
  <1>7. SameResumes /\ SameProfile
    BY <1>0 DEF SameResumes, SameProfile, ReportTypes, ResumeState
  <1>8. RequestStands(q)
    <2>1. q # NoScan /\ ~q.overtaken /\ q.pc = "look" /\ q.resume = x /\ q.text = TextOf(x)
      BY <1>3 DEF TextOf, NoScan
    <2>2. q.chosen <=> q.resume \in Chosen \cap Readable
      BY <1>3, Zenon
    <2>3. NothingPicked(q) /\ \A z \in Listed : StillAbout(q, z)
      BY <1>0, <1>1, <2>1, <2>2, PickedFits
    <2>4. ASSUME q.resume # NoResume, NEW r \in report, ~r.overtaken, r.at >= q.resumeAt PROVE StillAbout(r, q.resume)
      <3>1. q.resumeAt = resume[x].at /\ x \in Listed
        BY <1>2, <1>3, <2>1, <2>4
      <3>2. resume[x].at <= r.at
        <4>1. resume[x].at \in Nat /\ r.at \in Nat
          BY <1>0, <3>1, ReadableOnes DEF ReportTypes, ResumeState, MatchReport
        <4> QED BY <2>4, <3>1, <4>1
      <3> QED BY <2>1, <2>4, <3>1, <3>2 DEF ReportInv, RowsStand, RowStands
    <2> QED BY <1>1, <2>1, <2>2, <2>3, <2>4 DEF RequestStands
  <1>9. RequestStands(q)'
    BY <1>0, <1>3, <1>6, <1>7, <1>8, <1>2, QuietRequest
  <1>10. RequestsStand'
    <2>1. ASSUME NEW h \in Scan PROVE RequestStands(scan[h])'
      <3>1. CASE h = g
        BY <1>0, <1>4, <1>9, <3>1 DEF ReportTypes
      <3>2. CASE h # g
        BY <1>0, <1>4, <1>6, <1>7, <3>2, OthersStand
      <3> QED BY <3>1, <3>2
    <2> QED BY <2>1 DEF RequestsStand
  <1>11. OneDefault' /\ RowsStand' /\ ReusedReportsAreCurrent'
    BY <1>0, <1>6, <1>7, QuietRows DEF ReportInv, RowsStand, ReusedReportsAreCurrent
  <1> QED BY <1>6, <1>10, <1>11 DEF ReportInv

\* A report that may be reused is about the resume just picked, or about one that has given way to it.
LEMMA OnlyTheSuperseded ==
  ASSUME ReportTypes, OneDefault, NEW x, x = PickResume, NEW r \in report, NothingPicked(r), x # NoResume => StillAbout(r, x)
  PROVE  \/ r.resume = x /\ r.text = TextOf(x)
         \/ /\ r.resume # NoResume
            /\ r.resume \in Readable => r.chosen /\ ~resume[r.resume].default
  <1>1. PICK y : y = r.resume
    OBVIOUS
  <1>2. \/ x = NoResume /\ Readable = {} /\ Chosen = {}
        \/ x \in Chosen \cap Readable /\ Chosen = {x}
        \/ Chosen \cap Readable = {} /\ x \in Readable /\ \A z \in Readable : x >= z
        \/ Readable = {} /\ x \in Chosen
    BY WhoIsPicked
  <1>3. CASE x = NoResume
    BY <1>1, <1>2, <1>3, ReadableOnes DEF NothingPicked, TextOf
  <1>4. CASE x # NoResume /\ y = x
    BY <1>1, <1>4 DEF StillAbout
  <1>5. CASE x # NoResume /\ y # x
    <2>1. ~r.chosen => /\ ~(resume[x].default /\ x \in Readable)
                       /\ x \in Readable => y > x
                       /\ resume[x].default => y # NoResume
      BY <1>1, <1>5 DEF StillAbout
    <2>2. x \in Resume /\ x \in Nat /\ x > 0 /\ (x \in Chosen => resume[x].default) /\ (x \in Chosen \/ x \in Readable)
      BY <1>2, <1>5, ReadableOnes DEF Chosen, NoResume
    <2>3. y # NoResume
      <3>1. SUFFICES ASSUME y = NoResume PROVE FALSE
        OBVIOUS
      <3>2. ~r.chosen /\ y = 0
        BY <1>1, <3>1 DEF NothingPicked, NoResume
      <3>3. x \notin Readable
        BY <2>1, <2>2, <3>2
      <3> QED BY <2>1, <2>2, <3>1, <3>2, <3>3
    <2>4. ASSUME y \in Readable PROVE r.chosen /\ ~resume[y].default
      <3>1. y \in Listed /\ y \in Nat /\ (resume[y].default => y \in Chosen)
        BY <2>4, ReadableOnes DEF Chosen
      <3>2. CASE r.chosen
        BY <1>2, <1>5, <2>4, <3>1, <3>2
      <3>3. CASE ~r.chosen
        BY <1>2, <1>5, <2>1, <2>2, <2>4, <3>1, <3>3
      <3> QED BY <3>2, <3>3
    <2> QED BY <1>1, <2>3, <2>4
  <1> QED BY <1>3, <1>4, <1>5

LEMMA MaxOfTwo ==
  ASSUME NEW a \in Nat, NEW b \in Nat
  PROVE  Max({a, b}) \in Nat /\ Max({a, b}) >= a /\ Max({a, b}) >= b
  <1>1. IsFiniteSet({a, b})
    <2>1. IsFiniteSet({} \cup {a})
      BY FS_EmptySet, FS_AddElement
    <2>2. IsFiniteSet(({} \cup {a}) \cup {b})
      BY <2>1, FS_AddElement
    <2>3. ({} \cup {a}) \cup {b} = {a, b}
      OBVIOUS
    <2> QED BY <2>2, <2>3
  <1>2. {a, b} \in SUBSET Nat /\ {a, b} # {}
    OBVIOUS
  <1>3. Max({a, b}) \in {a, b} /\ \A k \in {a, b} : Max({a, b}) >= k
    BY <1>1, <1>2, LargestOf
  <1> QED BY <1>3

LEMMA LookKeeps == ASSUME ReportInv, NEW g \in Scan, Look(g) PROVE ReportInv'
  <1>0. ReportTypes /\ OneDefault /\ UNCHANGED <<now, resume, profile, edits, builder, report>>
    BY DEF Look, ReportInv, inputs
  <1>1. PICK q : q = scan[g]
    OBVIOUS
  <1>2. q \in LookingUp /\ RequestStands(q)
    BY <1>1 DEF Look, Goes, ReportInv, ReportTypes, RequestsStand, LookingUp, InParts, NoScan
  <1>3. q.pc = "look" /\ q # NoScan /\ q.resumeAt \in Nat /\ profile.at \in Nat /\ q.resume \in Resume \cup {NoResume}
    BY <1>0, <1>2 DEF LookingUp, NoScan, ReportTypes
  <1>4. SameResumes /\ SameProfile
    BY <1>0 DEF SameResumes, SameProfile, ReportTypes, ResumeState
  <1>5. \/ /\ scan' = [scan EXCEPT ![g] = [pc |-> "parts", posting |-> q.posting, resume |-> q.resume,
                           text |-> q.text, chosen |-> q.chosen, overtaken |-> q.overtaken,
                           todo |-> {"score", "match"}, vector |-> 0, counted |-> NoResume]]
           /\ served' = served
        \/ /\ scan' = [scan EXCEPT ![g] = NoScan]
           /\ \E r \in Reusable(q) :
                served' = [report |-> r, overtaken |-> q.overtaken, resume |-> q.resume, text |-> q.text,
                           stamped |-> profile.stamped, builder |-> builder,
                           superseded |-> /\ r.resume # NoResume
                                          /\ r.resume \in Readable => r.chosen /\ ~resume[r.resume].default]
    BY <1>1 DEF Look
  <1>6. PICK s : /\ scan' = [scan EXCEPT ![g] = s]
                 /\ \/ /\ s = [pc |-> "parts", posting |-> q.posting, resume |-> q.resume,
                               text |-> q.text, chosen |-> q.chosen, overtaken |-> q.overtaken,
                               todo |-> {"score", "match"}, vector |-> 0, counted |-> NoResume]
                       /\ served' = served
                    \/ s = NoScan
    BY <1>5
  <1>7. s \in {NoScan} \cup InParts
    <2>1. 0 \in 0 .. MaxEdits
      BY ReportsAssumption
    <2> QED BY <1>2, <1>6, <2>1 DEF LookingUp, InParts
  <1>8. ReportTypes'
    <2>1. scan' \in [Scan -> {NoScan} \cup LookingUp \cup InParts]
      BY <1>0, <1>6, <1>7 DEF ReportTypes
    <2> QED BY <1>0, <2>1 DEF ReportTypes
  <1>9. RequestStands(s)
    <2>1. CASE s = NoScan
      BY <2>1 DEF RequestStands
    <2>2. CASE s # NoScan
      <3>1. /\ s.overtaken = q.overtaken /\ s.resume = q.resume /\ s.text = q.text /\ s.chosen = q.chosen /\ s.pc = "parts"
            /\ "match" \in s.todo
        BY <1>6, <2>2
      <3>2. ~q.overtaken => NothingPicked(s) /\ (s.chosen => s.resume \in Chosen \cap Readable) /\ \A x \in Listed : StillAbout(s, x)
        BY <1>2, <1>3, <3>1 DEF RequestStands, NothingPicked, StillAbout
      <3> QED BY <3>1, <3>2 DEF RequestStands
    <2> QED BY <2>1, <2>2
  <1>10. RequestsStand'
    <2>1. RequestStands(s)'
      <3>1. CASE s = NoScan
        BY <3>1 DEF RequestStands
      <3>2. CASE s # NoScan
        <4>1. s.resume \in Resume \cup {NoResume}
          BY <1>7, <3>2 DEF InParts
        <4> QED BY <1>0, <1>4, <1>8, <1>9, <4>1, QuietRequest
      <3> QED BY <3>1, <3>2
    <2>2. ASSUME NEW h \in Scan PROVE RequestStands(scan[h])'
      <3>1. CASE h = g
        BY <1>0, <1>6, <2>1, <3>1 DEF ReportTypes
      <3>2. CASE h # g
        BY <1>0, <1>4, <1>6, <1>8, <3>2, OthersStand DEF ReportTypes
      <3> QED BY <3>1, <3>2
    <2> QED BY <2>2 DEF RequestsStand
  <1>11. ReusedReportsAreCurrent'
    <2>1. CASE served' = served
      BY <2>1 DEF ReportInv, ReusedReportsAreCurrent
    <2>2. CASE \E r \in Reusable(q) :
                 served' = [report |-> r, overtaken |-> q.overtaken, resume |-> q.resume, text |-> q.text,
                            stamped |-> profile.stamped, builder |-> builder,
                            superseded |-> /\ r.resume # NoResume
                                           /\ r.resume \in Readable => r.chosen /\ ~resume[r.resume].default]
      <3>1. PICK r \in Reusable(q) :
                 served' = [report |-> r, overtaken |-> q.overtaken, resume |-> q.resume, text |-> q.text,
                            stamped |-> profile.stamped, builder |-> builder,
                            superseded |-> /\ r.resume # NoResume
                                           /\ r.resume \in Readable => r.chosen /\ ~resume[r.resume].default]
        BY <2>2, Zenon
      <3>2. r \in report /\ r.builder = builder /\ r.at >= Max({q.resumeAt, profile.at})
        BY <3>1 DEF Reusable, InputsChangedAt
      <3>3. r.at \in Nat /\ RowStands(r)
        BY <1>0, <3>2 DEF ReportTypes, MatchReport, ReportInv, RowsStand
      <3>4. r.at >= q.resumeAt /\ r.at >= profile.at
        <4>1. Max({q.resumeAt, profile.at}) \in Nat /\ Max({q.resumeAt, profile.at}) >= q.resumeAt
              /\ Max({q.resumeAt, profile.at}) >= profile.at
          BY <1>3, MaxOfTwo
        <4> QED BY <1>3, <3>2, <3>3, <4>1
      <3>5. ASSUME ~q.overtaken, ~r.overtaken
            PROVE  /\ r.vector >= profile.stamped
                   /\ \/ r.resume = q.resume /\ r.text = q.text
                      \/ /\ r.resume # NoResume
                         /\ r.resume \in Readable => r.chosen /\ ~resume[r.resume].default
        <4>1. r.vector >= profile.stamped /\ NothingPicked(r)
          BY <3>3, <3>4, <3>5 DEF RowStands
        <4>2. q.resume = PickResume /\ q.text = TextOf(q.resume) /\ (q.resume # NoResume => StillAbout(r, q.resume))
          BY <1>2, <1>3, <3>2, <3>4, <3>5 DEF RequestStands
        <4> QED BY <1>0, <3>2, <4>1, <4>2, OnlyTheSuperseded
      <3> QED BY <3>1, <3>2, <3>5 DEF ReusedReportsAreCurrent
    <2> QED BY <1>5, <2>1, <2>2
  <1>12. OneDefault' /\ RowsStand'
    BY <1>0, <1>4, <1>8, QuietRows DEF RowsStand
  <1> QED BY <1>8, <1>10, <1>11, <1>12 DEF ReportInv

\* Saving the scores stamps the resume, with nothing changed in it.
LEMMA ScoreKeeps == ASSUME ReportInv, NEW g \in Scan, ScoreIt(g) PROVE ReportInv'
  <1>0. ReportTypes /\ OneDefault /\ UNCHANGED <<now, profile, edits, builder, report, served>>
    BY DEF ScoreIt, ReportInv
  <1>1. PICK q : q = scan[g]
    OBVIOUS
  <1>2. q \in InParts /\ RequestStands(q)
    BY <1>1 DEF ScoreIt, Part1, Goes, ReportInv, ReportTypes, RequestsStand, LookingUp, InParts, NoScan
  <1>3. PICK s : s = [q EXCEPT !.todo = q.todo \ {"score"}]
    BY Zenon
  <1>4. scan' = [scan EXCEPT ![g] = s] /\ s \in InParts
    BY <1>1, <1>2, <1>3 DEF ScoreIt, InParts
  <1>5. /\ resume' \in [Resume -> ResumeState] /\ SameResumes /\ \A x \in Resume : resume'[x].at <= now
    <2>1. now \in 0 .. LastTick /\ now >= now /\ \A x \in Resume : resume[x] \in ResumeState /\ resume[x].at <= now
      BY <1>0, ReportsAssumption DEF ReportTypes
    <2>2. CASE resume' = resume
      BY <1>0, <2>1, <2>2 DEF ReportTypes, ResumeState, SameResumes
    <2>3. CASE q.resume \in Readable /\ resume' = [resume EXCEPT ![q.resume].at = now]
      <3>1. PICK rewritten : rewritten = [resume[q.resume] EXCEPT !.at = now]
        BY Zenon
      <3>2. q.resume \in Resume /\ resume' = [resume EXCEPT ![q.resume] = rewritten]
        BY <2>3, <3>1, <1>0, ReadableOnes
      <3>3. rewritten \in ResumeState /\ rewritten.at = now /\ rewritten.status = resume[q.resume].status
            /\ rewritten.default = resume[q.resume].default /\ rewritten.text = resume[q.resume].text
        BY <2>1, <3>1, <3>2 DEF ResumeState
      <3>4. \A x \in Resume : resume'[x] = IF x = q.resume THEN rewritten ELSE resume[x]
        BY <1>0, <3>2 DEF ReportTypes
      <3>5. \A x \in Resume : resume[x].at \in Nat /\ now \in Nat
        BY <2>1 DEF ResumeState
      <3>6. SameResumes
        BY <2>1, <3>3, <3>4, <3>5 DEF SameResumes
      <3>7. resume' \in [Resume -> ResumeState]
        BY <1>0, <3>2, <3>3 DEF ReportTypes
      <3>8. \A x \in Resume : resume'[x].at <= now
        BY <2>1, <3>3, <3>4
      <3> QED BY <3>6, <3>7, <3>8
    <2> QED BY <1>1, <2>2, <2>3 DEF ScoreIt
  <1>6. ReportTypes'
    <2>1. scan' \in [Scan -> {NoScan} \cup LookingUp \cup InParts]
      BY <1>0, <1>4 DEF ReportTypes
    <2> QED BY <1>0, <1>5, <2>1 DEF ReportTypes
  <1>7. SameProfile
    BY <1>0 DEF SameProfile
  <1>8. RequestStands(s)
    <2>1. /\ s.overtaken = q.overtaken /\ s.resume = q.resume /\ s.text = q.text /\ s.chosen = q.chosen /\ s.pc = "parts"
          /\ s.vector = q.vector /\ s.counted = q.counted /\ s.todo = q.todo \ {"score"} /\ q.pc = "parts" /\ q # NoScan
      BY <1>2, <1>3 DEF InParts, NoScan
    <2>2. NothingPicked(s) <=> NothingPicked(q)
      BY <2>1 DEF NothingPicked
    <2>3. \A x \in Listed : StillAbout(s, x) <=> StillAbout(q, x)
      BY <2>1 DEF StillAbout
    <2> QED BY <1>2, <2>1, <2>2, <2>3 DEF RequestStands
  <1>9. RequestsStand'
    <2>1. RequestStands(s)'
      <3>1. s.resume \in Resume \cup {NoResume}
        BY <1>4 DEF InParts
      <3> QED BY <1>0, <1>5, <1>6, <1>7, <1>8, <3>1, QuietRequest
    <2>2. ASSUME NEW h \in Scan PROVE RequestStands(scan[h])'
      <3>1. CASE h = g
        BY <1>0, <1>4, <2>1, <3>1 DEF ReportTypes
      <3>2. CASE h # g
        BY <1>0, <1>4, <1>5, <1>6, <1>7, <3>2, OthersStand DEF ReportTypes
      <3> QED BY <3>1, <3>2
    <2> QED BY <2>2 DEF RequestsStand
  <1>10. OneDefault' /\ RowsStand' /\ ReusedReportsAreCurrent'
    BY <1>0, <1>5, <1>6, <1>7, QuietRows DEF RowsStand, ReportInv, ReusedReportsAreCurrent
  <1> QED BY <1>6, <1>9, <1>10 DEF ReportInv

\* The counted resume is the default when that one was picked, and the vector is read as it is.
LEMMA MatchKeeps == ASSUME ReportInv, NEW g \in Scan, MatchIt(g) PROVE ReportInv'
  <1>0. ReportTypes /\ OneDefault /\ UNCHANGED <<now, resume, profile, edits, builder, report, served>>
    BY DEF MatchIt, ReportInv, inputs
  <1>1. PICK q : q = scan[g]
    OBVIOUS
  <1>2. q \in InParts /\ RequestStands(q)
    BY <1>1 DEF MatchIt, Part1, Goes, ReportInv, ReportTypes, RequestsStand, LookingUp, InParts, NoScan
  <1>3. PICK x \in ActiveResume :
          scan' = [scan EXCEPT ![g].todo = @ \ {"match"}, ![g].vector = profile.vector, ![g].counted = x,
                               ![g].overtaken = @ \/ profile.vector < profile.stamped]
    BY Zenon DEF MatchIt
  <1>5. PICK s : s = [q EXCEPT !.todo = q.todo \ {"match"}, !.vector = profile.vector, !.counted = x,
                               !.overtaken = q.overtaken \/ profile.vector < profile.stamped]
    OBVIOUS
  <1>6. scan' = [scan EXCEPT ![g] = s]
    BY <1>0, <1>1, <1>3, <1>5, Zenon DEF ReportTypes
  <1>7. x \in Resume \cup {NoResume} /\ (Chosen \cap Readable # {} => x \in Chosen)
    BY <1>0, <1>3, ReadableOnes DEF ActiveResume
  <1>8. profile.vector \in 0 .. MaxEdits /\ profile.stamped \in 0 .. MaxEdits
    BY <1>0 DEF ReportTypes
  <1>9. /\ s.resume = q.resume /\ s.text = q.text /\ s.chosen = q.chosen /\ s.pc = "parts"
        /\ s.vector = profile.vector /\ s.counted = x /\ s.todo = q.todo \ {"match"} /\ q.pc = "parts" /\ q # NoScan
        /\ s.overtaken = (q.overtaken \/ profile.vector < profile.stamped)
    BY <1>2, <1>5 DEF InParts, NoScan
  <1>10. s \in InParts
    BY <1>2, <1>5, <1>7, <1>8, Zenon DEF InParts
  <1>11. ReportTypes'
    <2>1. scan' \in [Scan -> {NoScan} \cup LookingUp \cup InParts]
      BY <1>0, <1>6, <1>10 DEF ReportTypes
    <2> QED BY <1>0, <2>1 DEF ReportTypes
  <1>12. SameResumes /\ SameProfile
    BY <1>0 DEF SameResumes, SameProfile, ReportTypes, ResumeState
  <1>13. RequestStands(s)
    <2> SUFFICES ASSUME ~s.overtaken PROVE RequestStands(s)
      BY DEF RequestStands
    <2>1. ~q.overtaken /\ s.vector >= profile.stamped
      <3>1. ~q.overtaken /\ ~(profile.vector < profile.stamped)
        BY <1>9, Zenon
      <3> QED BY <1>8, <1>9, <3>1
    <2>2. NothingPicked(s) /\ (s.chosen => s.resume \in Chosen \cap Readable)
      BY <1>2, <1>9, <2>1 DEF RequestStands, NothingPicked
    <2>3. \A z \in Listed : StillAbout(s, z)
      BY <1>2, <1>9, <2>1 DEF RequestStands, StillAbout
    <2>4. s.chosen => s.counted = s.resume
      BY <1>0, <1>7, <1>9, <2>2, ReadableOnes DEF OneDefault, Chosen
    <2> QED BY <1>9, <2>1, <2>2, <2>3, <2>4 DEF RequestStands
  <1>14. RequestsStand'
    <2>1. RequestStands(s)'
      <3>1. s.resume \in Resume \cup {NoResume}
        BY <1>10 DEF InParts
      <3> QED BY <1>0, <1>11, <1>12, <1>13, <3>1, QuietRequest
    <2>2. ASSUME NEW h \in Scan PROVE RequestStands(scan[h])'
      <3>1. CASE h = g
        BY <1>0, <1>6, <2>1, <3>1 DEF ReportTypes
      <3>2. CASE h # g
        BY <1>0, <1>6, <1>11, <1>12, <3>2, OthersStand DEF ReportTypes
      <3> QED BY <3>1, <3>2
    <2> QED BY <2>2 DEF RequestsStand
  <1>15. OneDefault' /\ RowsStand' /\ ReusedReportsAreCurrent'
    BY <1>0, <1>11, <1>12, QuietRows DEF RowsStand, ReportInv, ReusedReportsAreCurrent
  <1> QED BY <1>11, <1>14, <1>15 DEF ReportInv

LEMMA CreateKeeps == ASSUME ReportInv, NEW g \in Scan, Create(g) PROVE ReportInv'
  <1>0. ReportTypes /\ OneDefault /\ UNCHANGED <<now, resume, profile, edits, builder, served>>
    BY DEF Create, ReportInv, inputs
  <1>1. PICK q : q = scan[g]
    OBVIOUS
  <1>2. q \in InParts /\ RequestStands(q) /\ q.todo = {}
    BY <1>1 DEF Create, Goes, ReportInv, ReportTypes, RequestsStand, LookingUp, InParts, NoScan
  <1>3. PICK r : r = [posting |-> q.posting, builder |-> builder, at |-> now, resume |-> q.resume, text |-> q.text,
                      vector |-> q.vector, counted |-> q.counted, chosen |-> q.chosen, overtaken |-> q.overtaken]
    BY Zenon
  <1>4. report' = report \cup {r} /\ scan' = [scan EXCEPT ![g] = NoScan]
    BY <1>1, <1>3 DEF Create
  <1>5. r \in MatchReport /\ r.at <= now
    BY <1>0, <1>2, <1>3 DEF InParts, ReportTypes, MatchReport
  <1>6. ReportTypes'
    <2>1. scan' \in [Scan -> {NoScan} \cup LookingUp \cup InParts]
      BY <1>0, <1>4 DEF ReportTypes
    <2>2. report' \subseteq MatchReport /\ \A s \in report' : s.at <= now'
      BY <1>0, <1>4, <1>5 DEF ReportTypes
    <2> QED BY <1>0, <2>1, <2>2 DEF ReportTypes
  <1>7. SameResumes /\ SameProfile
    BY <1>0 DEF SameResumes, SameProfile, ReportTypes, ResumeState
  <1>8. ~r.overtaken => /\ NothingPicked(r) /\ r.vector >= profile.stamped /\ (r.chosen => r.counted = r.resume)
                        /\ \A x \in Listed : StillAbout(r, x)
    <2>1. q # NoScan /\ q.pc = "parts" /\ "match" \notin q.todo
      BY <1>2 DEF InParts, NoScan
    <2>2. NothingPicked(r) <=> NothingPicked(q)
      BY <1>3 DEF NothingPicked
    <2>3. \A x \in Listed : StillAbout(r, x) <=> StillAbout(q, x)
      BY <1>3 DEF StillAbout
    <2> QED BY <1>2, <1>3, <2>1, <2>2, <2>3 DEF RequestStands
  <1>9. RowsStand' /\ OneDefault'
    <2>1. RowStands(r)'
      <3>1. (NothingPicked(r))' <=> NothingPicked(r)
        BY DEF NothingPicked
      <3>2. ~r.overtaken => \A x \in Listed' : StillAbout(r, x)'
        BY <1>0, <1>7, <1>8, SameView, ReadableOnes
      <3> QED BY <1>7, <1>8, <3>1, <3>2 DEF RowStands, SameProfile
    <2>2. OneDefault' /\ \A s \in report : RowStands(s)'
      BY <1>6, <1>7, QuietRows
    <2> QED BY <1>4, <2>1, <2>2 DEF RowsStand
  <1>10. RequestsStand'
    <2>1. \A s \in report' : s \in report \/ s.overtaken \/ \A x \in Listed : StillAbout(s, x)
      BY <1>4, <1>8
    <2>2. ASSUME NEW h \in Scan PROVE RequestStands(scan[h])'
      <3>1. CASE h = g
        BY <1>0, <1>4, <3>1 DEF ReportTypes, RequestStands
      <3>2. CASE h # g
        BY <1>0, <1>4, <1>6, <1>7, <2>1, <3>2, OthersStand DEF ReportTypes
      <3> QED BY <3>1, <3>2
    <2> QED BY <2>2 DEF RequestsStand
  <1>11. ReusedReportsAreCurrent'
    BY <1>0 DEF ReportInv, ReusedReportsAreCurrent
  <1> QED BY <1>6, <1>9, <1>10, <1>11 DEF ReportInv

LEMMA ReportStep == ReportInv /\ [ReportsNext]_reportVars => ReportInv'
  <1> SUFFICES ASSUME ReportInv, [ReportsNext]_reportVars PROVE ReportInv'
    OBVIOUS
  <1>1. CASE UNCHANGED reportVars
    BY <1>1, StillKeeps
  <1>2. CASE \E x \in Resume : Parse(x) \/ SetDefaultTo(x) \/ DeleteResume(x)
    BY <1>2, ParseKeeps, SetDefaultKeeps, DeleteKeeps
  <1>3. CASE EditProfile \/ EditSection
    BY <1>3, ProfileKeeps
  <1>4. CASE Embed \/ Deploy \/ Elapse
    BY <1>4, StillKeeps
  <1>5. CASE \E g \in Scan : (\E p \in Advert : Pick(g, p)) \/ Look(g) \/ ScoreIt(g) \/ MatchIt(g) \/ Create(g)
    BY <1>5, PickKeeps, LookKeeps, ScoreKeeps, MatchKeeps, CreateKeeps
  <1> QED BY <1>1, <1>2, <1>3, <1>4, <1>5 DEF ReportsNext

LEMMA ReportSound == ReportInv => ReusedReportsAreCurrent /\ ReportsSpeakOfOneResume
  <1> SUFFICES ASSUME ReportInv PROVE ReportsSpeakOfOneResume
    BY DEF ReportInv
  <1> QED BY DEF ReportInv, ReportTypes, RowsStand, RowStands, ReportsSpeakOfOneResume

-----------------------------------------------------------------------------
(* Runs of ingestion: what each counted, and when it may ask. *)

NormalTexts == {Normalized(kind, text) : kind \in BoardKinds, text \in AdTexts}
Fetched == [ad : Ad, text : NormalTexts]
StoredRow ==
  [terms : {text.terms : text \in NormalTexts} \cup {Unstated}, text : {text.body : text \in NormalTexts}, seen : Nat]
Summary == [fetched : Nat, created : Nat, updated : Nat, skipped : Nat]
PullPhases == {"idle", "pace", "ask", "upsert", "find", "write"}
Pull ==
  [phase : PullPhases, by : Nat, asks : Seq(SUBSET Ad), wakes : Int, got : Seq(Fetched), found : BOOLEAN, sum : Summary]

IngestTypes ==
  /\ pullClock \in Nat /\ lastRequest \in Int /\ pulls \in Nat /\ crowded \in BOOLEAN
  /\ board \in [kind : BoardKinds, text : [Ad -> AdTexts]]
  /\ stored \in [Ad -> {NotStored} \cup StoredRow] /\ inserted \in [Ad -> 0 .. pulls]
  /\ pull \in [IngestRun -> Pull] /\ ledgerOf \subseteq [by : 1 .. pulls, sum : Summary]

RowsInsertedBy(n) == {a \in Ad : inserted[a] = n}
Settled(sum) == sum.created + sum.updated + sum.skipped

\* A run that asks has stored nothing; what it fetched is counted or still to be stored; a row it
\* found is still there.
RunStands(q) ==
  q.phase # "idle" =>
    /\ q.by \in 1 .. pulls /\ q.sum.created = Cardinality(RowsInsertedBy(q.by))
    /\ q.sum.fetched = Settled(q.sum) + Len(q.got)
    /\ q.phase \in {"pace", "ask"} => q.asks # << >> /\ Settled(q.sum) = 0
    /\ q.phase \in {"find", "write"} => q.got # << >>
    /\ q.phase = "write" /\ q.found => stored[Head(q.got).ad] # NotStored

RunsApart ==
  \A r, q \in IngestRun : r # q /\ pull[r].phase # "idle" /\ pull[q].phase # "idle" => pull[r].by # pull[q].by
LedgerStands ==
  \A e \in ledgerOf :
    /\ e.sum.fetched = Settled(e.sum) /\ e.sum.created = Cardinality(RowsInsertedBy(e.by))
    /\ \A r \in IngestRun : pull[r].phase # "idle" => pull[r].by # e.by
RowsAreInserted == \A a \in Ad : stored[a] # NotStored <=> inserted[a] # NoRun

\* Whoever sleeps wakes an interval after the last request, as long as no other slept meanwhile.
PacesStand ==
  Polite /\ ~crowded =>
    /\ \A r \in IngestRun : pull[r].phase = "ask" => pull[r].wakes - lastRequest >= MinInterval
    /\ \A r, q \in IngestRun : r # q => ~(pull[r].phase = "ask" /\ pull[q].phase = "ask")

IngestInv ==
  /\ IngestTypes /\ (\A r \in IngestRun : RunStands(pull[r])) /\ RunsApart /\ LedgerStands /\ RowsAreInserted /\ PacesStand

\* A finite set as a sequence: as long as the set is large.
LEMMA SetInOrder ==
  ASSUME NEW U, IsFiniteSet(U)
  PROVE  SetToSeq(U) \in [1 .. Cardinality(U) -> U] /\ Cardinality(U) \in Nat
  <1>1. Cardinality(U) \in Nat /\ ExistsBijection(1 .. Cardinality(U), U)
    BY FS_CardinalityType
  <1>2. \E f \in [1 .. Cardinality(U) -> U] : IsInjective(f)
    BY <1>1 DEF ExistsBijection, Bijection, Injection
  <1> QED BY <1>1, <1>2 DEF SetToSeq

LEMMA AsksOf == ASSUME NEW kind PROVE Asks(kind) \in Seq(SUBSET Ad) /\ Asks(kind) # << >>
  <1>1. PICK n : n = Cardinality(Ad)
    OBVIOUS
  <1>2. n \in Nat /\ n # 0 /\ SetToSeq(Ad) \in [1 .. n -> Ad]
    BY <1>1, IngestAssumption, SetInOrder, FS_EmptySet
  <1>3. PICK each : each = [k \in 1 .. n |-> {SetToSeq(Ad)[k]}]
    BY Zenon
  <1>4. each \in Seq(SUBSET Ad) /\ Len(each) = n
    BY <1>2, <1>3
  <1>5. <<Listing>> \in Seq(SUBSET Ad) /\ <<Ad>> \in Seq(SUBSET Ad)
    BY DEF Listing
  <1>6. <<Listing>> \o each \in Seq(SUBSET Ad) /\ Len(<<Listing>> \o each) = 1 + n
    BY <1>2, <1>4, <1>5
  <1>7. Asks(kind) = <<Ad>> \/ Asks(kind) = each \/ Asks(kind) = <<Listing>> \o each
    BY <1>1, <1>3, Zenon DEF Asks
  <1>8. CASE Asks(kind) = <<Ad>>
    BY <1>5, <1>8
  <1>9. CASE Asks(kind) = each
    <2>1. each # << >>
      BY <1>2, <1>4
    <2> QED BY <1>4, <1>9, <2>1
  <1>10. CASE Asks(kind) = <<Listing>> \o each
    <2>1. <<Listing>> \o each # << >>
      BY <1>2, <1>6
    <2> QED BY <1>6, <1>10, <2>1
  <1> QED BY <1>7, <1>8, <1>9, <1>10

LEMMA CountsAreNumbers == ASSUME IngestTypes, NEW n PROVE IsFiniteSet(RowsInsertedBy(n)) /\ Cardinality(RowsInsertedBy(n)) \in Nat
  <1>1. RowsInsertedBy(n) \in SUBSET Ad
    BY DEF RowsInsertedBy
  <1> QED BY <1>1, IngestAssumption, FS_Subset, FS_CardinalityType

LEMMA IngestStart == IngestInit => IngestInv
  <1> SUFFICES ASSUME IngestInit PROVE IngestInv
    OBVIOUS
  <1>1. Resting \in Pull
    BY DEF Resting, Pull, PullPhases, NoRun, NoSummary, Summary
  <1>2. IngestTypes
    <2>0. MinInterval \in Int /\ -MinInterval \in Int
      BY IngestAssumption
    <2>1. pullClock \in Nat /\ lastRequest \in Int /\ pulls \in Nat /\ crowded \in BOOLEAN
          /\ board \in [kind : BoardKinds, text : [Ad -> AdTexts]]
      BY <2>0, Zenon DEF IngestInit
    <2>2. stored \in [Ad -> {NotStored} \cup StoredRow] /\ inserted \in [Ad -> 0 .. pulls]
      BY DEF IngestInit, NoRun
    <2>3. pull \in [IngestRun -> Pull] /\ ledgerOf \subseteq [by : 1 .. pulls, sum : Summary]
      BY <1>1 DEF IngestInit
    <2> QED BY <2>1, <2>2, <2>3 DEF IngestTypes
  <1>3. \A r \in IngestRun : pull[r].phase = "idle"
    BY DEF IngestInit, Resting
  <1>4. (\A r \in IngestRun : RunStands(pull[r])) /\ RunsApart /\ PacesStand
    BY <1>3 DEF RunStands, RunsApart, PacesStand
  <1>5. LedgerStands /\ RowsAreInserted
    BY DEF IngestInit, LedgerStands, RowsAreInserted
  <1> QED BY <1>2, <1>4, <1>5 DEF IngestInv

\* A step of a run that inserts nothing.
LEMMA RunMoves ==
  ASSUME IngestInv, NEW r \in IngestRun, NEW q \in Pull, pull' = [pull EXCEPT ![r] = q],
         pull[r].phase # "idle", q.by = pull[r].by, RunStands(q), q.phase = "write" => UNCHANGED stored,
         \A a \in Ad : stored[a] # NotStored => stored'[a] # NotStored,
         UNCHANGED <<pullClock, board, inserted, ledgerOf, pulls>>,
         stored' \in [Ad -> {NotStored} \cup StoredRow], RowsAreInserted',
         lastRequest' \in Int, crowded' \in BOOLEAN, PacesStand'
  PROVE  IngestInv'
  <1>0. IngestTypes /\ (\A x \in IngestRun : RunStands(pull[x])) /\ RunsApart /\ LedgerStands
    BY DEF IngestInv
  <1>1. IngestTypes'
    BY <1>0 DEF IngestTypes
  <1>2. pull'[r] = q /\ \A x \in IngestRun : x # r => pull'[x] = pull[x]
    BY <1>0 DEF IngestTypes
  <1>3. \A n : RowsInsertedBy(n)' = RowsInsertedBy(n)
    BY DEF RowsInsertedBy
  <1>4. \A x \in IngestRun : RunStands(pull[x])'
    <2>1. ASSUME NEW x \in IngestRun, pull[x].phase = "write", pull[x].got # << >> PROVE Head(pull[x].got).ad \in Ad
      <3>1. pull[x].got \in Seq(Fetched)
        BY <1>0 DEF IngestTypes, Pull
      <3>2. Head(pull[x].got) \in Fetched
        BY <2>1, <3>1
      <3> QED BY <3>2 DEF Fetched
    <2>2. ASSUME NEW x \in IngestRun PROVE RunStands(pull[x])'
      <3>1. CASE x = r
        BY <1>2, <1>3, <3>1 DEF RunStands, Settled
      <3>2. CASE x # r
        BY <1>0, <1>2, <1>3, <2>1, <3>2 DEF RunStands, Settled
      <3> QED BY <3>1, <3>2
    <2> QED BY <2>2
  <1>5. RunsApart' /\ LedgerStands'
    BY <1>0, <1>2, <1>3 DEF RunsApart, LedgerStands, Settled
  <1> QED BY <1>1, <1>4, <1>5 DEF IngestInv

\* One that ends is in the ledger, with what it counted.
LEMMA RunEnds ==
  ASSUME IngestInv, NEW r \in IngestRun, NEW sum \in Summary, EndPull(r, sum), pull[r].phase # "idle",
         sum.fetched = Settled(sum), sum.created = pull[r].sum.created,
         UNCHANGED <<pullClock, board, stored, inserted, pulls>>, lastRequest' \in Int, crowded' \in BOOLEAN, PacesStand'
  PROVE  IngestInv'
  <1>0. IngestTypes /\ (\A x \in IngestRun : RunStands(pull[x])) /\ RunsApart /\ LedgerStands /\ RowsAreInserted
    BY DEF IngestInv
  <1>1. PICK e : e = [by |-> pull[r].by, sum |-> sum]
    BY Zenon
  <1>2. pull' = [pull EXCEPT ![r] = Resting] /\ ledgerOf' = ledgerOf \cup {e}
    BY <1>1 DEF EndPull
  <1>3. Resting \in Pull /\ Resting.phase = "idle"
    BY DEF Resting, Pull, PullPhases, NoRun, NoSummary, Summary
  <1>4. pull[r].by \in 1 .. pulls /\ sum.created = Cardinality(RowsInsertedBy(pull[r].by))
    BY <1>0 DEF RunStands
  <1>5. IngestTypes'
    <2>1. pull' \in [IngestRun -> Pull] /\ ledgerOf' \subseteq [by : 1 .. pulls', sum : Summary]
      BY <1>0, <1>1, <1>2, <1>3, <1>4 DEF IngestTypes
    <2> QED BY <1>0, <2>1 DEF IngestTypes
  <1>6. pull'[r].phase = "idle" /\ \A x \in IngestRun : x # r => pull'[x] = pull[x]
    BY <1>0, <1>2, <1>3 DEF IngestTypes
  <1>7. \A n : RowsInsertedBy(n)' = RowsInsertedBy(n)
    BY DEF RowsInsertedBy
  <1>8. \A x \in IngestRun : RunStands(pull[x])'
    BY <1>0, <1>6, <1>7, Zenon DEF RunStands, Settled
  <1>9. RunsApart' /\ RowsAreInserted'
    BY <1>0, <1>6 DEF RunsApart, RowsAreInserted
  <1>10. LedgerStands'
    <2>1. e.by = pull[r].by /\ e.sum = sum
      BY <1>1
    <2>2. \A x \in IngestRun : pull'[x].phase # "idle" => x # r /\ pull'[x].by # e.by
      BY <1>0, <1>6, <2>1 DEF RunsApart
    <2>3. /\ e.sum.fetched = Settled(e.sum) /\ e.sum.created = Cardinality(RowsInsertedBy(e.by)')
      BY <1>4, <1>7, <2>1
    <2>4. \A f \in ledgerOf : \A x \in IngestRun : pull'[x].phase # "idle" => pull'[x].by # f.by
      BY <1>0, <1>6 DEF LedgerStands
    <2>5. \A f \in ledgerOf : f.sum.fetched = Settled(f.sum) /\ f.sum.created = Cardinality(RowsInsertedBy(f.by)')
      BY <1>0, <1>7 DEF LedgerStands
    <2>6. \A x : Settled(x)' = Settled(x)
      BY DEF Settled
    <2> QED BY <1>2, <2>2, <2>3, <2>4, <2>5, <2>6 DEF LedgerStands
  <1> QED BY <1>5, <1>8, <1>9, <1>10 DEF IngestInv

\* Nobody starts to ask.
LEMMA PacesGoOn ==
  ASSUME IngestInv, NEW r \in IngestRun, NEW q, q.phase # "ask", pull' = [pull EXCEPT ![r] = q],
         UNCHANGED <<board, lastRequest, crowded>>
  PROVE  PacesStand'
  <1>1. pull'[r] = q /\ \A x \in IngestRun : x # r => pull'[x] = pull[x]
    BY DEF IngestInv, IngestTypes
  <1> QED BY <1>1 DEF IngestInv, PacesStand, Polite

LEMMA StartPullKeeps == ASSUME IngestInv, NEW r \in IngestRun, StartPull(r) PROVE IngestInv'
  <1>0. IngestTypes /\ (\A x \in IngestRun : RunStands(pull[x])) /\ RunsApart /\ LedgerStands /\ RowsAreInserted
        /\ pull[r].phase = "idle" /\ pulls' = pulls + 1
        /\ UNCHANGED <<pullClock, board, stored, lastRequest, ledgerOf, inserted, crowded>>
    BY DEF IngestInv, StartPull
  <1>1. PICK wanted : wanted = Asks(board.kind)
    OBVIOUS
  <1>2. PICK q : q = [Resting EXCEPT !.phase = "pace", !.by = pulls + 1, !.asks = wanted]
    OBVIOUS
  <1>3. pull' = [pull EXCEPT ![r] = q]
    BY <1>1, <1>2 DEF StartPull
  <1>4. wanted \in Seq(SUBSET Ad) /\ wanted # << >> /\ pulls \in Nat
    BY <1>0, <1>1, AsksOf DEF IngestTypes
  <1>5. q = [phase |-> "pace", by |-> pulls + 1, asks |-> wanted, wakes |-> 0, got |-> << >>, found |-> FALSE, sum |-> NoSummary]
    BY <1>2, Zenon DEF Resting
  <1>6. q \in Pull
    BY <1>4, <1>5 DEF Pull, PullPhases, NoSummary, Summary
  <1>7. pull'[r] = q /\ \A x \in IngestRun : x # r => pull'[x] = pull[x]
    BY <1>0, <1>3 DEF IngestTypes
  <1>8. IngestTypes'
    <2>1. inserted' \in [Ad -> 0 .. pulls'] /\ ledgerOf' \subseteq [by : 1 .. pulls', sum : Summary] /\ pulls' \in Nat
      BY <1>0, <1>4 DEF IngestTypes
    <2> QED BY <1>0, <1>3, <1>6, <2>1 DEF IngestTypes
  <1>9. \A n : RowsInsertedBy(n)' = RowsInsertedBy(n)
    BY <1>0 DEF RowsInsertedBy
  <1>10. Cardinality(RowsInsertedBy(pulls + 1)) = 0
    <2>1. RowsInsertedBy(pulls + 1) = {}
      BY <1>0, <1>4 DEF RowsInsertedBy, IngestTypes
    <2> QED BY <2>1, FS_EmptySet
  <1>11. ASSUME NEW x \in IngestRun PROVE RunStands(pull[x])'
    <2>1. CASE x = r
      <3>1. /\ q.phase = "pace" /\ q.by = pulls + 1 /\ q.asks = wanted /\ q.got = << >> /\ q.sum.created = 0 /\ q.sum.fetched = 0
            /\ q.sum.updated = 0 /\ q.sum.skipped = 0
        BY <1>5 DEF NoSummary
      <3>2. q.by \in 1 .. pulls' /\ q.sum.created = Cardinality(RowsInsertedBy(q.by)')
        BY <1>0, <1>4, <1>9, <1>10, <3>1
      <3>3. Len(q.got) = 0
        BY <3>1
      <3>4. q.sum.fetched = Settled(q.sum) + Len(q.got) /\ Settled(q.sum) = 0
        BY <3>1, <3>3 DEF Settled
      <3>5. pull'[x] = q
        BY <1>7, <2>1
      <3> QED BY <1>4, <3>1, <3>2, <3>4, <3>5, Zenon DEF RunStands, Settled
    <2>2. CASE x # r
      <3>1. pull[x].phase # "idle" => pull[x].by \in 1 .. pulls'
        BY <1>0, <1>4 DEF RunStands
      <3> QED BY <1>0, <1>7, <1>9, <2>2, <3>1, Zenon DEF RunStands, Settled
    <2> QED BY <2>1, <2>2
  <1>12. RunsApart'
    <2>1. \A x \in IngestRun : pull[x].phase # "idle" => pull[x].by # pulls + 1
      BY <1>0, <1>4 DEF RunStands
    <2>2. q.by = pulls + 1
      BY <1>5
    <2> QED BY <1>0, <1>7, <2>1, <2>2 DEF RunsApart
  <1>13. LedgerStands'
    <2>1. \A e \in ledgerOf : e.by # pulls + 1
      BY <1>0, <1>4 DEF IngestTypes
    <2>2. q.by = pulls + 1
      BY <1>5
    <2> QED BY <1>0, <1>7, <1>9, <2>1, <2>2 DEF LedgerStands, Settled
  <1>14. PacesStand' /\ RowsAreInserted'
    BY <1>0, <1>3, <1>5, PacesGoOn, Zenon DEF RowsAreInserted
  <1> QED BY <1>8, <1>11, <1>12, <1>13, <1>14 DEF IngestInv

LEMMA PaceKeeps == ASSUME IngestInv, NEW r \in IngestRun, Pace(r) PROVE IngestInv'
  <1>0. IngestTypes /\ RunStands(pull[r]) /\ RowsAreInserted /\ PacesStand /\ pull[r].phase = "pace"
        /\ UNCHANGED <<pullClock, board, stored, lastRequest, pulls, ledgerOf, inserted>>
        /\ crowded' = (crowded \/ \E x \in Polled \ {r} : pull[x].phase \in {"ask", "pace"})
    BY DEF IngestInv, Pace
  <1>1. PICK wakes : wakes = IF Polite /\ pullClock - lastRequest < MinInterval THEN lastRequest + MinInterval ELSE pullClock
    OBVIOUS
  <1>2. wakes \in Int /\ (Polite => wakes - lastRequest >= MinInterval)
    BY <1>0, <1>1, IngestAssumption DEF IngestTypes
  <1>3. PICK q : q = [pull[r] EXCEPT !.phase = "ask", !.wakes = wakes]
    OBVIOUS
  <1>4. pull' = [pull EXCEPT ![r] = q]
    BY <1>0, <1>1, <1>3, Zenon DEF Pace, IngestTypes
  <1>5. /\ q \in Pull /\ q.phase = "ask" /\ q.wakes = wakes /\ q.by = pull[r].by /\ q.asks = pull[r].asks /\ q.got = pull[r].got
        /\ q.sum = pull[r].sum
    BY <1>0, <1>2, <1>3, Zenon DEF IngestTypes, Pull, PullPhases
  <1>6. RunStands(q)
    BY <1>0, <1>5 DEF RunStands
  <1>7. pull'[r] = q /\ \A x \in IngestRun : x # r => pull'[x] = pull[x]
    BY <1>0, <1>4 DEF IngestTypes
  <1>8. PacesStand'
    <2> SUFFICES ASSUME Polite, ~crowded'
                 PROVE  /\ \A x \in IngestRun : pull'[x].phase = "ask" => pull'[x].wakes - lastRequest >= MinInterval
                        /\ \A x, y \in IngestRun : x # y => ~(pull'[x].phase = "ask" /\ pull'[y].phase = "ask")
      BY <1>0 DEF PacesStand, Polite
    <2>1. ~crowded /\ \A x \in IngestRun : x # r => pull[x].phase # "ask"
      BY <1>0, Zenon DEF Polled
    <2> QED BY <1>0, <1>2, <1>5, <1>7, <2>1 DEF PacesStand
  <1>9. crowded' \in BOOLEAN /\ RowsAreInserted' /\ lastRequest' \in Int /\ stored' \in [Ad -> {NotStored} \cup StoredRow]
    BY <1>0 DEF IngestTypes, RowsAreInserted
  <1> QED BY <1>0, <1>4, <1>5, <1>6, <1>8, <1>9, RunMoves, Zenon

\* What is answered is what the board states, in some order.
LEMMA BoardAnswers ==
  ASSUME IngestTypes, NEW ask \in SUBSET Ad
  PROVE  AnswerTo(ask) \in Seq(Fetched) /\ Len(AnswerTo(ask)) \in Nat
  <1>1. PICK U : U = {a \in ask : Usable(board.text[a])}
    BY Zenon
  <1>2. U \subseteq Ad /\ IsFiniteSet(U)
    BY <1>1, IngestAssumption, FS_Subset
  <1>3. PICK n : n = Cardinality(U)
    OBVIOUS
  <1>4. PICK usable : usable = SetToSeq(U)
    OBVIOUS
  <1>5. n \in Nat /\ usable \in [1 .. n -> U]
    BY <1>2, <1>3, <1>4, SetInOrder
  <1>6. ASSUME NEW a \in Ad PROVE [ad |-> a, text |-> Normalized(board.kind, board.text[a])] \in Fetched
    <2>1. board.kind \in BoardKinds /\ board.text[a] \in AdTexts
      BY DEF IngestTypes
    <2>2. Normalized(board.kind, board.text[a]) \in NormalTexts
      BY <2>1 DEF NormalTexts
    <2> QED BY <2>2 DEF Fetched
  <1>7. DOMAIN usable = 1 .. n /\ \A k \in 1 .. n : usable[k] \in Ad
    BY <1>2, <1>5
  <1>8. PICK answer : answer = AnswerTo(ask)
    OBVIOUS
  <1>9. answer = [k \in 1 .. n |-> [ad |-> usable[k], text |-> Normalized(board.kind, board.text[usable[k]])]]
    BY <1>1, <1>4, <1>7, <1>8 DEF AnswerTo
  <1>10. answer \in [1 .. n -> Fetched]
    BY <1>6, <1>7, <1>9
  <1>11. answer \in Seq(Fetched)
    BY <1>5, <1>10
  <1> QED BY <1>8, <1>11

LEMMA AskBoardKeeps == ASSUME IngestInv, NEW r \in IngestRun, AskBoard(r) PROVE IngestInv'
  <1>0. IngestTypes /\ RunStands(pull[r]) /\ RowsAreInserted /\ PacesStand /\ pull[r].phase = "ask" /\ pull[r] \in Pull
        /\ UNCHANGED <<pullClock, board, stored, pulls, inserted, crowded>>
        /\ lastRequest' = IF Polite THEN pullClock ELSE lastRequest
    BY DEF IngestInv, AskBoard, IngestTypes
  <1>1. lastRequest' \in Int /\ stored' \in [Ad -> {NotStored} \cup StoredRow] /\ RowsAreInserted' /\ crowded' \in BOOLEAN
    BY <1>0 DEF IngestTypes, RowsAreInserted
  <1>2. PICK ask : ask = Head(pull[r].asks)
    OBVIOUS
  <1>3. PICK last : last = (Len(pull[r].asks) = 1)
    OBVIOUS
  <1>4. PICK rest : rest = Tail(pull[r].asks)
    BY Zenon
  <1>5. PICK next : next = [pull[r] EXCEPT !.asks = rest, !.phase = IF last THEN "upsert" ELSE "pace"]
    OBVIOUS
  <1>7. PICK answer : answer = AnswerTo(ask)
    OBVIOUS
  <1>8. PICK full : full = [next EXCEPT !.got = @ \o answer, !.sum.fetched = @ + Len(answer)]
    OBVIOUS
  <1>9. \/ pull' = [pull EXCEPT ![r] = full] /\ UNCHANGED ledgerOf
        \/ pull' = [pull EXCEPT ![r] = next] /\ UNCHANGED ledgerOf
        \/ EndPull(r, NoSummary)
    BY <1>2, <1>3, <1>4, <1>5, <1>7, <1>8, Zenon DEF AskBoard
  <1>10. pull[r].asks \in Seq(SUBSET Ad) /\ pull[r].asks # << >> /\ Settled(pull[r].sum) = 0
    BY <1>0 DEF RunStands, Pull
  <1>11. ask \in SUBSET Ad /\ rest \in Seq(SUBSET Ad) /\ (~last => rest # << >>)
    <2>1. PICK wanted : wanted = pull[r].asks
      OBVIOUS
    <2>2. wanted \in Seq(SUBSET Ad) /\ wanted # << >>
      BY <1>10, <2>1
    <2>3. Head(wanted) \in SUBSET Ad /\ Tail(wanted) \in Seq(SUBSET Ad)
      BY <2>2
    <2>4. Len(wanted) # 1 => Tail(wanted) # << >>
      <3>1. Len(wanted) \in Nat /\ Len(wanted) # 0 /\ Len(Tail(wanted)) = Len(wanted) - 1
        BY <2>2
      <3> QED BY <3>1
    <2> QED BY <1>2, <1>3, <1>4, <2>1, <2>3, <2>4, Zenon
  <1>12. answer \in Seq(Fetched) /\ Len(answer) \in Nat
    BY <1>0, <1>7, <1>11, BoardAnswers
  <1>13. /\ next \in Pull /\ next.phase = (IF last THEN "upsert" ELSE "pace") /\ next.asks = rest /\ next.by = pull[r].by
         /\ next.got = pull[r].got /\ next.sum = pull[r].sum
    BY <1>0, <1>5, <1>11, Zenon DEF Pull, PullPhases
  <1>14. PacesStand'
    <2> SUFFICES ASSUME Polite, ~crowded
                 PROVE  /\ \A x \in IngestRun : pull'[x].phase = "ask" => pull'[x].wakes - lastRequest' >= MinInterval
                        /\ \A x, y \in IngestRun : x # y => ~(pull'[x].phase = "ask" /\ pull'[y].phase = "ask")
      BY <1>0 DEF PacesStand, Polite
    <2>1. \A x \in IngestRun : x # r => pull[x].phase # "ask" /\ pull'[x] = pull[x]
      BY <1>0, <1>9 DEF PacesStand, EndPull, IngestTypes
    <2>2. full.phase = next.phase
      BY <1>5, <1>8, <1>0 DEF Pull
    <2>3. pull'[r].phase # "ask"
      BY <1>0, <1>9, <1>13, <2>2 DEF EndPull, IngestTypes, Resting
    <2> QED BY <2>1, <2>3
  <1>15. CASE pull' = [pull EXCEPT ![r] = full] /\ UNCHANGED ledgerOf
    <2>1. pull[r].sum \in Summary /\ pull[r].got \in Seq(Fetched)
      BY <1>0 DEF Pull
    <2>2. PICK sum : sum = [pull[r].sum EXCEPT !.fetched = pull[r].sum.fetched + Len(answer)]
      BY Zenon
    <2>3. /\ sum \in Summary /\ sum.fetched = pull[r].sum.fetched + Len(answer) /\ sum.created = pull[r].sum.created
          /\ sum.updated = pull[r].sum.updated /\ sum.skipped = pull[r].sum.skipped
      BY <1>12, <2>1, <2>2 DEF Summary
    <2>4. PICK got : got = pull[r].got \o answer
      BY Zenon
    <2>5. got \in Seq(Fetched) /\ Len(got) = Len(pull[r].got) + Len(answer)
      BY <1>12, <2>1, <2>4
    <2>6. full = [next EXCEPT !.got = got, !.sum = sum]
      BY <1>8, <1>13, <2>2, <2>4, Zenon DEF Pull, Summary
    <2>7. /\ full \in Pull /\ full.phase = next.phase /\ full.asks = rest /\ full.by = pull[r].by /\ full.got = got /\ full.sum = sum
      BY <1>13, <2>3, <2>5, <2>6, Zenon DEF Pull
    <2>8. Settled(sum) = 0
      BY <1>10, <2>3 DEF Settled
    <2>9. /\ pull[r].by \in 1 .. pulls /\ pull[r].sum.created = Cardinality(RowsInsertedBy(pull[r].by))
          /\ pull[r].sum.fetched = Settled(pull[r].sum) + Len(pull[r].got)
      BY <1>0 DEF RunStands
    <2>10. sum.fetched = Settled(sum) + Len(got)
      <3>1. Len(pull[r].got) \in Nat
        BY <2>1
      <3> QED BY <1>10, <1>12, <2>3, <2>5, <2>8, <2>9, <3>1
    <2>11. RunStands(full)
      BY <1>11, <1>13, <2>3, <2>7, <2>8, <2>9, <2>10 DEF RunStands
    <2> QED BY <1>0, <1>1, <1>14, <1>15, <2>7, <2>11, RunMoves, Zenon
  <1>16. CASE pull' = [pull EXCEPT ![r] = next] /\ UNCHANGED ledgerOf
    <2>1. RunStands(next)
      BY <1>0, <1>10, <1>11, <1>13 DEF RunStands
    <2> QED BY <1>0, <1>1, <1>13, <1>14, <1>16, <2>1, RunMoves, Zenon
  <1>17. CASE EndPull(r, NoSummary)
    <2>1. NoSummary \in Summary /\ NoSummary.fetched = Settled(NoSummary) /\ NoSummary.created = 0
      BY DEF NoSummary, Summary, Settled
    <2>2. pull[r].sum.created = 0
      BY <1>0, <1>10 DEF Settled, Pull, Summary
    <2> QED BY <1>0, <1>1, <1>14, <1>17, <2>1, <2>2, RunEnds
  <1> QED BY <1>9, <1>15, <1>16, <1>17

LEMMA SettledIsNumber == ASSUME NEW sum \in Summary PROVE Settled(sum) \in Nat
  BY DEF Summary, Settled

\* A posting that is counted leaves what is still to be stored.
LEMMA PostingCounted ==
  ASSUME IngestTypes, NEW r \in IngestRun, RunStands(pull[r]), pull[r].phase # "idle", pull[r].got # << >>,
         NEW sum \in Summary, sum.fetched = pull[r].sum.fetched, Settled(sum) = Settled(pull[r].sum) + 1,
         NEW q, q = Counted(r, sum)
  PROVE  /\ q \in Pull /\ q.phase = "upsert" /\ q.by = pull[r].by /\ q.sum = sum /\ sum.fetched = Settled(sum) + Len(q.got)
         /\ pull[r].sum \in Summary
  <1>1. pull[r] \in Pull /\ pull[r].sum \in Summary /\ pull[r].got \in Seq(Fetched)
    BY DEF IngestTypes, Pull
  <1>2. PICK rest : rest = Tail(pull[r].got)
    BY Zenon
  <1>3. rest \in Seq(Fetched) /\ Len(rest) = Len(pull[r].got) - 1 /\ Len(rest) \in Nat
    BY <1>1, <1>2
  <1>4. q = [pull[r] EXCEPT !.sum = sum, !.got = rest, !.phase = "upsert"]
    BY <1>2 DEF Counted
  <1>5. q \in Pull /\ q.phase = "upsert" /\ q.by = pull[r].by /\ q.sum = sum /\ q.got = rest
    BY <1>1, <1>3, <1>4, Zenon DEF Pull, PullPhases
  <1>6. pull[r].sum.fetched = Settled(pull[r].sum) + Len(pull[r].got)
    BY DEF RunStands
  <1>7. Settled(pull[r].sum) \in Nat
    BY <1>1, SettledIsNumber
  <1>8. sum.fetched = Settled(sum) + Len(rest)
    <2>1. PICK a \in Nat : a = Settled(pull[r].sum)
      BY <1>7
    <2>2. PICK n \in Nat : n = Len(rest)
      BY <1>3
    <2>3. Len(pull[r].got) = n + 1
      BY <1>1, <1>3, <2>2
    <2>4. sum.fetched = a + (n + 1) /\ Settled(sum) = a + 1
      BY <1>6, <2>1, <2>3
    <2> QED BY <2>2, <2>4
  <1> QED BY <1>1, <1>5, <1>8

LEMMA CountedByOne ==
  ASSUME NEW sum \in Summary
  PROVE  /\ OneCreated(sum) \in Summary /\ OneCreated(sum).fetched = sum.fetched /\ OneCreated(sum).created = sum.created + 1
         /\ Settled(OneCreated(sum)) = Settled(sum) + 1
         /\ OneUpdated(sum) \in Summary /\ OneUpdated(sum).fetched = sum.fetched /\ OneUpdated(sum).created = sum.created
         /\ Settled(OneUpdated(sum)) = Settled(sum) + 1
         /\ OneSkipped(sum) \in Summary /\ OneSkipped(sum).fetched = sum.fetched /\ OneSkipped(sum).created = sum.created
         /\ Settled(OneSkipped(sum)) = Settled(sum) + 1
  BY DEF Summary, OneCreated, OneUpdated, OneSkipped, Settled

\* One that is not inserted is counted all the same.
LEMMA PostingPassed ==
  ASSUME IngestInv, NEW r \in IngestRun, pull[r].phase # "idle", pull[r].got # << >>,
         NEW sum, sum = OneUpdated(pull[r].sum) \/ sum = OneSkipped(pull[r].sum),
         NEW q, q = Counted(r, sum), pull' = [pull EXCEPT ![r] = q],
         UNCHANGED <<pullClock, board, inserted, ledgerOf, pulls, lastRequest, crowded>>,
         stored' \in [Ad -> {NotStored} \cup StoredRow], RowsAreInserted',
         \A a \in Ad : stored[a] # NotStored => stored'[a] # NotStored
  PROVE  IngestInv'
  <1>1. IngestTypes /\ RunStands(pull[r]) /\ pull[r].sum \in Summary
    BY DEF IngestInv, IngestTypes, Pull
  <1>2. sum \in Summary /\ sum.fetched = pull[r].sum.fetched /\ sum.created = pull[r].sum.created /\ Settled(sum) = Settled(pull[r].sum) + 1
    BY <1>1, CountedByOne, Zenon
  <1>3. q \in Pull /\ q.phase = "upsert" /\ q.by = pull[r].by /\ q.sum = sum /\ sum.fetched = Settled(sum) + Len(q.got)
    BY <1>1, <1>2, PostingCounted
  <1>4. RunStands(q)
    BY <1>1, <1>2, <1>3 DEF RunStands
  <1>5. PacesStand' /\ lastRequest' \in Int /\ crowded' \in BOOLEAN
    BY <1>1, <1>3, PacesGoOn, Zenon DEF IngestTypes
  <1> QED BY <1>3, <1>4, <1>5, RunMoves, Zenon

LEMMA UpsertKeeps == ASSUME IngestInv, NEW r \in IngestRun, Upsert(r) PROVE IngestInv'
  <1>0. IngestTypes /\ RunStands(pull[r]) /\ RowsAreInserted /\ pull[r].phase = "upsert" /\ pull[r] \in Pull
        /\ UNCHANGED <<pullClock, board, stored, lastRequest, pulls, inserted, crowded>>
    BY DEF IngestInv, Upsert, IngestTypes
  <1>1. lastRequest' \in Int /\ stored' \in [Ad -> {NotStored} \cup StoredRow] /\ RowsAreInserted' /\ crowded' \in BOOLEAN
    BY <1>0 DEF IngestTypes, RowsAreInserted
  <1>2. CASE pull[r].got = << >> /\ EndPull(r, pull[r].sum)
    <2>1. pull[r].sum \in Summary /\ pull[r].sum.fetched = Settled(pull[r].sum)
      BY <1>0, <1>2 DEF RunStands, Pull, Summary, Settled
    <2>2. pull' = [pull EXCEPT ![r] = Resting] /\ Resting.phase # "ask"
      BY <1>2 DEF EndPull, Resting
    <2>3. PacesStand'
      BY <1>0, <2>2, PacesGoOn, Zenon
    <2> QED BY <1>0, <1>1, <1>2, <2>1, <2>3, RunEnds
  <1>3. CASE pull[r].got # << >> /\ pull' = [pull EXCEPT ![r].phase = "find"] /\ UNCHANGED ledgerOf
    <2>1. PICK q : q = [pull[r] EXCEPT !.phase = "find"]
      BY Zenon
    <2>2. pull' = [pull EXCEPT ![r] = q]
      BY <1>0, <1>3, <2>1 DEF IngestTypes
    <2>3. q \in Pull /\ q.phase = "find" /\ q.by = pull[r].by /\ q.sum = pull[r].sum /\ q.got = pull[r].got
      BY <1>0, <2>1, Zenon DEF Pull, PullPhases
    <2>4. RunStands(q)
      BY <1>0, <1>3, <2>3 DEF RunStands
    <2>5. PacesStand'
      BY <1>0, <2>2, <2>3, PacesGoOn, Zenon
    <2> QED BY <1>0, <1>1, <1>3, <2>2, <2>3, <2>4, <2>5, RunMoves, Zenon
  <1>4. CASE pull[r].got # << >> /\ pull' = [pull EXCEPT ![r] = Counted(r, OneSkipped(pull[r].sum))] /\ UNCHANGED ledgerOf
    BY <1>0, <1>1, <1>4, PostingPassed, Zenon
  <1> QED BY <1>2, <1>3, <1>4 DEF Upsert

LEMMA FindPostingKeeps == ASSUME IngestInv, NEW r \in IngestRun, FindPosting(r) PROVE IngestInv'
  <1>0. IngestTypes /\ RunStands(pull[r]) /\ RowsAreInserted /\ pull[r].phase = "find" /\ pull[r] \in Pull
        /\ UNCHANGED <<pullClock, board, stored, lastRequest, pulls, ledgerOf, inserted, crowded>>
    BY DEF IngestInv, FindPosting, IngestTypes
  <1>1. lastRequest' \in Int /\ stored' \in [Ad -> {NotStored} \cup StoredRow] /\ RowsAreInserted' /\ crowded' \in BOOLEAN
    BY <1>0 DEF IngestTypes, RowsAreInserted
  <1>2. PICK known \in BOOLEAN : known = (stored[Head(pull[r].got).ad] # NotStored)
    BY Zenon
  <1>3. PICK q : q = [pull[r] EXCEPT !.phase = "write", !.found = known]
    OBVIOUS
  <1>4. pull' = [pull EXCEPT ![r] = q]
    BY <1>0, <1>2, <1>3, Zenon DEF FindPosting, IngestTypes
  <1>5. q \in Pull /\ q.phase = "write" /\ q.by = pull[r].by /\ q.sum = pull[r].sum /\ q.got = pull[r].got /\ q.found = known
    BY <1>0, <1>3, Zenon DEF Pull, PullPhases
  <1>6. RunStands(q)
    BY <1>0, <1>2, <1>5, Zenon DEF RunStands
  <1>7. PacesStand'
    BY <1>0, <1>4, <1>5, PacesGoOn, Zenon
  <1> QED BY <1>0, <1>1, <1>4, <1>5, <1>6, <1>7, RunMoves, Zenon

LEMMA RefreshedIs ==
  ASSUME IngestTypes, NEW item \in Fetched, NEW entry \in {NotStored} \cup StoredRow
  PROVE  Refreshed(entry, item.text) \in StoredRow
  <1>1. item.text \in NormalTexts
    BY DEF Fetched
  <1>2. entry.terms \in {text.terms : text \in NormalTexts} \cup {Unstated}
    BY DEF NotStored, StoredRow
  <1>3. pullClock \in Nat
    BY DEF IngestTypes
  <1> QED BY <1>1, <1>2, <1>3 DEF Refreshed, StoredRow

LEMMA RowsAreNot == \A entry \in StoredRow : entry # NotStored
  BY DEF StoredRow, NotStored

\* The row a run inserts is one more that it counts, and of no other run.
LEMMA PostingInserted ==
  ASSUME IngestInv, NEW r \in IngestRun, pull[r].phase = "write", pull[r].got # << >>, NEW ad \in Ad, stored[ad] = NotStored,
         NEW fresh \in StoredRow, stored' = [stored EXCEPT ![ad] = fresh],
         pull' = [pull EXCEPT ![r] = Counted(r, OneCreated(pull[r].sum))], inserted' = [inserted EXCEPT ![ad] = pull[r].by],
         UNCHANGED <<pullClock, board, lastRequest, pulls, ledgerOf, crowded>>
  PROVE  IngestInv'
  <1>0. IngestTypes /\ (\A x \in IngestRun : RunStands(pull[x])) /\ RunsApart /\ LedgerStands /\ RowsAreInserted
        /\ pull[r].sum \in Summary
    BY DEF IngestInv, IngestTypes, Pull
  <1>1. PICK sum : sum = OneCreated(pull[r].sum)
    OBVIOUS
  <1>2. sum \in Summary /\ sum.fetched = pull[r].sum.fetched /\ sum.created = pull[r].sum.created + 1 /\ Settled(sum) = Settled(pull[r].sum) + 1
    BY <1>0, <1>1, CountedByOne, Zenon
  <1>3. PICK q : q = Counted(r, sum)
    OBVIOUS
  <1>4. q \in Pull /\ q.phase = "upsert" /\ q.by = pull[r].by /\ q.sum = sum /\ sum.fetched = Settled(sum) + Len(q.got)
    BY <1>0, <1>2, <1>3, PostingCounted
  <1>5. pull' = [pull EXCEPT ![r] = q]
    BY <1>1, <1>3
  <1>6. pull'[r] = q /\ \A x \in IngestRun : x # r => pull'[x] = pull[x]
    BY <1>0, <1>5 DEF IngestTypes
  <1>7. PICK n : n = pull[r].by
    OBVIOUS
  <1>8. n \in 1 .. pulls /\ n # NoRun /\ pulls \in Nat
    BY <1>0, <1>7 DEF RunStands, NoRun, IngestTypes
  <1>9. fresh # NotStored /\ inserted[ad] = NoRun
    BY <1>0, RowsAreNot DEF RowsAreInserted
  <1>10. inserted' = [inserted EXCEPT ![ad] = n] /\ inserted \in [Ad -> 0 .. pulls] /\ stored \in [Ad -> {NotStored} \cup StoredRow]
    BY <1>0, <1>7 DEF IngestTypes
  <1>11. IngestTypes'
    <2>1. inserted' \in [Ad -> 0 .. pulls']
      BY <1>8, <1>10
    <2>2. stored' \in [Ad -> {NotStored} \cup StoredRow]
      BY <1>10
    <2> QED BY <1>0, <1>4, <1>5, <2>1, <2>2 DEF IngestTypes
  <1>12. RowsInsertedBy(n)' = RowsInsertedBy(n) \cup {ad} /\ ad \notin RowsInsertedBy(n)
    BY <1>8, <1>9, <1>10 DEF RowsInsertedBy
  <1>13. Cardinality(RowsInsertedBy(n)') = Cardinality(RowsInsertedBy(n)) + 1
    BY <1>0, <1>12, CountsAreNumbers, FS_AddElement, Zenon
  <1>14. \A m \in 1 .. pulls : m # n => RowsInsertedBy(m)' = RowsInsertedBy(m)
    BY <1>9, <1>10 DEF RowsInsertedBy, NoRun
  <1>15. ASSUME NEW x \in IngestRun PROVE RunStands(pull[x])'
    <2>1. CASE x = r
      <3>1. pull[r].sum.created = Cardinality(RowsInsertedBy(n))
        BY <1>0, <1>7 DEF RunStands
      <3>2. sum.created = Cardinality(RowsInsertedBy(n)')
        BY <1>2, <1>13, <3>1
      <3> QED BY <1>4, <1>6, <1>7, <1>8, <2>1, <3>2 DEF RunStands, Settled
    <2>2. CASE x # r
      <3>0. PICK m : m = pull[x].by
        OBVIOUS
      <3>1. pull[x].phase # "idle" => m \in 1 .. pulls /\ m # n
        BY <1>0, <1>7, <2>2, <3>0 DEF RunStands, RunsApart
      <3>2. pull[x].phase # "idle" => RowsInsertedBy(m)' = RowsInsertedBy(m)
        BY <1>14, <3>1
      <3>3. \A a \in Ad : stored[a] # NotStored => stored'[a] # NotStored
        BY <1>9, <1>10
      <3>4. pull[x].phase = "write" /\ pull[x].got # << >> => Head(pull[x].got).ad \in Ad
        <4>1. pull[x].got \in Seq(Fetched)
          BY <1>0 DEF IngestTypes, Pull
        <4>2. pull[x].got # << >> => Head(pull[x].got) \in Fetched
          BY <4>1
        <4> QED BY <4>2 DEF Fetched
      <3> QED BY <1>0, <1>6, <2>2, <3>0, <3>2, <3>3, <3>4 DEF RunStands, Settled
    <2> QED BY <2>1, <2>2
  <1>16. RunsApart'
    BY <1>0, <1>4, <1>6 DEF RunsApart
  <1>17. LedgerStands'
    <2>1. ASSUME NEW e \in ledgerOf PROVE e.by \in 1 .. pulls /\ e.by # n /\ e.sum.created = Cardinality(RowsInsertedBy(e.by)')
      <3>1. e.by \in 1 .. pulls /\ e.by # n
        BY <1>0, <1>7, <2>1 DEF LedgerStands, IngestTypes
      <3> QED BY <1>0, <1>14, <2>1, <3>1 DEF LedgerStands
    <2>2. \A e \in ledgerOf : \A x \in IngestRun : pull'[x].phase # "idle" => pull'[x].by # e.by
      BY <1>0, <1>6, <1>7, <2>1, <1>4 DEF LedgerStands
    <2>3. \A e \in ledgerOf : e.sum.fetched = Settled(e.sum)
      BY <1>0 DEF LedgerStands
    <2> QED BY <2>1, <2>2, <2>3 DEF LedgerStands, Settled
  <1>18. RowsAreInserted'
    BY <1>0, <1>8, <1>9, <1>10 DEF RowsAreInserted
  <1>19. PacesStand'
    BY <1>0, <1>4, <1>5, PacesGoOn, Zenon
  <1> QED BY <1>11, <1>15, <1>16, <1>17, <1>18, <1>19 DEF IngestInv

LEMMA WritePostingKeeps == ASSUME IngestInv, NEW r \in IngestRun, WritePosting(r) PROVE IngestInv'
  <1>0. IngestTypes /\ RunStands(pull[r]) /\ RowsAreInserted /\ pull[r].phase = "write" /\ pull[r] \in Pull
        /\ UNCHANGED <<pullClock, board, lastRequest, pulls, ledgerOf, crowded>> /\ pull[r].got # << >>
    BY DEF IngestInv, WritePosting, IngestTypes, RunStands
  <1>1. PICK item : item = Head(pull[r].got)
    OBVIOUS
  <1>2. item \in Fetched /\ item.ad \in Ad
    <2>1. pull[r].got \in Seq(Fetched)
      BY <1>0 DEF Pull
    <2>2. item \in Fetched
      BY <1>0, <1>1, <2>1
    <2> QED BY <2>2 DEF Fetched
  <1>3. PICK entry : entry = stored[item.ad]
    OBVIOUS
  <1>4. entry \in {NotStored} \cup StoredRow /\ pull[r].sum \in Summary
    BY <1>0, <1>2, <1>3 DEF IngestTypes, Pull
  <1>5. pull[r].found => entry # NotStored
    BY <1>0, <1>1, <1>3 DEF RunStands
  <1>6. \/ /\ pull[r].found /\ stored' = [stored EXCEPT ![item.ad] = Refreshed(entry, item.text)]
           /\ pull' = [pull EXCEPT ![r] = Counted(r, OneUpdated(pull[r].sum))] /\ UNCHANGED inserted
        \/ /\ entry = NotStored /\ stored' = [stored EXCEPT ![item.ad] = Refreshed(NotStored, item.text)]
           /\ pull' = [pull EXCEPT ![r] = Counted(r, OneCreated(pull[r].sum))]
           /\ inserted' = [inserted EXCEPT ![item.ad] = pull[r].by]
        \/ pull' = [pull EXCEPT ![r] = Counted(r, OneSkipped(pull[r].sum))] /\ UNCHANGED <<stored, inserted>>
    BY <1>1, <1>3 DEF WritePosting
  <1>7. CASE /\ pull[r].found /\ stored' = [stored EXCEPT ![item.ad] = Refreshed(entry, item.text)]
             /\ pull' = [pull EXCEPT ![r] = Counted(r, OneUpdated(pull[r].sum))] /\ UNCHANGED inserted
    <2>1. PICK fresh : fresh = Refreshed(entry, item.text)
      OBVIOUS
    <2>2. fresh \in StoredRow /\ fresh # NotStored
      BY <1>0, <1>2, <1>4, <2>1, RefreshedIs, RowsAreNot
    <2>3. stored' = [stored EXCEPT ![item.ad] = fresh] /\ stored \in [Ad -> {NotStored} \cup StoredRow]
      BY <1>0, <1>7, <2>1 DEF IngestTypes
    <2>4. stored' \in [Ad -> {NotStored} \cup StoredRow] /\ \A a \in Ad : stored'[a] # NotStored <=> stored[a] # NotStored
      BY <1>2, <1>3, <1>5, <1>7, <2>2, <2>3
    <2>5. RowsAreInserted'
      BY <1>0, <1>7, <2>4 DEF RowsAreInserted
    <2>6. PICK q : q = Counted(r, OneUpdated(pull[r].sum))
      OBVIOUS
    <2> QED BY <1>0, <1>7, <2>4, <2>5, <2>6, PostingPassed, Zenon
  <1>8. CASE pull' = [pull EXCEPT ![r] = Counted(r, OneSkipped(pull[r].sum))] /\ UNCHANGED <<stored, inserted>>
    <2>1. stored' \in [Ad -> {NotStored} \cup StoredRow] /\ RowsAreInserted' /\ \A a \in Ad : stored[a] # NotStored => stored'[a] # NotStored
      BY <1>0, <1>8 DEF IngestTypes, RowsAreInserted
    <2>2. PICK q : q = Counted(r, OneSkipped(pull[r].sum))
      OBVIOUS
    <2> QED BY <1>0, <1>8, <2>1, <2>2, PostingPassed, Zenon
  <1>9. CASE /\ entry = NotStored /\ stored' = [stored EXCEPT ![item.ad] = Refreshed(NotStored, item.text)]
             /\ pull' = [pull EXCEPT ![r] = Counted(r, OneCreated(pull[r].sum))]
             /\ inserted' = [inserted EXCEPT ![item.ad] = pull[r].by]
    <2>1. PICK fresh : fresh = Refreshed(NotStored, item.text)
      OBVIOUS
    <2>2. fresh \in StoredRow /\ fresh # NotStored
      BY <1>0, <1>2, <2>1, RefreshedIs, RowsAreNot
    <2>3. PICK ad \in Ad : ad = item.ad
      BY <1>2
    <2> QED BY <1>0, <1>1, <1>2, <1>3, <1>9, <2>1, <2>2, <2>3, PostingInserted, Zenon
  <1> QED BY <1>6, <1>7, <1>8, <1>9

LEMMA PublishKeeps == ASSUME IngestInv, Publish PROVE IngestInv'
  <1>0. IngestTypes /\ (\A r \in IngestRun : RunStands(pull[r])) /\ RunsApart /\ LedgerStands /\ RowsAreInserted
        /\ UNCHANGED <<pullClock, stored, pull, lastRequest, pulls, ledgerOf, inserted, crowded>>
    BY DEF IngestInv, Publish
  <1>1. \A n : RowsInsertedBy(n)' = RowsInsertedBy(n)
    BY <1>0 DEF RowsInsertedBy
  <1>2. PICK a \in Ad, text \in AdTexts : board' = [board EXCEPT !.text[a] = text]
    BY DEF Publish
  <1>3. PICK texts : texts = [board.text EXCEPT ![a] = text]
    BY Zenon
  <1>4. board' = [board EXCEPT !.text = texts] /\ texts \in [Ad -> AdTexts]
    BY <1>0, <1>2, <1>3 DEF IngestTypes
  <1>5. board' \in [kind : BoardKinds, text : [Ad -> AdTexts]] /\ board'.kind = board.kind
    BY <1>0, <1>4 DEF IngestTypes
  <1>6. IngestTypes'
    BY <1>0, <1>5 DEF IngestTypes
  <1>7. (\A r \in IngestRun : RunStands(pull[r])') /\ RunsApart' /\ LedgerStands' /\ RowsAreInserted'
    BY <1>0, <1>1 DEF RunStands, Settled, RunsApart, LedgerStands, RowsAreInserted
  <1>8. PacesStand'
    BY <1>0, <1>5 DEF IngestInv, PacesStand, Polite
  <1> QED BY <1>6, <1>7, <1>8 DEF IngestInv

LEMMA WaitKeeps == ASSUME IngestInv, Wait \/ UNCHANGED ingestVars PROVE IngestInv'
  <1>0. IngestTypes /\ (\A r \in IngestRun : RunStands(pull[r])) /\ RunsApart /\ LedgerStands /\ RowsAreInserted
        /\ pullClock' \in Nat /\ UNCHANGED <<board, stored, pull, lastRequest, pulls, ledgerOf, inserted, crowded>>
    BY DEF IngestInv, IngestTypes, Wait, ingestVars
  <1>1. \A n : RowsInsertedBy(n)' = RowsInsertedBy(n)
    BY <1>0 DEF RowsInsertedBy
  <1>2. IngestTypes'
    BY <1>0 DEF IngestTypes
  <1>3. (\A r \in IngestRun : RunStands(pull[r])') /\ RunsApart' /\ LedgerStands' /\ RowsAreInserted' /\ PacesStand'
    BY <1>0, <1>1 DEF IngestInv, RunStands, Settled, RunsApart, LedgerStands, RowsAreInserted, PacesStand, Polite
  <1> QED BY <1>2, <1>3 DEF IngestInv

LEMMA IngestStep == IngestInv /\ [IngestNext]_ingestVars => IngestInv'
  <1> SUFFICES ASSUME IngestInv, [IngestNext]_ingestVars PROVE IngestInv'
    OBVIOUS
  <1>1. ASSUME NEW r \in IngestRun, StartPull(r) \/ Pace(r) \/ AskBoard(r) \/ Upsert(r) \/ FindPosting(r) \/ WritePosting(r)
        PROVE  IngestInv'
    BY <1>1, StartPullKeeps, PaceKeeps, AskBoardKeeps, UpsertKeeps, FindPostingKeeps, WritePostingKeeps
  <1>2. CASE Publish
    BY <1>2, PublishKeeps
  <1>3. CASE Wait \/ UNCHANGED ingestVars
    BY <1>3, WaitKeeps
  <1> QED BY <1>1, <1>2, <1>3 DEF IngestNext

LEMMA IngestSound == IngestInv => SummariesAddUp
  <1> SUFFICES ASSUME IngestInv PROVE SummariesAddUp
    OBVIOUS
  <1>1. ASSUME NEW e \in ledgerOf PROVE e.sum.fetched = e.sum.created + e.sum.updated + e.sum.skipped
                                       /\ e.sum.created = Cardinality({a \in Ad : inserted[a] = e.by})
    BY <1>1 DEF IngestInv, LedgerStands, Settled, RowsInsertedBy
  <1>2. ASSUME NEW r \in Polled PROVE pull[r].sum.created = Cardinality({a \in Ad : inserted[a] = pull[r].by})
    BY <1>2 DEF IngestInv, Polled, RunStands, RowsInsertedBy
  <1>3. \A a \in Ad : stored[a] # NotStored <=> inserted[a] # NoRun
    BY DEF IngestInv, RowsAreInserted
  <1> QED BY <1>1, <1>2, <1>3, Zenon DEF SummariesAddUp

LEMMA SilenceHolds == IngestInv /\ [IngestNext]_ingestVars => SilenceErasesNothing
  <1> SUFFICES ASSUME IngestInv, [IngestNext]_ingestVars PROVE SilenceErasesNothing
    OBVIOUS
  <1>1. IngestTypes /\ \A r \in IngestRun : RunStands(pull[r])
    BY DEF IngestInv
  <1>2. CASE UNCHANGED stored
    BY <1>2 DEF SilenceErasesNothing
  <1>3. ASSUME NEW r \in IngestRun, WritePosting(r), ~UNCHANGED stored PROVE SilenceErasesNothing
    <2>1. PICK item : item = Head(pull[r].got)
      OBVIOUS
    <2>3. stored' = [stored EXCEPT ![item.ad] = Refreshed(stored[item.ad], item.text)]
      BY <1>3, <2>1 DEF WritePosting
    <2>4. PICK fresh : fresh = Refreshed(stored[item.ad], item.text)
      OBVIOUS
    <2>5. fresh.terms = stored[item.ad].terms \/ fresh.terms # Unstated
      BY <2>4 DEF Refreshed
    <2> QED BY <1>1, <2>3, <2>4, <2>5 DEF SilenceErasesNothing, IngestTypes
  <1>4. \A r \in IngestRun : StartPull(r) \/ Pace(r) \/ AskBoard(r) \/ Upsert(r) \/ FindPosting(r) => UNCHANGED stored
    BY DEF StartPull, Pace, AskBoard, Upsert, FindPosting
  <1> QED BY <1>2, <1>3, <1>4 DEF IngestNext, Publish, Wait, ingestVars

LEMMA PacedHolds == IngestInv /\ [IngestNext]_ingestVars => RequestsArePaced
  <1> SUFFICES ASSUME IngestInv, [IngestNext]_ingestVars, Polite, ~crowded,
                      NEW r \in IngestRun, pull[r].phase = "ask", pull'[r].phase # "ask"
               PROVE  lastRequest' - lastRequest >= MinInterval
    BY DEF RequestsArePaced
  <1>1. IngestTypes /\ PacesStand
    BY DEF IngestInv
  <1>2. pull[r].wakes - lastRequest >= MinInterval /\ pull[r].wakes \in Int
    BY <1>1 DEF PacesStand, IngestTypes, Pull
  <1>3. ASSUME NEW q \in IngestRun, StartPull(q) \/ Pace(q) \/ Upsert(q) \/ FindPosting(q) \/ WritePosting(q) PROVE FALSE
    <2>1. pull[q].phase # "ask"
      BY <1>3 DEF StartPull, Pace, Upsert, FindPosting, WritePosting
    <2>2. q # r
      BY <2>1
    <2>3. pull'[r] = pull[r]
      BY <1>1, <1>3, <2>2 DEF IngestTypes, StartPull, Pace, Upsert, FindPosting, WritePosting, EndPull
    <2> QED BY <2>3
  <1>4. ASSUME NEW q \in IngestRun, AskBoard(q) PROVE lastRequest' - lastRequest >= MinInterval
    <2>1. q = r
      BY <1>1, <1>4 DEF PacesStand, AskBoard
    <2>2. lastRequest' = pullClock /\ pullClock >= pull[r].wakes
      BY <1>4, <2>1 DEF AskBoard
    <2> QED BY <1>1, <1>2, <2>2, IngestAssumption DEF IngestTypes
  <1>5. ~UNCHANGED pull
    OBVIOUS
  <1> QED BY <1>3, <1>4, <1>5 DEF IngestNext, Publish, Wait, ingestVars

-----------------------------------------------------------------------------
(* Lists read out of a text. *)

BareRow == [text : Nat, authored : BOOLEAN, list : Nat]
Reading == [pc : {"next"}, todo : SUBSET Bare] \cup [pc : {"ai"}, todo : SUBSET Bare, of : Bare, text : Nat \ {NoText}]
ExtractTypes ==
  /\ bare \in [Bare -> BareRow] /\ extraction \in [IngestRun -> {NoExtraction} \cup Reading]
  /\ retells \in Nat /\ paid \in [Bare -> Nat] /\ doubled \subseteq Bare /\ retold \subseteq Bare

\* A posting is paid for once by whoever holds it, and by nobody after.
ListStands(j) ==
  /\ paid[j] > 0 => bare[j].list # NoText
  /\ bare[j].list # NoText /\ j \notin retold => bare[j].list = bare[j].text
  /\ j \notin doubled =>
       /\ paid[j] <= 1
       /\ \A x \in IngestRun : Holds(x, j) => paid[j] = 0
       /\ \A x, y \in IngestRun : Holds(x, j) /\ Holds(y, j) => x = y
ReaderStands(x) ==
  /\ extraction[x].pc # "ai" \/ extraction[x].of \notin extraction[x].todo
  /\ extraction[x].pc = "ai" /\ extraction[x].of \notin retold => extraction[x].text = bare[extraction[x].of].text
ExtractInv == ExtractTypes /\ (\A j \in Bare : ListStands(j)) /\ \A x \in IngestRun : ReaderStands(x)

LEMMA ReaderKinds ==
  ASSUME NEW e \in {NoExtraction} \cup Reading
  PROVE  /\ e.todo \subseteq Bare /\ (e.pc = "ai" => e.of \in Bare /\ e.text \in Nat /\ e.text # NoText)
         /\ e # NoExtraction <=> e.pc # "idle"
  BY DEF NoExtraction, Reading

LEMMA ExtractStart == ExtractInit => ExtractInv
  <1> SUFFICES ASSUME ExtractInit PROVE ExtractInv
    OBVIOUS
  <1>1. NoText \in Nat /\ bare \in [Bare -> BareRow] /\ \A j \in Bare : bare[j].list = NoText
    BY DEF ExtractInit, BareRow, NoText
  <1>2. ExtractTypes
    BY <1>1 DEF ExtractInit, ExtractTypes
  <1>3. \A x \in IngestRun : ReaderStands(x)
    BY DEF ExtractInit, ReaderStands, NoExtraction
  <1>4. \A j \in Bare : ListStands(j)
    BY <1>1 DEF ExtractInit, ListStands, Holds
  <1> QED BY <1>2, <1>3, <1>4 DEF ExtractInv

\* A run goes on with what it holds, or gives it up.
LEMMA ReaderMoves ==
  ASSUME ExtractInv, NEW x \in IngestRun, NEW e \in {NoExtraction} \cup Reading, extraction' = [extraction EXCEPT ![x] = e],
         UNCHANGED <<bare, retells, paid, doubled, retold>>, extraction[x] # NoExtraction,
         e.todo \subseteq extraction[x].todo,
         e.pc = "ai" => e.of \in extraction[x].todo /\ e.of \notin e.todo /\ e.text = bare[e.of].text
  PROVE  ExtractInv'
  <1>0. ExtractTypes /\ (\A j \in Bare : ListStands(j)) /\ \A y \in IngestRun : ReaderStands(y)
    BY DEF ExtractInv
  <1>1. ExtractTypes' /\ extraction'[x] = e /\ \A y \in IngestRun : y # x => extraction'[y] = extraction[y]
    BY <1>0 DEF ExtractTypes
  <1>2. ASSUME NEW y \in IngestRun, NEW j \in Bare, Holds(y, j)' PROVE Holds(y, j)
    <2>1. CASE y = x
      BY <1>1, <1>2, <2>1 DEF Holds
    <2>2. CASE y # x
      BY <1>1, <1>2, <2>2 DEF Holds
    <2> QED BY <2>1, <2>2
  <1>3. \A j \in Bare : ListStands(j)'
    BY <1>0, <1>2 DEF ListStands
  <1>4. ASSUME NEW y \in IngestRun PROVE ReaderStands(y)'
    <2>1. CASE y = x
      BY <1>1, <2>1 DEF ReaderStands
    <2>2. CASE y # x
      BY <1>0, <1>1, <2>2 DEF ReaderStands
    <2> QED BY <2>1, <2>2
  <1> QED BY <1>1, <1>3, <1>4 DEF ExtractInv

LEMMA FindPendingKeeps == ASSUME ExtractInv, NEW x \in IngestRun, FindPendingJobIds(x) PROVE ExtractInv'
  <1>0. /\ ExtractTypes /\ (\A j \in Bare : ListStands(j)) /\ (\A y \in IngestRun : ReaderStands(y))
        /\ extraction[x] = NoExtraction /\ UNCHANGED <<bare, retells, paid, retold>>
    BY DEF ExtractInv, FindPendingJobIds
  <1>1. PICK todo \in SUBSET Pending : /\ extraction' = [extraction EXCEPT ![x] = [pc |-> "next", todo |-> todo]]
                                       /\ doubled' = doubled \cup {j \in todo : \E y \in IngestRun : Holds(y, j)}
    BY Zenon DEF FindPendingJobIds
  <1>2. PICK e : e = [pc |-> "next", todo |-> todo]
    BY Zenon
  <1>3. e \in Reading /\ e.pc = "next" /\ e.todo = todo /\ todo \subseteq Bare /\ \A j \in todo : bare[j].list = NoText
    BY <1>2 DEF Reading, Pending
  <1>4. extraction'[x] = e /\ \A y \in IngestRun : y # x => extraction'[y] = extraction[y]
    BY <1>0, <1>1, <1>2 DEF ExtractTypes
  <1>5. ExtractTypes'
    BY <1>0, <1>1, <1>2, <1>3 DEF ExtractTypes
  <1>6. ASSUME NEW j \in Bare PROVE ListStands(j)'
    <2>1. ASSUME NEW y \in IngestRun, Holds(y, j)' PROVE Holds(y, j) \/ (y = x /\ j \in todo)
      BY <1>3, <1>4, <2>1 DEF Holds
    <2>2. CASE j \notin todo
      BY <1>0, <1>1, <2>1, <2>2 DEF ListStands
    <2>3. CASE j \in todo
      <3>1. paid[j] = 0
        BY <1>0, <1>3, <2>3 DEF ListStands, ExtractTypes
      <3>2. j \notin doubled' => \A y \in IngestRun : ~Holds(y, j)
        BY <1>1, <2>3
      <3> QED BY <1>0, <1>1, <2>1, <3>1, <3>2 DEF ListStands
    <2> QED BY <2>2, <2>3
  <1>7. ASSUME NEW y \in IngestRun PROVE ReaderStands(y)'
    <2>1. CASE y = x
      BY <1>3, <1>4, <2>1 DEF ReaderStands
    <2>2. CASE y # x
      BY <1>0, <1>4, <2>2 DEF ReaderStands
    <2> QED BY <2>1, <2>2
  <1> QED BY <1>5, <1>6, <1>7 DEF ExtractInv

LEMMA ReadBareKeeps == ASSUME ExtractInv, NEW x \in IngestRun, NEW j \in Bare, ReadBare(x, j) PROVE ExtractInv'
  <1>0. extraction[x] \in {NoExtraction} \cup Reading /\ bare[j] \in BareRow /\ extraction[x].pc = "next" /\ j \in extraction[x].todo
        /\ UNCHANGED <<bare, retells, paid, doubled, retold>>
    BY DEF ExtractInv, ExtractTypes, ReadBare
  <1>1. PICK rest : rest = extraction[x].todo \ {j}
    BY Zenon
  <1>2. PICK e : /\ extraction' = [extraction EXCEPT ![x] = e]
                 /\ \/ e = [pc |-> "next", todo |-> rest]
                    \/ e = [pc |-> "ai", todo |-> rest, of |-> j, text |-> bare[j].text] /\ bare[j].text # NoText
    BY <1>1, Zenon DEF ReadBare
  <1>3. rest \subseteq Bare /\ extraction[x] # NoExtraction
    BY <1>0, <1>1, ReaderKinds
  <1>4. e \in Reading /\ e.todo = rest /\ (e.pc = "ai" => e.of = j /\ e.text = bare[j].text)
    BY <1>0, <1>2, <1>3 DEF Reading, BareRow
  <1> QED BY <1>0, <1>1, <1>2, <1>3, <1>4, ReaderMoves, Zenon

LEMMA UnavailableKeeps == ASSUME ExtractInv, NEW x \in IngestRun, AiUnavailable(x) \/ EndExtraction(x) PROVE ExtractInv'
  <1>0. extraction[x] \in {NoExtraction} \cup Reading /\ extraction[x].pc \in {"ai", "next"}
        /\ UNCHANGED <<bare, retells, paid, doubled, retold>>
    BY DEF ExtractInv, ExtractTypes, AiUnavailable, EndExtraction
  <1>1. extraction[x].todo \subseteq Bare /\ extraction[x] # NoExtraction
    BY <1>0, ReaderKinds
  <1>2. PICK e : /\ extraction' = [extraction EXCEPT ![x] = e]
                 /\ e = [pc |-> "next", todo |-> extraction[x].todo] \/ e = NoExtraction
    BY DEF AiUnavailable, EndExtraction
  <1>3. e \in {NoExtraction} \cup Reading /\ e.todo \subseteq extraction[x].todo /\ e.pc # "ai"
    BY <1>1, <1>2 DEF Reading, NoExtraction
  <1> QED BY <1>0, <1>1, <1>2, <1>3, ReaderMoves, Zenon

LEMMA StoreListKeeps == ASSUME ExtractInv, NEW x \in IngestRun, StoreList(x) PROVE ExtractInv'
  <1>0. /\ ExtractTypes /\ (\A j \in Bare : ListStands(j)) /\ (\A y \in IngestRun : ReaderStands(y))
        /\ UNCHANGED <<retells, doubled, retold>>
    BY DEF ExtractInv, StoreList
  <1>1. PICK e : e = extraction[x]
    OBVIOUS
  <1>2. e \in {NoExtraction} \cup Reading /\ e.pc = "ai"
    BY <1>0, <1>1 DEF StoreList, ExtractTypes
  <1>3. PICK j, text : j = e.of /\ text = e.text
    OBVIOUS
  <1>4. /\ j \in Bare /\ text \in Nat /\ text # NoText /\ e.todo \subseteq Bare /\ j \notin e.todo /\ (j \notin retold => text = bare[j].text)
        /\ Holds(x, j) /\ bare[j] \in BareRow
    BY <1>0, <1>1, <1>2, <1>3, ReaderKinds DEF ReaderStands, Holds, ExtractTypes
  <1>5. PICK shown : shown = [bare[j] EXCEPT !.list = text]
    BY Zenon
  <1>6. shown \in BareRow /\ shown.list = text /\ shown.text = bare[j].text
    BY <1>4, <1>5 DEF BareRow
  <1>7. PICK f : f = [pc |-> "next", todo |-> e.todo]
    BY Zenon
  <1>8. f \in Reading /\ f.pc = "next" /\ f.todo = e.todo
    BY <1>4, <1>7 DEF Reading
  <1>9. bare' = [bare EXCEPT ![j] = shown] /\ paid' = [paid EXCEPT ![j] = @ + 1] /\ extraction' = [extraction EXCEPT ![x] = f]
    BY <1>0, <1>1, <1>3, <1>5, <1>7 DEF StoreList, ExtractTypes
  <1>10. /\ bare'[j] = shown /\ paid'[j] = paid[j] + 1 /\ extraction'[x] = f
         /\ \A k \in Bare : k # j => bare'[k] = bare[k] /\ paid'[k] = paid[k]
         /\ \A y \in IngestRun : y # x => extraction'[y] = extraction[y]
    BY <1>0, <1>4, <1>9 DEF ExtractTypes
  <1>11. ExtractTypes'
    BY <1>0, <1>4, <1>6, <1>8, <1>9 DEF ExtractTypes
  <1>12. ASSUME NEW y \in IngestRun, NEW k \in Bare, Holds(y, k)' PROVE Holds(y, k) /\ ~(y = x /\ k = j)
    BY <1>1, <1>2, <1>4, <1>8, <1>10, <1>12, ReaderKinds DEF Holds
  <1>13. ASSUME NEW k \in Bare PROVE ListStands(k)'
    <2>1. CASE k # j
      BY <1>0, <1>10, <1>12, <2>1 DEF ListStands
    <2>2. CASE k = j
      <3>1. bare'[j].list # NoText /\ (j \notin retold => bare'[j].list = bare'[j].text)
        BY <1>4, <1>6, <1>10
      <3>2. ASSUME j \notin doubled PROVE paid'[j] <= 1 /\ \A y \in IngestRun : ~Holds(y, j)'
        <4>1. paid[j] = 0 /\ \A y \in IngestRun : Holds(y, j) => y = x
          BY <1>0, <1>4, <3>2 DEF ListStands
        <4> QED BY <1>4, <1>10, <1>12, <4>1
      <3> QED BY <1>0, <2>2, <3>1, <3>2 DEF ListStands
    <2> QED BY <2>1, <2>2
  <1>14. ASSUME NEW y \in IngestRun PROVE ReaderStands(y)'
    <2>1. CASE y = x
      BY <1>8, <1>10, <2>1 DEF ReaderStands
    <2>2. CASE y # x
      <3>1. extraction[y] \in {NoExtraction} \cup Reading
        BY <1>0 DEF ExtractTypes
      <3>2. extraction[y].pc = "ai" => bare'[extraction[y].of].text = bare[extraction[y].of].text
        BY <1>6, <1>10, <3>1, ReaderKinds
      <3> QED BY <1>0, <1>10, <2>2, <3>2 DEF ReaderStands
    <2> QED BY <2>1, <2>2
  <1> QED BY <1>11, <1>13, <1>14 DEF ExtractInv

LEMMA RetellKeeps == ASSUME ExtractInv, NEW j \in Bare, NEW authored \in BOOLEAN, Retell(j, authored) PROVE ExtractInv'
  <1>0. /\ ExtractTypes /\ (\A k \in Bare : ListStands(k)) /\ (\A y \in IngestRun : ReaderStands(y))
        /\ UNCHANGED <<extraction, paid, doubled>> /\ retells' = retells + 1
    BY DEF ExtractInv, Retell
  <1>1. PICK shown : shown = [bare[j] EXCEPT !.text = retells + 2, !.authored = authored]
    OBVIOUS
  <1>2. bare[j] \in BareRow /\ retells + 2 \in Nat
    BY <1>0 DEF ExtractTypes
  <1>3. shown \in BareRow /\ shown.list = bare[j].list
    BY <1>1, <1>2, Zenon DEF BareRow
  <1>4. bare' = [bare EXCEPT ![j] = shown]
    BY <1>0, <1>1, Zenon DEF Retell, ExtractTypes
  <1>5. bare'[j] = shown /\ \A k \in Bare : k # j => bare'[k] = bare[k]
    BY <1>0, <1>4 DEF ExtractTypes
  <1>6. /\ retold' \subseteq Bare /\ retold \subseteq retold' /\ (bare[j].list # NoText => j \in retold')
        /\ \A x \in IngestRun : extraction[x].pc = "ai" /\ extraction[x].of = j => j \in retold'
    BY <1>0 DEF Retell, ExtractTypes
  <1>7. ExtractTypes'
    <2>1. retells' \in Nat
      BY <1>0 DEF ExtractTypes
    <2> QED BY <1>0, <1>3, <1>4, <1>6, <2>1 DEF ExtractTypes
  <1>8. ASSUME NEW k \in Bare PROVE ListStands(k)'
    <2>1. \A y \in IngestRun : Holds(y, k)' <=> Holds(y, k)
      BY <1>0 DEF Holds
    <2>2. CASE k # j
      BY <1>0, <1>5, <1>6, <2>1, <2>2 DEF ListStands
    <2>3. CASE k = j
      BY <1>0, <1>3, <1>5, <1>6, <2>1, <2>3 DEF ListStands
    <2> QED BY <2>2, <2>3
  <1>9. ASSUME NEW y \in IngestRun PROVE ReaderStands(y)'
    <2>1. extraction[y] \in {NoExtraction} \cup Reading
      BY <1>0 DEF ExtractTypes
    <2>2. extraction[y].pc = "ai" /\ extraction[y].of # j => bare'[extraction[y].of] = bare[extraction[y].of]
      BY <1>5, <2>1, ReaderKinds
    <2> QED BY <1>0, <1>6, <2>2 DEF ReaderStands
  <1> QED BY <1>7, <1>8, <1>9 DEF ExtractInv

LEMMA ExtractStep == ExtractInv /\ [ExtractNext]_extractVars => ExtractInv'
  <1> SUFFICES ASSUME ExtractInv, [ExtractNext]_extractVars PROVE ExtractInv'
    OBVIOUS
  <1>1. CASE UNCHANGED extractVars
    BY <1>1 DEF extractVars, ExtractInv, ExtractTypes, ListStands, ReaderStands, Holds
  <1>2. CASE ExtractNext
    BY <1>2, FindPendingKeeps, ReadBareKeeps, UnavailableKeeps, StoreListKeeps, RetellKeeps DEF ExtractNext
  <1> QED BY <1>1, <1>2

LEMMA ExtractSound == ExtractInv => ListsAreRead
  <1> SUFFICES ASSUME ExtractInv, NEW j \in Bare
               PROVE  /\ j \notin doubled => paid[j] <= 1
                      /\ EffectiveList(j) = "AI_EXTRACTED" => (bare[j].list = bare[j].text \/ j \in retold)
                      /\ paid[j] > 0 => bare[j].list # NoText
    BY DEF ListsAreRead
  <1> QED BY DEF ExtractInv, ListStands, EffectiveList

LEMMA EmployersHold == ExtractInv /\ [ExtractNext]_extractVars => EmployersListStays
  <1> SUFFICES ASSUME ExtractInv, [ExtractNext]_extractVars, NEW j \in Bare, bare[j].authored PROVE bare'[j].authored
    BY DEF EmployersListStays, EffectiveList
  <1>1. bare \in [Bare -> BareRow]
    BY DEF ExtractInv, ExtractTypes
  <1>2. CASE UNCHANGED bare
    BY <1>2
  <1>3. CASE \E x \in IngestRun : StoreList(x)
    <2>1. PICK e : bare' = [bare EXCEPT ![e.of].list = e.text]
      BY <1>3, Zenon DEF StoreList
    <2> QED BY <1>1, <2>1 DEF BareRow
  <1>4. CASE \E k \in Bare, authored \in BOOLEAN : (bare[k].authored => authored) /\ Retell(k, authored)
    <2>1. PICK k \in Bare, authored \in BOOLEAN :
            (bare[k].authored => authored) /\ bare' = [bare EXCEPT ![k].text = retells + 2, ![k].authored = authored]
      BY <1>4, Zenon DEF Retell
    <2> QED BY <1>1, <2>1 DEF BareRow
  <1> QED BY <1>2, <1>3, <1>4 DEF ExtractNext, extractVars, FindPendingJobIds, ReadBare, AiUnavailable, EndExtraction

-----------------------------------------------------------------------------
(* The directory. *)

IdentityKey == [strong : BOOLEAN, of : {n.words : n \in Names} \cup {s.host : s \in Sites} \cup {c.host : c \in Contacts}]
DirectoryRow ==
  [held : {TRUE}, name : Names, site : Sites \cup {NoSite}, key : IdentityKey,
   domain : {s.host : s \in Sites} \cup {c.host : c \in Contacts} \cup {NoHost}]
Proposal == [pc : {"insert"}, name : Names, site : Sites, contact : Contacts]

DirectoryTypes ==
  /\ directory \in [Firm -> {NoFirm} \cup DirectoryRow] /\ proposal \in [Admin -> {NoProposal} \cup Proposal]
  /\ hiredBy \in [Names -> Firm \cup {NoOne}] /\ resited \subseteq Firm
\* A row is its key; while no employer wrote another website over it, the website is the domain.
KeysStand ==
  \A f \in Firm : Held(f) /\ f \notin resited /\ NormalizeDomain(directory[f].site) # NoHost
    => directory[f].domain = NormalizeDomain(directory[f].site)
PostedUnder ==
  \A n \in Names : hiredBy[n] # NoOne => Held(hiredBy[n]) /\ directory[hiredBy[n]].key = WeakKey(n)
CompanyInv == DirectoryTypes /\ DomainIdentifies /\ KeysStand /\ PostedUnder

\* A new row, under a key nobody has.
LEMMA RowAdded ==
  ASSUME CompanyInv, NEW f \in Free, NEW r \in DirectoryRow, directory' = [directory EXCEPT ![f] = r], resited' = resited,
         \A g \in Firm : Held(g) => directory[g].key # r.key,
         IF r.domain = NoHost THEN ~ r.key.strong ELSE r.key = [strong |-> TRUE, of |-> r.domain],
         NormalizeDomain(r.site) # NoHost => r.domain = NormalizeDomain(r.site)
  PROVE  /\ directory' \in [Firm -> {NoFirm} \cup DirectoryRow] /\ DomainIdentifies' /\ KeysStand'
         /\ \A g \in Firm : Held(g) => Held(g)' /\ directory'[g] = directory[g]
         /\ f \in Firm /\ Held(f)' /\ directory'[f] = r
  <1>1. f \in Firm /\ ~Held(f) /\ r.held /\ directory \in [Firm -> {NoFirm} \cup DirectoryRow]
    BY Zenon DEF Free, CompanyInv, DirectoryTypes, DirectoryRow
  <1>2. \A g \in Firm : directory'[g] = IF g = f THEN r ELSE directory[g]
    BY <1>1
  <1>3. \A g \in Firm : Held(g)' <=> g = f \/ Held(g)
    BY <1>1, <1>2 DEF Held
  <1>4. DomainIdentifies'
    BY <1>1, <1>2, <1>3, Zenon DEF CompanyInv, DomainIdentifies
  <1>5. KeysStand'
    BY <1>1, <1>2, <1>3 DEF CompanyInv, KeysStand
  <1> QED BY <1>1, <1>2, <1>3, <1>4, <1>5

LEMMA CompanyStart == CompaniesInit => CompanyInv
  BY CompaniesAssumption DEF CompaniesInit, CompanyInv, DirectoryTypes, DomainIdentifies, KeysStand, PostedUnder, Held, NoFirm

LEMMA IngestAdvertKeeps == ASSUME CompanyInv, NEW n \in Names, IngestAdvert(n) PROVE CompanyInv'
  <1>0. DirectoryTypes /\ DomainIdentifies /\ KeysStand /\ PostedUnder /\ UNCHANGED <<proposal, resited>>
    BY DEF CompanyInv, IngestAdvert
  <1>1. CASE UpsertCompany(n) # {} /\ UNCHANGED directory
    <2>1. PICK f \in UpsertCompany(n) : hiredBy' = [hiredBy EXCEPT ![n] = f]
      BY <1>1 DEF IngestAdvert
    <2>2. f \in Firm /\ Held(f) /\ directory[f].key = WeakKey(n) /\ f # NoOne
      BY <2>1, CompaniesAssumption DEF UpsertCompany
    <2>3. DirectoryTypes'
      BY <1>0, <1>1, <2>1, <2>2 DEF DirectoryTypes
    <2>4. PostedUnder'
      BY <1>0, <1>1, <2>1, <2>2 DEF PostedUnder, DirectoryTypes, Held
    <2>5. DomainIdentifies' /\ KeysStand'
      BY <1>0, <1>1 DEF DomainIdentifies, KeysStand, Held
    <2> QED BY <2>3, <2>4, <2>5 DEF CompanyInv
  <1>2. CASE UpsertCompany(n) = {}
    <2>1. PICK r : r = CompanyRow(n, NoSite, NoHost, WeakKey(n))
      OBVIOUS
    <2>2. PICK f \in Free : directory' = [directory EXCEPT ![f] = r] /\ hiredBy' = [hiredBy EXCEPT ![n] = f]
      BY <1>2, <2>1 DEF IngestAdvert
    <2>3. WeakKey(n) \in IdentityKey /\ ~WeakKey(n).strong
      BY DEF IdentityKey, WeakKey, NormalizeCompanyName
    <2>4. r \in DirectoryRow /\ r.key = WeakKey(n) /\ r.domain = NoHost /\ r.site.host = NoHost
      BY <2>1, <2>3 DEF CompanyRow, DirectoryRow, NoSite
    <2>5. \A g \in Firm : Held(g) => directory[g].key # r.key
      BY <1>2, <2>4 DEF UpsertCompany
    <2>6. /\ directory' \in [Firm -> {NoFirm} \cup DirectoryRow] /\ DomainIdentifies' /\ KeysStand'
          /\ \A g \in Firm : Held(g) => Held(g)' /\ directory'[g] = directory[g]
          /\ f \in Firm /\ Held(f)' /\ directory'[f] = r
      BY <1>0, <2>2, <2>3, <2>4, <2>5, RowAdded, Zenon DEF NormalizeDomain
    <2>7. DirectoryTypes'
      BY <1>0, <2>2, <2>6 DEF DirectoryTypes
    <2>8. PostedUnder'
      <3> SUFFICES ASSUME NEW m \in Names, hiredBy'[m] # NoOne
                   PROVE  directory'[hiredBy'[m]].held /\ directory'[hiredBy'[m]].key = WeakKey(m)
        BY DEF PostedUnder, Held
      <3>1. CASE m = n
        BY <1>0, <2>2, <2>4, <2>6, <3>1 DEF DirectoryTypes, Held
      <3>2. CASE m # n
        <4>1. hiredBy'[m] = hiredBy[m] /\ hiredBy[m] \in Firm
          BY <1>0, <2>2, <3>2 DEF DirectoryTypes
        <4>2. Held(hiredBy[m]) /\ directory[hiredBy[m]].key = WeakKey(m)
          BY <1>0, <4>1 DEF PostedUnder
        <4> QED BY <2>6, <4>1, <4>2 DEF Held
      <3> QED BY <3>1, <3>2
    <2> QED BY <2>6, <2>7, <2>8 DEF CompanyInv
  <1> QED BY <1>1, <1>2 DEF IngestAdvert

LEMMA ProposeKeeps ==
  ASSUME CompanyInv, NEW a \in Admin, NEW n \in Names, NEW s \in Sites, NEW c \in Contacts, ProposeCompany(a, n, s, c)
  PROVE  CompanyInv'
  <1>1. [pc |-> "insert", name |-> n, site |-> s, contact |-> c] \in Proposal
    BY DEF Proposal
  <1> QED BY <1>1 DEF CompanyInv, DirectoryTypes, ProposeCompany, DomainIdentifies, KeysStand, PostedUnder, Held

LEMMA InsertCompanyKeeps == ASSUME CompanyInv, NEW a \in Admin, InsertCompany(a) PROVE CompanyInv'
  <1>0. DirectoryTypes /\ DomainIdentifies /\ KeysStand /\ PostedUnder /\ UNCHANGED <<hiredBy, resited>>
    BY DEF CompanyInv, InsertCompany
  <1>1. PICK p : p = proposal[a]
    OBVIOUS
  <1>2. p \in Proposal /\ proposal' \in [Admin -> {NoProposal} \cup Proposal]
    BY <1>0, <1>1 DEF InsertCompany, DirectoryTypes, NoProposal
  <1>3. PICK key : key = BuildIdentityKey(p.name, p.site, p.contact)
    OBVIOUS
  <1>4. CASE UNCHANGED directory
    BY <1>0, <1>2, <1>4 DEF CompanyInv, DirectoryTypes, DomainIdentifies, KeysStand, PostedUnder, Held
  <1>5. CASE ~KeyTaken(key) /\ InsertFirm(CompanyRow(p.name, p.site, DomainOf(p.site, p.contact), key))
    <2>1. PICK domain : domain = DomainOf(p.site, p.contact)
      OBVIOUS
    <2>2. PICK r : r = CompanyRow(p.name, p.site, domain, key)
      OBVIOUS
    <2>3. PICK f \in Free : directory' = [directory EXCEPT ![f] = r]
      BY <1>5, <2>1, <2>2, Zenon DEF InsertFirm
    <2>4. p.name \in Names /\ p.site \in Sites /\ p.contact \in Contacts
      BY <1>2 DEF Proposal
    <2>5. domain \in {s.host : s \in Sites} \cup {c.host : c \in Contacts} \cup {NoHost}
      BY <2>1, <2>4 DEF DomainOf, NormalizeDomain, DomainFromEmail
    <2>6. (domain # NoHost => key = [strong |-> TRUE, of |-> domain]) /\ (domain = NoHost => key = WeakKey(p.name))
      BY <1>3, <2>1 DEF BuildIdentityKey
    <2>7. key \in IdentityKey
      <3>1. CASE domain # NoHost
        <4>1. key = [strong |-> TRUE, of |-> domain]
          BY <2>6, <3>1
        <4>2. domain \in {n.words : n \in Names} \cup {s.host : s \in Sites} \cup {c.host : c \in Contacts}
          BY <2>5, <3>1
        <4> QED BY <4>1, <4>2 DEF IdentityKey
      <3>2. CASE domain = NoHost
        <4>1. key = [strong |-> FALSE, of |-> p.name.words]
          BY <2>6, <3>2 DEF WeakKey, NormalizeCompanyName
        <4>2. p.name.words \in {n.words : n \in Names} \cup {s.host : s \in Sites} \cup {c.host : c \in Contacts}
          BY <2>4
        <4> QED BY <4>1, <4>2 DEF IdentityKey
      <3> QED BY <3>1, <3>2
    <2>8. r \in DirectoryRow /\ r.key = key /\ r.domain = domain /\ r.site = p.site
      BY <2>2, <2>4, <2>5, <2>7 DEF CompanyRow, DirectoryRow
    <2>9. IF r.domain = NoHost THEN ~ r.key.strong ELSE r.key = [strong |-> TRUE, of |-> r.domain]
      BY <2>6, <2>8 DEF WeakKey
    <2>10. NormalizeDomain(r.site) # NoHost => r.domain = NormalizeDomain(r.site)
      BY <2>1, <2>8 DEF DomainOf
    <2>11. \A g \in Firm : Held(g) => directory[g].key # r.key
      BY <1>5, <2>8 DEF KeyTaken
    <2>12. /\ directory' \in [Firm -> {NoFirm} \cup DirectoryRow] /\ DomainIdentifies' /\ KeysStand'
           /\ \A g \in Firm : Held(g) => Held(g)' /\ directory'[g] = directory[g]
      BY <1>0, <2>3, <2>8, <2>9, <2>10, <2>11, RowAdded, Zenon
    <2>13. DirectoryTypes' /\ PostedUnder'
      BY <1>0, <1>2, <2>12 DEF DirectoryTypes, PostedUnder
    <2> QED BY <2>12, <2>13 DEF CompanyInv
  <1> QED BY <1>1, <1>3, <1>4, <1>5 DEF InsertCompany

LEMMA UpdateProfileKeeps ==
  ASSUME CompanyInv, NEW f \in Firm, NEW n \in Names, NEW s \in Sites, UpdateProfile(f, n, s) PROVE CompanyInv'
  <1>0. DirectoryTypes /\ DomainIdentifies /\ KeysStand /\ PostedUnder /\ UNCHANGED <<proposal, hiredBy>> /\ resited' = resited \cup {f}
    BY DEF CompanyInv, UpdateProfile
  <1>1. PICK r : r = [directory[f] EXCEPT !.name = n, !.site = s]
    OBVIOUS
  <1>2. directory[f] \in DirectoryRow /\ Held(f)
    BY <1>0 DEF UpdateProfile, DirectoryTypes, Held, NoFirm
  <1>3. directory' = [directory EXCEPT ![f] = r]
    BY <1>0, <1>1, Zenon DEF UpdateProfile, DirectoryTypes
  <1>4. r \in DirectoryRow /\ r.key = directory[f].key /\ r.domain = directory[f].domain /\ r.held
    BY <1>1, <1>2, Zenon DEF DirectoryRow
  <1>5. \A g \in Firm : /\ Held(g)' <=> Held(g)
                        /\ g # f => directory'[g] = directory[g]
                        /\ Held(g) => directory'[g].key = directory[g].key /\ directory'[g].domain = directory[g].domain
    BY <1>0, <1>2, <1>3, <1>4 DEF DirectoryTypes, Held
  <1>6. DirectoryTypes'
    BY <1>0, <1>3, <1>4 DEF DirectoryTypes
  <1>7. DomainIdentifies'
    BY <1>0, <1>5 DEF DomainIdentifies
  <1>8. KeysStand'
    BY <1>0, <1>5 DEF KeysStand
  <1>9. PostedUnder'
    BY <1>0, <1>5 DEF PostedUnder, DirectoryTypes
  <1> QED BY <1>6, <1>7, <1>8, <1>9 DEF CompanyInv

LEMMA CompanyStep == CompanyInv /\ [CompaniesNext]_companyVars => CompanyInv'
  <1> SUFFICES ASSUME CompanyInv, [CompaniesNext]_companyVars PROVE CompanyInv'
    OBVIOUS
  <1>1. CASE UNCHANGED companyVars
    BY <1>1 DEF companyVars, CompanyInv, DirectoryTypes, DomainIdentifies, KeysStand, PostedUnder, Held
  <1>2. CASE CompaniesNext
    BY <1>2, IngestAdvertKeeps, ProposeKeeps, InsertCompanyKeeps, UpdateProfileKeeps DEF CompaniesNext
  <1> QED BY <1>1, <1>2

LEMMA CompanySound == CompanyInv => OneRowPerCompany
  <1> SUFFICES ASSUME CompanyInv PROVE OneRowPerCompany
    OBVIOUS
  <1>1. DomainIdentifies /\ KeysStand /\ PostedUnder /\ DirectoryTypes
    BY DEF CompanyInv
  <1>2. WebsitesAreClaimedOnce
    <2> SUFFICES ASSUME NEW f \in Firm \ resited, NEW g \in Firm \ resited, f # g, Held(f), Held(g),
                        NormalizeDomain(directory[f].site) # NoHost,
                        NormalizeDomain(directory[f].site) = NormalizeDomain(directory[g].site)
                 PROVE  FALSE
      BY DEF WebsitesAreClaimedOnce
    <2>1. directory[f].domain # NoHost /\ directory[f].domain = directory[g].domain
      BY <1>1 DEF KeysStand
    <2>2. directory[f].key = directory[g].key
      BY <1>1, <2>1, Zenon DEF DomainIdentifies
    <2> QED BY <1>1, <2>2 DEF DomainIdentifies
  <1>3. ScrapedNamesShareARow
    <2> SUFFICES ASSUME NEW m \in Names, NEW n \in Names, hiredBy[m] # NoOne
                 PROVE  /\ hiredBy[n] # NoOne /\ NormalizeCompanyName(m) = NormalizeCompanyName(n) => hiredBy[m] = hiredBy[n]
                        /\ ~ directory[hiredBy[m]].key.strong
      BY DEF ScrapedNamesShareARow
    <2>1. hiredBy[m] \in Firm /\ Held(hiredBy[m]) /\ directory[hiredBy[m]].key = WeakKey(m) /\ ~WeakKey(m).strong
      BY <1>1 DEF PostedUnder, DirectoryTypes, WeakKey
    <2>2. ASSUME hiredBy[n] # NoOne, NormalizeCompanyName(m) = NormalizeCompanyName(n) PROVE hiredBy[m] = hiredBy[n]
      <3>1. hiredBy[n] \in Firm /\ Held(hiredBy[n]) /\ directory[hiredBy[n]].key = WeakKey(n)
        BY <1>1, <2>2 DEF PostedUnder, DirectoryTypes
      <3>2. WeakKey(m) = WeakKey(n)
        BY <2>2 DEF WeakKey
      <3> QED BY <1>1, <2>1, <3>1, <3>2 DEF DomainIdentifies
    <2> QED BY <2>1, <2>2
  <1> QED BY <1>1, <1>2, <1>3 DEF OneRowPerCompany

-----------------------------------------------------------------------------
(* Postings of employers. *)

DraftRow == [of : Firm, status : {"DRAFT", "PUBLISHED", "CLOSED"}, text : Nat, range : Nat, by : Hirer \cup {NoOne}]
Stamping == [pc : {"stamp"}, on : Draft, by : Hirer]
Saving == [pc : {"save"}, on : Draft, by : Hirer, row : DraftRow, named : SUBSET DraftParts, read : DraftRow]
VacancyTypes ==
  /\ draft \in [Draft -> {NoDraft} \cup DraftRow] /\ revising \in [Revision -> {NoRevising} \cup Stamping \cup Saving]
  /\ revised \in Nat /\ toldOf \in [Draft -> [DraftParts -> Nat \cup {"DRAFT", "PUBLISHED", "CLOSED"}]]
  /\ overlapped \in [Draft -> SUBSET DraftParts]
Priced(d) == d.status # "DRAFT" => d.range # NotSet
DraftStands(l) ==
  draft[l] # NoDraft =>
    /\ Priced(draft[l]) /\ (draft[l].by # NoOne => HirerFirm[draft[l].by] = draft[l].of)
    /\ \A p \in DraftParts \ overlapped[l] : draft[l][p] = toldOf[l][p]
RevisionStands(e) ==
  /\ revising[e].pc \in {"stamp", "save"} =>
       draft[revising[e].on] # NoDraft /\ HirerFirm[revising[e].by] = draft[revising[e].on].of
  /\ revising[e].pc = "save" =>
       Priced(revising[e].row) /\ \A p \in DraftParts \ revising[e].named : revising[e].row[p] = revising[e].read[p]
  /\ revising[e].pc = "stamp" =>
       /\ draft[revising[e].on].by = NoOne
       /\ \A d \in Revision : revising[d].pc = "stamp" /\ revising[d].on = revising[e].on => d = e
VacancyInv == VacancyTypes /\ (\A l \in Draft : DraftStands(l)) /\ \A e \in Revision : RevisionStands(e)

Says == Nat \cup {"DRAFT", "PUBLISHED", "CLOSED"}

LEMMA PartsOf ==
  ASSUME NEW r \in DraftRow, NEW p \in DraftParts
  PROVE  r[p] \in Says /\ \A f, u : [r EXCEPT !.of = f, !.by = u][p] = r[p]
  <1>1. CASE p = "status"
    BY <1>1 DEF DraftRow, Says
  <1>2. CASE p = "text"
    BY <1>2 DEF DraftRow, Says
  <1>3. CASE p = "range"
    BY <1>3 DEF DraftRow, Says
  <1> QED BY <1>1, <1>2, <1>3, Zenon DEF DraftParts

LEMMA VacancyStart == VacanciesInit => VacancyInv
  <1> SUFFICES ASSUME VacanciesInit PROVE VacancyInv
    OBVIOUS
  <1>1. NotSet \in Nat
    BY DEF NotSet
  <1>2. VacancyTypes
    BY <1>1 DEF VacanciesInit, VacancyTypes
  <1>3. \A e \in Revision : RevisionStands(e)
    BY DEF VacanciesInit, RevisionStands, NoRevising
  <1>4. \A l \in Draft : DraftStands(l)
    BY DEF VacanciesInit, DraftStands
  <1> QED BY <1>2, <1>3, <1>4 DEF VacancyInv

LEMMA DraftsAreRows ==
  ASSUME VacancyTypes, NEW l \in Draft
  PROVE  draft[l] # NoDraft => draft[l] \in DraftRow
  BY DEF VacancyTypes

\* What the others have under way stands on the posting's company and its poster alone.
LEMMA OthersRevise ==
  ASSUME VacancyInv, NEW e \in Revision, revising' \in [Revision -> {NoRevising} \cup Stamping \cup Saving],
         \A d \in Revision : d # e => revising'[d] = revising[d],
         \A l \in Draft : draft[l] # NoDraft => draft'[l] # NoDraft /\ draft'[l].of = draft[l].of,
         \A d \in Revision : d # e /\ revising[d].pc = "stamp" => draft'[revising[d].on].by = draft[revising[d].on].by,
         \A d \in Revision : d # e /\ revising[d].pc = "stamp" /\ revising'[e].pc = "stamp" => revising[d].on # revising'[e].on
  PROVE  \A d \in Revision : d # e => RevisionStands(d)'
  <1> SUFFICES ASSUME NEW d \in Revision, d # e PROVE RevisionStands(d)'
    OBVIOUS
  <1>1. RevisionStands(d) /\ revising'[d] = revising[d]
    BY DEF VacancyInv
  <1>2. revising[d].pc \in {"stamp", "save"} => revising[d].on \in Draft
    BY DEF VacancyInv, VacancyTypes, NoRevising, Stamping, Saving
  <1>3. ASSUME revising[d].pc = "stamp", NEW c \in Revision, revising'[c].pc = "stamp", revising'[c].on = revising[d].on PROVE c = d
    BY <1>1, <1>3 DEF RevisionStands
  <1> QED BY <1>1, <1>2, <1>3 DEF RevisionStands

LEMMA CreateJobKeeps ==
  ASSUME VacancyInv, NEW e \in Revision, NEW u \in Hirer, NEW l \in Draft, NEW range \in {NotSet, revised + 1},
         CreateJob(e, u, l, range)
  PROVE  VacancyInv'
  <1>0. VacancyTypes /\ (\A x \in Draft : DraftStands(x)) /\ (\A d \in Revision : RevisionStands(d)) /\ draft[l] = NoDraft
        /\ overlapped' = overlapped
    BY DEF VacancyInv, CreateJob
  <1>1. PICK r : r = [of |-> HirerFirm[u], status |-> "DRAFT", text |-> revised + 1, range |-> range, by |-> NoOne]
    BY Zenon
  <1>2. PICK task : task = [pc |-> "stamp", on |-> l, by |-> u]
    BY Zenon
  <1>3. /\ draft' = [draft EXCEPT ![l] = r] /\ revising' = [revising EXCEPT ![e] = task] /\ revised' = revised + 1
        /\ toldOf' = [toldOf EXCEPT ![l] = [p \in DraftParts |-> IF p \in DraftParts THEN r[p] ELSE @[p]]]
    BY <1>1, <1>2 DEF CreateJob, BeginRevision, Answered, RequireContext
  <1>4. r \in DraftRow /\ r # NoDraft /\ HirerFirm[u] \in Firm
    <2>1. HirerFirm[u] \in Firm /\ HirerFirm[u] # NoOne
      BY CompaniesAssumption, Zenon
    <2>2. revised + 1 \in Nat /\ range \in Nat
      BY <1>0 DEF VacancyTypes, NotSet
    <2>3. r \in DraftRow /\ r.of = HirerFirm[u]
      BY <1>1, <2>1, <2>2 DEF DraftRow
    <2>4. NoDraft.of = NoOne
      BY DEF NoDraft
    <2> QED BY <2>1, <2>3, <2>4
  <1>5. task \in Stamping
    BY <1>2 DEF Stamping
  <1>6. \A p \in DraftParts : toldOf'[l][p] = r[p]
    BY <1>0, <1>3 DEF VacancyTypes
  <1>7. VacancyTypes'
    <2>1. [p \in DraftParts |-> r[p]] \in [DraftParts -> Says]
      BY <1>4, PartsOf, Zenon
    <2>2. toldOf' \in [Draft -> [DraftParts -> Says]]
      BY <1>0, <1>3, <2>1 DEF VacancyTypes, Says
    <2>3. revised' \in Nat
      BY <1>0, <1>3 DEF VacancyTypes
    <2> QED BY <1>0, <1>3, <1>4, <1>5, <2>2, <2>3 DEF VacancyTypes, Says
  <1>8. \A x \in Draft : x # l => draft'[x] = draft[x] /\ toldOf'[x] = toldOf[x]
    BY <1>0, <1>3 DEF VacancyTypes
  <1>9. draft'[l] = r /\ revising'[e] = task
    BY <1>0, <1>3 DEF VacancyTypes
  <1>10. ASSUME NEW x \in Draft PROVE DraftStands(x)'
    <2>1. CASE x # l
      BY <1>0, <1>8, <2>1 DEF DraftStands, Priced
    <2>2. CASE x = l
      <3>1. Priced(r) /\ r.by = NoOne
        BY <1>1 DEF Priced
      <3> QED BY <1>6, <1>9, <2>2, <3>1 DEF DraftStands, Priced
    <2> QED BY <2>1, <2>2
  <1>11. \A d \in Revision : revising[d].pc \in {"stamp", "save"} => revising[d].on # l /\ revising[d].on \in Draft
    BY <1>0 DEF RevisionStands, VacancyTypes, NoRevising, Stamping, Saving
  <1>12. \A d \in Revision : d # e => revising'[d] = revising[d]
    BY <1>0, <1>3 DEF VacancyTypes
  <1>13. \A d \in Revision : d # e => RevisionStands(d)'
    <2>1. \A x \in Draft : draft[x] # NoDraft => draft'[x] # NoDraft /\ draft'[x].of = draft[x].of
      BY <1>0, <1>8
    <2>2. \A d \in Revision : d # e /\ revising[d].pc = "stamp" => draft'[revising[d].on].by = draft[revising[d].on].by
      BY <1>8, <1>11
    <2>3. revising'[e].on = l
      BY <1>2, <1>9
    <2>4. \A d \in Revision : d # e /\ revising[d].pc = "stamp" /\ revising'[e].pc = "stamp" => revising[d].on # revising'[e].on
      BY <1>11, <2>3
    <2>5. revising' \in [Revision -> {NoRevising} \cup Stamping \cup Saving]
      BY <1>7 DEF VacancyTypes
    <2> QED BY <1>12, <2>1, <2>2, <2>4, <2>5, OthersRevise
  <1>14. RevisionStands(e)'
    <2>1. r.of = HirerFirm[u] /\ r.by = NoOne /\ task.pc = "stamp" /\ task.on = l /\ task.by = u
      BY <1>1, <1>2
    <2>2. \A d \in Revision : revising'[d].pc = "stamp" /\ revising'[d].on = l => d = e
      BY <1>11, <1>12
    <2> QED BY <1>4, <1>9, <2>1, <2>2 DEF RevisionStands
  <1> QED BY <1>7, <1>10, <1>13, <1>14 DEF VacancyInv

LEMMA StampKeeps == ASSUME VacancyInv, NEW e \in Revision, StampPoster(e) PROVE VacancyInv'
  <1>0. VacancyTypes /\ (\A x \in Draft : DraftStands(x)) /\ (\A d \in Revision : RevisionStands(d))
        /\ UNCHANGED <<revised, toldOf, overlapped>>
    BY DEF VacancyInv, StampPoster
  <1>1. PICK l, u : l = revising[e].on /\ u = revising[e].by
    OBVIOUS
  <1>2. l \in Draft /\ u \in Hirer /\ draft[l] # NoDraft /\ HirerFirm[u] = draft[l].of
    BY <1>0, <1>1 DEF StampPoster, RevisionStands, VacancyTypes, NoRevising, Stamping, Saving
  <1>3. PICK r : r = [draft[l] EXCEPT !.by = u]
    BY Zenon
  <1>4. draft' = [draft EXCEPT ![l] = r] /\ revising' = [revising EXCEPT ![e] = NoRevising]
    BY <1>0, <1>1, <1>3 DEF StampPoster, VacancyTypes
  <1>5. draft[l] \in DraftRow /\ NoOne \notin Hirer /\ HirerFirm[u] \in Firm /\ HirerFirm[u] # NoOne
    BY <1>0, <1>2, CompaniesAssumption, Zenon DEF VacancyTypes
  <1>6. /\ r \in DraftRow /\ r.by = u /\ r.of = draft[l].of /\ r.status = draft[l].status /\ r.range = draft[l].range
        /\ r.text = draft[l].text
    BY <1>2, <1>3, <1>5 DEF DraftRow
  <1>7. r # NoDraft
    <2>1. NoDraft.of = NoOne
      BY DEF NoDraft
    <2> QED BY <1>2, <1>5, <1>6, <2>1
  <1>8. \A p \in DraftParts : r[p] = draft[l][p]
    BY <1>6 DEF DraftParts
  <1>9. VacancyTypes'
    BY <1>0, <1>4, <1>6, Zenon DEF VacancyTypes
  <1>10. draft'[l] = r /\ (\A x \in Draft : x # l => draft'[x] = draft[x]) /\ \A d \in Revision : d # e => revising'[d] = revising[d]
    BY <1>0, <1>2, <1>4 DEF VacancyTypes
  <1>11. ASSUME NEW x \in Draft PROVE DraftStands(x)'
    <2>1. CASE x # l
      BY <1>0, <1>10, <2>1 DEF DraftStands, Priced
    <2>2. CASE x = l
      <3>1. Priced(r)
        BY <1>0, <1>2, <1>6 DEF DraftStands, Priced
      <3> QED BY <1>0, <1>2, <1>6, <1>8, <1>10, <2>2, <3>1 DEF DraftStands, Priced
    <2> QED BY <2>1, <2>2
  <1>12. revising'[e] = NoRevising /\ NoRevising.pc = "idle"
    BY <1>0, <1>4 DEF VacancyTypes, NoRevising
  <1>13. \A d \in Revision : d # e => RevisionStands(d)'
    <2>1. \A d \in Revision : d # e /\ revising[d].pc = "stamp" => revising[d].on # l /\ revising[d].on \in Draft
      BY <1>0, <1>1 DEF RevisionStands, StampPoster, VacancyTypes, NoRevising, Stamping, Saving
    <2> QED BY <1>2, <1>6, <1>7, <1>9, <1>10, <1>12, <2>1, OthersRevise DEF VacancyTypes
  <1>14. RevisionStands(e)'
    BY <1>12 DEF RevisionStands
  <1> QED BY <1>9, <1>11, <1>13, <1>14 DEF VacancyInv

LEMMA GiveUpKeeps == ASSUME VacancyInv, NEW e \in Revision, GiveUp(e) PROVE VacancyInv'
  <1>0. VacancyTypes /\ (\A x \in Draft : DraftStands(x)) /\ UNCHANGED <<draft, revised, toldOf, overlapped>>
    BY DEF VacancyInv, GiveUp
  <1>1. revising' = [revising EXCEPT ![e] = NoRevising] /\ NoRevising.pc = "idle"
    BY DEF GiveUp, NoRevising
  <1>2. VacancyTypes' /\ revising'[e] = NoRevising /\ \A d \in Revision : d # e => revising'[d] = revising[d]
    BY <1>0, <1>1 DEF VacancyTypes
  <1>3. \A x \in Draft : DraftStands(x)'
    BY <1>0 DEF DraftStands, Priced
  <1>4. \A d \in Revision : d # e => RevisionStands(d)'
    BY <1>0, <1>1, <1>2, OthersRevise DEF VacancyTypes
  <1>5. RevisionStands(e)'
    BY <1>1, <1>2 DEF RevisionStands
  <1> QED BY <1>2, <1>3, <1>4, <1>5 DEF VacancyInv

LEMMA LoadKeeps ==
  ASSUME VacancyInv, NEW e \in Revision, NEW u \in Hirer, NEW l \in Draft, NEW r \in DraftRow, NEW named \in SUBSET DraftParts,
         Priced(r), \A p \in DraftParts \ named : r[p] = draft[l][p],
         LoadDraft(e, u, l, r, named)
  PROVE  VacancyInv'
  <1>0. VacancyTypes /\ (\A x \in Draft : DraftStands(x)) /\ UNCHANGED <<draft, toldOf, overlapped>>
    BY DEF VacancyInv, LoadDraft
  <1>1. PICK task : task = [pc |-> "save", on |-> l, by |-> u, row |-> r, named |-> named, read |-> draft[l]]
    BY Zenon
  <1>2. revising' = [revising EXCEPT ![e] = task] /\ revised' = revised + 1
    BY <1>1 DEF LoadDraft, BeginRevision
  <1>3. draft[l] # NoDraft /\ draft[l].of = HirerFirm[u] /\ draft[l] \in DraftRow
    BY <1>0 DEF LoadDraft, OwnDrafts, RequireContext, VacancyTypes
  <1>4. task \in Saving
    BY <1>1, <1>3 DEF Saving
  <1>5. VacancyTypes' /\ revising'[e] = task /\ \A d \in Revision : d # e => revising'[d] = revising[d]
    BY <1>0, <1>2, <1>4 DEF VacancyTypes
  <1>6. \A x \in Draft : DraftStands(x)'
    BY <1>0 DEF DraftStands, Priced
  <1>7. /\ task.pc = "save" /\ task.on = l /\ task.by = u /\ task.row = r /\ task.named = named /\ task.read = draft[l]
    BY <1>1
  <1>8. \A d \in Revision : d # e => RevisionStands(d)'
    BY <1>0, <1>5, <1>7, OthersRevise DEF VacancyTypes
  <1>9. RevisionStands(e)'
    BY <1>0, <1>3, <1>5, <1>7 DEF RevisionStands, Priced
  <1> QED BY <1>5, <1>6, <1>8, <1>9 DEF VacancyInv

LEMMA AskRevisionKeeps ==
  ASSUME VacancyInv, NEW e \in Revision, NEW u \in Hirer, NEW l \in Draft, draft[l] # NoDraft,
         AskPublish(e, u, l) \/ AskClose(e, u, l) \/ \E named \in SUBSET {"text", "range"} : AskChange(e, u, l, named)
  PROVE  VacancyInv'
  <1>0. draft[l] \in DraftRow /\ Priced(draft[l]) /\ revised \in Nat
    BY DEF VacancyInv, VacancyTypes, DraftStands
  <1>1. CASE AskPublish(e, u, l)
    <2>1. PICK r \in PublishJob(draft[l]) : LoadDraft(e, u, l, r, {"status"})
      BY <1>1 DEF AskPublish
    <2>2. r = [draft[l] EXCEPT !.status = "PUBLISHED"] /\ draft[l].range # NotSet
      BY <2>1 DEF PublishJob
    <2>3. r \in DraftRow /\ Priced(r) /\ \A p \in DraftParts \ {"status"} : r[p] = draft[l][p]
      BY <1>0, <2>2 DEF DraftRow, Priced, DraftParts
    <2> QED BY <2>1, <2>3, LoadKeeps DEF DraftParts
  <1>2. CASE AskClose(e, u, l)
    <2>1. PICK r \in CloseJob(draft[l]) : LoadDraft(e, u, l, r, {"status"})
      BY <1>2 DEF AskClose
    <2>2. r = [draft[l] EXCEPT !.status = "CLOSED"] /\ draft[l].status = "PUBLISHED"
      BY <2>1 DEF CloseJob
    <2>3. r \in DraftRow /\ Priced(r) /\ \A p \in DraftParts \ {"status"} : r[p] = draft[l][p]
      BY <1>0, <2>2 DEF DraftRow, Priced, DraftParts
    <2> QED BY <2>1, <2>3, LoadKeeps DEF DraftParts
  <1>3. CASE \E named \in SUBSET {"text", "range"} : AskChange(e, u, l, named)
    <2>1. PICK named \in SUBSET {"text", "range"} : AskChange(e, u, l, named)
      BY <1>3
    <2>2. PICK r \in UpdateJob(draft[l], named, revised + 1) : LoadDraft(e, u, l, r, named)
      BY <2>1 DEF AskChange
    <2>3. PICK t \in {NotSet, revised + 1} :
            r = [draft[l] EXCEPT !.text = IF "text" \in named THEN t ELSE @, !.range = IF "range" \in named THEN revised + 1 ELSE @]
      BY <2>2 DEF UpdateJob
    <2>4. t \in Nat /\ revised + 1 \in Nat /\ revised + 1 # NotSet
      BY <1>0 DEF NotSet
    <2>5. r \in DraftRow /\ Priced(r) /\ \A p \in DraftParts \ named : r[p] = draft[l][p]
      BY <1>0, <2>3, <2>4, Zenon DEF DraftRow, Priced, DraftParts
    <2> QED BY <2>2, <2>5, LoadKeeps DEF DraftParts
  <1> QED BY <1>1, <1>2, <1>3

LEMMA SaveDraftKeeps == ASSUME VacancyInv, NEW e \in Revision, SaveDraft(e) PROVE VacancyInv'
  <1>0. VacancyTypes /\ (\A x \in Draft : DraftStands(x)) /\ (\A d \in Revision : RevisionStands(d)) /\ UNCHANGED revised
    BY DEF VacancyInv, SaveDraft
  <1>1. PICK q : q = revising[e]
    OBVIOUS
  <1>2. q \in Saving /\ q.pc = "save"
    BY <1>0, <1>1 DEF SaveDraft, VacancyTypes, NoRevising, Stamping, Saving
  <1>3. PICK l : l = q.on
    OBVIOUS
  <1>4. /\ l \in Draft /\ q.row \in DraftRow /\ q.read \in DraftRow /\ q.named \in SUBSET DraftParts
        /\ draft[l] # NoDraft /\ draft[l] \in DraftRow
        /\ Priced(q.row) /\ \A p \in DraftParts \ q.named : q.row[p] = q.read[p]
    BY <1>0, <1>1, <1>2, <1>3 DEF Saving, RevisionStands, VacancyTypes
  <1>5. PICK r : r = [q.row EXCEPT !.of = draft[l].of, !.by = draft[l].by]
    OBVIOUS
  <1>6. /\ draft' = [draft EXCEPT ![l] = r] /\ revising' = [revising EXCEPT ![e] = NoRevising]
        /\ toldOf' = [toldOf EXCEPT ![l] = [p \in DraftParts |-> IF p \in q.named THEN q.row[p] ELSE @[p]]]
        /\ overlapped' = [overlapped EXCEPT ![l] = (@ \ q.named) \cup {p \in DraftParts \ q.named : draft[l][p] # q.read[p]}]
    BY <1>1, <1>3, <1>5 DEF SaveDraft, Answered
  <1>7. /\ r \in DraftRow /\ r.of = draft[l].of /\ r.by = draft[l].by /\ r.status = q.row.status /\ r.range = q.row.range
    BY <1>4, <1>5, Zenon DEF DraftRow
  <1>8. \A p \in DraftParts : r[p] = q.row[p] /\ q.row[p] \in Says
    <2> SUFFICES ASSUME NEW p \in DraftParts PROVE r[p] = q.row[p] /\ q.row[p] \in Says
      OBVIOUS
    <2>1. q.row[p] \in Says /\ \A f, u : [q.row EXCEPT !.of = f, !.by = u][p] = q.row[p]
      BY <1>4, PartsOf, Zenon
    <2> QED BY <1>5, <2>1, Zenon
  <1>9. r # NoDraft
    <2>1. draft[l].of \in Firm /\ NoOne \notin Firm
      BY <1>4, CompaniesAssumption, Zenon DEF DraftRow
    <2>2. NoDraft.of = NoOne
      BY DEF NoDraft
    <2> QED BY <1>7, <2>1, <2>2
  <1>10. \A p \in DraftParts : toldOf'[l][p] = IF p \in q.named THEN q.row[p] ELSE toldOf[l][p]
    BY <1>0, <1>4, <1>6 DEF VacancyTypes
  <1>11. overlapped'[l] = (overlapped[l] \ q.named) \cup {p \in DraftParts \ q.named : draft[l][p] # q.read[p]}
    BY <1>0, <1>4, <1>6 DEF VacancyTypes
  <1>12. VacancyTypes'
    <2>1. toldOf' \in [Draft -> [DraftParts -> Says]]
      <3>1. [p \in DraftParts |-> IF p \in q.named THEN q.row[p] ELSE toldOf[l][p]] \in [DraftParts -> Says]
        BY <1>0, <1>4, <1>8 DEF VacancyTypes, Says
      <3> QED BY <1>0, <1>4, <1>6, <3>1 DEF VacancyTypes, Says
    <2>2. overlapped' \in [Draft -> SUBSET DraftParts]
      <3>1. ((overlapped[l] \ q.named) \cup {p \in DraftParts \ q.named : draft[l][p] # q.read[p]}) \in SUBSET DraftParts
        BY <1>0, <1>4 DEF VacancyTypes
      <3> QED BY <1>0, <1>4, <1>6, <3>1 DEF VacancyTypes
    <2>3. draft' \in [Draft -> {NoDraft} \cup DraftRow] /\ revising' \in [Revision -> {NoRevising} \cup Stamping \cup Saving]
      BY <1>0, <1>6, <1>7, Zenon DEF VacancyTypes
    <2> QED BY <1>0, <2>1, <2>2, <2>3 DEF VacancyTypes, Says
  <1>13. /\ draft'[l] = r /\ revising'[e] = NoRevising /\ NoRevising.pc = "idle"
         /\ \A x \in Draft : x # l => draft'[x] = draft[x] /\ toldOf'[x] = toldOf[x] /\ overlapped'[x] = overlapped[x]
         /\ \A d \in Revision : d # e => revising'[d] = revising[d]
    BY <1>0, <1>4, <1>6 DEF VacancyTypes, NoRevising
  <1>14. ASSUME NEW x \in Draft PROVE DraftStands(x)'
    <2>1. CASE x # l
      BY <1>0, <1>13, <2>1 DEF DraftStands, Priced
    <2>2. CASE x = l
      <3>1. Priced(r) /\ (r.by # NoOne => HirerFirm[r.by] = r.of)
        BY <1>0, <1>4, <1>7 DEF DraftStands, Priced
      <3>2. ASSUME NEW p \in DraftParts \ overlapped'[l] PROVE r[p] = toldOf'[l][p]
        <4>1. CASE p \in q.named
          BY <1>8, <1>10, <4>1
        <4>2. CASE p \notin q.named
          <5>1. p \notin overlapped[l] /\ draft[l][p] = q.read[p]
            BY <1>11, <3>2, <4>2
          <5>2. draft[l][p] = toldOf[l][p]
            BY <1>0, <1>4, <5>1 DEF DraftStands
          <5> QED BY <1>4, <1>8, <1>10, <4>2, <5>1, <5>2, Zenon
        <4> QED BY <4>1, <4>2
      <3> QED BY <1>13, <2>2, <3>1, <3>2 DEF DraftStands, Priced
    <2> QED BY <2>1, <2>2
  <1>15. \A d \in Revision : d # e => RevisionStands(d)'
    <2>1. \A x \in Draft : draft[x] # NoDraft => draft'[x] # NoDraft /\ draft'[x].of = draft[x].of
      BY <1>7, <1>9, <1>13
    <2>2. \A d \in Revision : revising[d].pc = "stamp" => revising[d].on \in Draft
      BY <1>0 DEF VacancyTypes, NoRevising, Stamping, Saving
    <2>3. \A d \in Revision : d # e /\ revising[d].pc = "stamp" => draft'[revising[d].on].by = draft[revising[d].on].by
      BY <1>7, <1>13, <2>2
    <2>4. revising' \in [Revision -> {NoRevising} \cup Stamping \cup Saving]
      BY <1>12 DEF VacancyTypes
    <2> QED BY <1>13, <2>1, <2>3, <2>4, OthersRevise
  <1>16. RevisionStands(e)'
    BY <1>13 DEF RevisionStands
  <1> QED BY <1>12, <1>14, <1>15, <1>16 DEF VacancyInv

LEMMA VacancyStep == VacancyInv /\ [VacanciesNext]_vacancyVars => VacancyInv'
  <1> SUFFICES ASSUME VacancyInv, [VacanciesNext]_vacancyVars PROVE VacancyInv'
    OBVIOUS
  <1>1. CASE UNCHANGED vacancyVars
    BY <1>1 DEF vacancyVars, VacancyInv, VacancyTypes, DraftStands, RevisionStands, Priced
  <1>2. CASE VacanciesNext
    BY <1>2, CreateJobKeeps, StampKeeps, GiveUpKeeps, AskRevisionKeeps, SaveDraftKeeps DEF VacanciesNext
  <1> QED BY <1>1, <1>2

LEMMA VacancySound == VacancyInv => PostingsAreAsTold
  <1> SUFFICES ASSUME VacancyInv, NEW l \in Draft, draft[l] # NoDraft
               PROVE  /\ \A p \in DraftParts \ overlapped[l] : draft[l][p] = toldOf[l][p]
                      /\ ShownToAll(l) => draft[l].range # NotSet
                      /\ \A e \in Revision : revising[e].pc = "save" /\ revising[e].on = l => HirerFirm[revising[e].by] = draft[l].of
                      /\ draft[l].by # NoOne => HirerFirm[draft[l].by] = draft[l].of
    BY DEF PostingsAreAsTold
  <1> QED BY DEF VacancyInv, DraftStands, RevisionStands, Priced, ShownToAll

LEMMA PostersHold == VacancyInv /\ [VacanciesNext]_vacancyVars => PostersStay
  <1> SUFFICES ASSUME VacancyInv, [VacanciesNext]_vacancyVars, NEW l \in Draft, draft[l] # NoDraft, draft[l].by # NoOne
               PROVE  draft'[l].by = draft[l].by
    BY DEF PostersStay
  <1>0. VacancyTypes /\ (\A d \in Revision : RevisionStands(d)) /\ draft[l] \in DraftRow
    BY DEF VacancyInv, VacancyTypes
  <1>1. CASE UNCHANGED draft
    BY <1>1
  <1>2. CASE \E e \in Revision : StampPoster(e)
    <2>1. PICK e \in Revision : StampPoster(e)
      BY <1>2
    <2>2. revising[e].on # l
      BY <1>0, <2>1 DEF StampPoster, RevisionStands
    <2> QED BY <1>0, <2>1, <2>2 DEF StampPoster, VacancyTypes
  <1>3. CASE \E e \in Revision : SaveDraft(e)
    <2>1. PICK e \in Revision : SaveDraft(e)
      BY <1>3
    <2>2. CASE revising[e].on # l
      BY <1>0, <2>1, <2>2 DEF SaveDraft, VacancyTypes
    <2>3. CASE revising[e].on = l
      <3>1. revising[e] \in Saving
        BY <1>0, <2>1 DEF SaveDraft, VacancyTypes, NoRevising, Stamping, Saving
      <3>2. revising[e].row \in DraftRow
        BY <3>1 DEF Saving
      <3>3. draft'[l] = [revising[e].row EXCEPT !.of = draft[l].of, !.by = draft[l].by]
        BY <1>0, <2>1, <2>3 DEF SaveDraft, VacancyTypes
      <3> QED BY <3>2, <3>3 DEF DraftRow
    <2> QED BY <2>2, <2>3
  <1>4. CASE \E e \in Revision, u \in Hirer, k \in Draft, range \in {NotSet, revised + 1} : CreateJob(e, u, k, range)
    <2>1. PICK e \in Revision, u \in Hirer, k \in Draft, range \in {NotSet, revised + 1} : CreateJob(e, u, k, range)
      BY <1>4
    <2> QED BY <1>0, <2>1 DEF CreateJob, VacancyTypes
  <1> QED BY <1>1, <1>2, <1>3, <1>4, Zenon DEF VacanciesNext, vacancyVars, GiveUp, AskPublish, AskClose, AskChange, LoadDraft

-----------------------------------------------------------------------------
(* The desk: what an application was sent with, and who reads it. *)

PaperRow == [state : {"uploaded", "parsed", "deleted"}, preferred : BOOLEAN, stored : BOOLEAN, at : Nat]
Assessment == [covered : {-1, 0, 1}, score : {-1, 0, 1}]
FiledRow ==
  [sent : {TRUE}, paper : Paper \cup {NoPaper}, hidden : SUBSET {"candidate", "employer"}, notes : Recruiter \cup {0},
   screened : Assessment, at : Nat]
OwnErrand == [pc : {"set", "row"}, does : {"switch", "delete"}, paper : Paper]
ApplyErrand == [pc : {"newest", "insert", "screen"}, does : {"apply"}, of : Row, paper : Paper \cup {NoPaper}]
ReadErrand == [pc : {"sign"}, does : {"read"}, of : Row, by : Recruiter, paper : Paper]
DeskTypes ==
  /\ paper \in [Paper -> PaperRow] /\ filing \in [Row -> {NoFiling} \cup FiledRow]
  /\ errand \in [Errand -> {NoErrand} \cup OwnErrand \cup ApplyErrand \cup ReadErrand]
  /\ choosing \in [Row -> SUBSET (Paper \cup {NoPaper})]

\* What is found at first is a choice; whoever still looks for the newest finds a choice whenever
\* they look; and whoever is to be given a link is the employer, to the resume that was sent.
ErrandStands(x) ==
  /\ x.pc = "newest" => Findable(x.of[1]) \subseteq choosing[x.of]
  /\ x.pc = "insert" => x.paper \in choosing[x.of] /\ (x.paper # NoPaper => PaperOf[x.paper] = x.of[1])
  /\ x.pc = "screen" => filing[x.of].sent
  /\ x.pc = "sign" => filing[x.of].sent /\ RequireOwned(x.by, x.of) /\ x.paper = filing[x.of].paper
LinksSent == \A l \in links : l.of \in Row /\ filing[l.of].sent
FilesStand == \A p \in Paper : ~ paper[p].stored => p \in deleting
DeskInv ==
  DeskTypes /\ (\A e \in Errand : ErrandStands(errand[e])) /\ LinksSent /\ FilesStand /\ SentWithTheirOwn /\ LinksLeadToTheSubmitted

LEMMA DeskSets == /\ 0 \notin Paper /\ IsFiniteSet(Row) /\ IsFiniteSet(Paper) /\ NoPaper \notin Paper
                  /\ \A f \in Row : f[1] \in Applicant /\ f[2] \in Vacancy
                  /\ NoErrand.pc = "idle" /\ ~NoFiling.sent
  <1>1. IsFiniteSet(Applicant \X Vacancy)
    BY DeskAssumption, FS_Product
  <1> QED BY <1>1, DeskAssumption DEF Row, NoPaper, NoErrand, NoFiling

LEMMA ErrandKinds ==
  ASSUME DeskTypes, NEW e \in Errand
  PROVE  /\ errand[e].pc \in {"set", "row"} => errand[e] \in OwnErrand
         /\ errand[e].pc \in {"newest", "insert", "screen"} => errand[e] \in ApplyErrand
         /\ errand[e].pc = "sign" => errand[e] \in ReadErrand
         /\ errand[e].pc = "idle" <=> errand[e] = NoErrand
  BY DEF DeskTypes, NoErrand, OwnErrand, ApplyErrand, ReadErrand

LEMMA ChoicesAreOwn == \A u : Findable(u) \subseteq {p \in Paper : PaperOf[p] = u} \cup {NoPaper}
  BY DEF Findable, Active, Preferred, NewestOf, Legible

LEMMA DeskStart == DeskInit => DeskInv
  <1> SUFFICES ASSUME DeskInit PROVE DeskInv
    OBVIOUS
  <1>1. DeskTypes
    <2>1. ASSUME NEW r \in [state: {"uploaded", "parsed"}, preferred: {FALSE}, stored: {TRUE}, at: {0}] PROVE r \in PaperRow
      <3>1. r.at \in {0} /\ r.state \in {"uploaded", "parsed"}
        OBVIOUS
      <3>4. r.preferred \in {FALSE}
        BY Zenon
      <3>5. r.stored \in {TRUE}
        BY Zenon
      <3>6. r.at \in Nat /\ r.state \in {"uploaded", "parsed", "deleted"}
        BY <3>1
      <3>2. r = [state |-> r.state, preferred |-> r.preferred, stored |-> r.stored, at |-> r.at]
        OBVIOUS
      <3>3. r.preferred \in BOOLEAN /\ r.stored \in BOOLEAN
        BY <3>4, <3>5, Zenon
      <3> QED BY <3>2, <3>3, <3>6, Zenon DEF PaperRow
    <2>2. paper \in [Paper -> PaperRow]
      BY <2>1, Zenon DEF DeskInit
    <2> QED BY <2>2 DEF DeskInit, DeskTypes
  <1>2. Filed = {}
    BY DEF DeskInit, Filed, NoFiling
  <1>3. \A e \in Errand : ErrandStands(errand[e])
    BY DEF DeskInit, ErrandStands, NoErrand
  <1>4. FilesStand
    BY Zenon DEF DeskInit, FilesStand
  <1> QED BY <1>1, <1>2, <1>3, <1>4 DEF DeskInv, DeskInit, LinksSent, SentWithTheirOwn, LinksLeadToTheSubmitted

LEMMA TouchedIs ==
  ASSUME DeskTypes, NEW p \in Paper
  PROVE  /\ Touched(p) \in PaperRow /\ Touched(p).state = paper[p].state /\ Touched(p).preferred = paper[p].preferred
         /\ Touched(p).stored = paper[p].stored
  <1>1. PICK ats : ats = {paper[q].at : q \in Paper}
    BY Zenon
  <1>2. ats \in SUBSET Nat /\ ats # {}
    BY <1>1 DEF DeskTypes, PaperRow
  <1>3. IsFiniteSet(ats)
    <2>1. IsFiniteSet(Paper)
      BY DeskSets
    <2>2. PICK at : at = [q \in Paper |-> paper[q].at]
      BY Zenon
    <2>3. at \in Surjection(Paper, ats)
      BY <1>1, <2>2 DEF Surjection
    <2> QED BY <2>1, <2>3, FS_Surjection
  <1>4. \E n \in ats : \A m \in ats : m <= n
    <2>1. Max(ats) \in ats /\ \A m \in ats : Max(ats) >= m
      BY <1>2, <1>3, LargestOf
    <2>2. PICK n \in ats : n = Max(ats)
      BY <2>1
    <2>3. \A m \in ats : n >= m
      BY <2>1, <2>2
    <2> QED BY <1>2, <2>3
  <1>5. LatestAt \in Nat
    BY <1>1, <1>2, <1>4, Zenon DEF LatestAt
  <1>6. paper[p] \in PaperRow /\ 1 + LatestAt \in Nat
    BY <1>5 DEF DeskTypes
  <1> QED BY <1>6 DEF Touched, PaperRow

\* A step on the resumes alone, whose choices are noted; one errand may begin or end with it.
LEMMA PapersMove ==
  ASSUME DeskInv, NEW e, NEW x, errand' = [errand EXCEPT ![e] = x] \/ errand' = errand, x \in {NoErrand} \cup OwnErrand,
         paper' \in [Paper -> PaperRow], choosing' = Seen(choosing),
         UNCHANGED <<filing, links>>, deleting \subseteq deleting',
         \A p \in Paper : paper'[p].stored = paper[p].stored \/ p \in deleting'
  PROVE  DeskInv'
  <1>0. DeskTypes /\ (\A y \in Errand : ErrandStands(errand[y])) /\ LinksSent /\ FilesStand /\ SentWithTheirOwn
        /\ LinksLeadToTheSubmitted
    BY DEF DeskInv
  <1>1. \A y \in Errand : errand'[y] = errand[y] \/ errand'[y] = x
    BY <1>0 DEF DeskTypes
  <1>2. x.pc \in {"idle", "set", "row"}
    BY DEF OwnErrand, NoErrand
  <1>3. PICK all : all = [u \in Applicant |-> Findable(u)']
    BY Zenon
  <1>4. \A u \in Applicant : all[u] \subseteq Paper \cup {NoPaper}
    <2>1. \A u : Findable(u)' \subseteq Paper \cup {NoPaper}
      BY DEF Findable, Active, Preferred, NewestOf, Legible
    <2> QED BY <1>3, <2>1
  <1>5. \A f \in Row : choosing'[f] = IF \E y \in Errand : errand[y].pc # "idle" /\ errand[y].does = "apply" /\ errand[y].of = f
                                      THEN choosing[f] \cup all[f[1]] ELSE choosing[f]
    BY <1>3, DeskSets, Zenon DEF Seen
  <1>6. \A f \in Row : choosing'[f] \subseteq Paper \cup {NoPaper} /\ choosing[f] \subseteq choosing'[f]
    BY <1>0, <1>4, <1>5, DeskSets, Zenon DEF DeskTypes
  <1>7. choosing' \in [Row -> SUBSET (Paper \cup {NoPaper})]
    <2>1. choosing' = [f \in Row |-> choosing'[f]]
      BY DEF Seen
    <2> QED BY <1>6, <2>1
  <1>8. DeskTypes'
    <2>1. errand' \in [Errand -> {NoErrand} \cup OwnErrand \cup ApplyErrand \cup ReadErrand]
      BY <1>0 DEF DeskTypes
    <2> QED BY <1>0, <1>7, <2>1 DEF DeskTypes
  <1>9. FilesStand'
    BY <1>0 DEF FilesStand, DeskTypes
  <1>10. Filed' = Filed /\ LinksSent'
    BY <1>0 DEF Filed, LinksSent
  <1>11. SentWithTheirOwn'
    <2>1. \A f \in Filed : f \in Row
      BY DEF Filed
    <2> QED BY <1>0, <1>6, <1>10, <2>1 DEF SentWithTheirOwn
  <1>12. LinksLeadToTheSubmitted'
    BY <1>0 DEF LinksLeadToTheSubmitted
  <1>13. ASSUME NEW y \in Errand PROVE ErrandStands(errand[y])'
    <2>1. CASE errand'[y] = x
      BY <1>2, <2>1 DEF ErrandStands
    <2>2. CASE errand'[y] = errand[y]
      <3>1. ErrandStands(errand[y])
        BY <1>0
      <3>2. ASSUME errand[y].pc = "newest" PROVE Findable(errand[y].of[1])' \subseteq choosing'[errand[y].of]
        <4>1. errand[y] \in ApplyErrand /\ errand[y].of \in Row /\ errand[y].does = "apply"
          BY <1>0, <3>2, ErrandKinds DEF ApplyErrand
        <4>2. PICK f \in Row : f = errand[y].of
          BY <4>1
        <4>3. choosing'[f] = choosing[f] \cup all[f[1]] /\ f[1] \in Applicant
          BY <1>5, <3>2, <4>1, <4>2, DeskSets, Zenon
        <4>4. all[f[1]] = Findable(f[1])'
          BY <1>3, <4>3
        <4>5. errand'[y].of = f
          BY <2>2, <4>2
        <4> QED BY <4>2, <4>3, <4>4, <4>5
      <3>3. errand[y].pc = "insert" => errand[y].of \in Row
        BY <1>0, ErrandKinds DEF ApplyErrand
      <3> QED BY <1>6, <2>2, <3>1, <3>2, <3>3 DEF ErrandStands
    <2> QED BY <1>1, <2>1, <2>2
  <1> QED BY <1>8, <1>9, <1>10, <1>11, <1>12, <1>13 DEF DeskInv

LEMMA ReadPaperKeeps == ASSUME DeskInv, NEW p \in Paper, ReadPaper(p) PROVE DeskInv'
  <1>0. DeskTypes
    BY DEF DeskInv
  <1>1. PICK r : r = [Touched(p) EXCEPT !.state = "parsed"]
    BY Zenon
  <1>2. r \in PaperRow /\ r.stored = paper[p].stored
    BY <1>0, <1>1, TouchedIs DEF PaperRow
  <1>3. paper' = [paper EXCEPT ![p] = r] /\ errand' = errand /\ choosing' = Seen(choosing) /\ UNCHANGED <<filing, links, deleting>>
    BY <1>1 DEF ReadPaper
  <1>4. paper' \in [Paper -> PaperRow] /\ \A q \in Paper : paper'[q].stored = paper[q].stored
    BY <1>0, <1>2, <1>3 DEF DeskTypes
  <1> QED BY <1>3, <1>4, PapersMove

LEMMA SwitchKeeps ==
  ASSUME DeskInv, NEW p \in Paper, NEW e \in Errand, UnsetDefault(e, p) \/ SetDefault(e) \/ DeleteRow(e)
  PROVE  DeskInv'
  <1>0. DeskTypes
    BY DEF DeskInv
  <1>2. CASE UnsetDefault(e, p)
    <2>1. PICK old \in SUBSET Paper : paper' = [q \in Paper |-> IF q \in old THEN [Touched(q) EXCEPT !.preferred = FALSE] ELSE paper[q]]
      <3>1. {q \in Paper : PaperOf[q] = PaperOf[p] /\ paper[q].preferred /\ paper[q].state # "deleted"} \in SUBSET Paper
        OBVIOUS
      <3> QED BY <1>2, <3>1, Zenon DEF UnsetDefault
    <2>2. \A q \in Paper : [Touched(q) EXCEPT !.preferred = FALSE] \in PaperRow
                           /\ [Touched(q) EXCEPT !.preferred = FALSE].stored = paper[q].stored
      BY <1>0, TouchedIs, Zenon DEF PaperRow
    <2>3. paper' \in [Paper -> PaperRow] /\ \A q \in Paper : paper'[q].stored = paper[q].stored
      BY <1>0, <2>1, <2>2 DEF DeskTypes
    <2>4. PICK x : x = [pc |-> "set", does |-> "switch", paper |-> p]
      BY Zenon
    <2>5. x \in OwnErrand
      BY <2>4 DEF OwnErrand
    <2>6. errand' = [errand EXCEPT ![e] = x] /\ choosing' = Seen(choosing) /\ UNCHANGED <<filing, links, deleting>>
      BY <1>2, <2>4 DEF UnsetDefault, Begin
    <2> QED BY <2>3, <2>5, <2>6, PapersMove, Zenon
  <1>3. CASE SetDefault(e)
    <2>1. PICK q \in Paper : q = errand[e].paper
      BY <1>0, <1>3, ErrandKinds DEF SetDefault, OwnErrand
    <2>2. PICK r : r = [Touched(q) EXCEPT !.preferred = TRUE]
      BY Zenon
    <2>3. r \in PaperRow /\ r.stored = paper[q].stored
      BY <1>0, <2>2, TouchedIs, Zenon DEF PaperRow
    <2>4. /\ paper' = [paper EXCEPT ![q] = r] /\ errand' = [errand EXCEPT ![e] = NoErrand] /\ choosing' = Seen(choosing)
          /\ UNCHANGED <<filing, links, deleting>>
      BY <1>3, <2>1, <2>2 DEF SetDefault, End
    <2>5. paper' \in [Paper -> PaperRow] /\ \A o \in Paper : paper'[o].stored = paper[o].stored
      BY <1>0, <2>3, <2>4 DEF DeskTypes
    <2> QED BY <2>4, <2>5, PapersMove, Zenon
  <1>4. CASE DeleteRow(e)
    <2>1. PICK q \in Paper : q = errand[e].paper
      BY <1>0, <1>4, ErrandKinds DEF DeleteRow, OwnErrand
    <2>2. PICK r : r = [paper[q] EXCEPT !.state = "deleted"]
      BY Zenon
    <2>3. r \in PaperRow /\ r.stored = paper[q].stored
      BY <1>0, <2>2 DEF PaperRow, DeskTypes
    <2>4. /\ paper' = [paper EXCEPT ![q] = r] /\ errand' = [errand EXCEPT ![e] = NoErrand] /\ choosing' = Seen(choosing)
          /\ UNCHANGED <<filing, links, deleting>>
      BY <1>0, <1>4, <2>1, <2>2 DEF DeleteRow, End, DeskTypes
    <2>5. paper' \in [Paper -> PaperRow] /\ \A o \in Paper : paper'[o].stored = paper[o].stored
      BY <1>0, <2>3, <2>4 DEF DeskTypes
    <2> QED BY <2>4, <2>5, PapersMove, Zenon
  <1> QED BY <1>2, <1>3, <1>4

\* A step that leaves what can be found and what has been sent alone, and notes no less of the choices.
LEMMA OneErrandMoves ==
  ASSUME DeskInv, NEW e \in Errand, NEW x, errand' = [errand EXCEPT ![e] = x],
         x \in {NoErrand} \cup OwnErrand \cup ApplyErrand \cup ReadErrand, ErrandStands(x)',
         paper' \in [Paper -> PaperRow], \A u : Findable(u)' = Findable(u),
         \A p \in Paper : paper'[p].stored = paper[p].stored \/ p \in deleting', deleting \subseteq deleting',
         choosing' \in [Row -> SUBSET (Paper \cup {NoPaper})], \A f \in Row : choosing[f] \subseteq choosing'[f],
         filing' \in [Row -> {NoFiling} \cup FiledRow],
         \A f \in Row : filing[f].sent => filing'[f].sent /\ filing'[f].paper = filing[f].paper,
         \A f \in Row : ~filing[f].sent /\ filing'[f].sent =>
            filing'[f].paper \in choosing'[f] /\ (filing'[f].paper # NoPaper => PaperOf[filing'[f].paper] = f[1]),
         \A l \in links' : \/ l \in links
                           \/ /\ l.of \in Row /\ filing'[l.of].sent /\ RequireOwned(l.by, l.of) /\ l.paper = filing'[l.of].paper
                              /\ l.dead => l.paper \in deleting'
  PROVE  DeskInv'
  <1>0. DeskTypes /\ (\A y \in Errand : ErrandStands(errand[y])) /\ LinksSent /\ FilesStand /\ SentWithTheirOwn
        /\ LinksLeadToTheSubmitted
    BY DEF DeskInv
  <1>1. \A y \in Errand : errand'[y] = IF y = e THEN x ELSE errand[y]
    BY <1>0 DEF DeskTypes
  <1>2. DeskTypes'
    BY <1>0 DEF DeskTypes
  <1>3. FilesStand'
    BY <1>0 DEF FilesStand, DeskTypes
  <1>4. LinksSent' /\ LinksLeadToTheSubmitted'
    BY <1>0 DEF LinksSent, LinksLeadToTheSubmitted, RequireOwned
  <1>5. SentWithTheirOwn'
    BY <1>0 DEF SentWithTheirOwn, Filed
  <1>6. ASSUME NEW y \in Errand PROVE ErrandStands(errand[y])'
    <2>1. CASE y = e
      BY <1>1, <2>1 DEF ErrandStands
    <2>2. CASE y # e
      <3>1. errand'[y] = errand[y] /\ ErrandStands(errand[y])
        BY <1>0, <1>1, <2>2
      <3>2. errand[y].pc \in {"newest", "insert", "screen", "sign"} => errand[y].of \in Row
        BY <1>0, ErrandKinds DEF ApplyErrand, ReadErrand
      <3>4. errand[y].pc = "newest" => Findable(errand[y].of[1])' \subseteq choosing'[errand[y].of]
        BY <3>1, <3>2, Zenon DEF ErrandStands
      <3> QED BY <3>1, <3>2, <3>4 DEF ErrandStands, RequireOwned
    <2> QED BY <2>1, <2>2
  <1> QED BY <1>2, <1>3, <1>4, <1>5, <1>6 DEF DeskInv

LEMMA SubmitKeeps ==
  ASSUME DeskInv, NEW e \in Errand, NEW f \in Row, NEW named \in Paper \cup {NoPaper}, SubmitApplication(e, f, named)
  PROVE  DeskInv'
  <1>0. DeskTypes
    BY DEF DeskInv
  <1>1. UNCHANGED <<paper, filing, contacts, links, deleting>>
    BY DEF SubmitApplication
  <1>2. PICK add \in SUBSET (Paper \cup {NoPaper}) : add = IF named # NoPaper THEN {named} ELSE Findable(f[1])
    BY ChoicesAreOwn, Zenon
  <1>3. choosing' = [choosing EXCEPT ![f] = choosing[f] \cup add]
    BY <1>0, <1>2 DEF SubmitApplication, DeskTypes
  <1>4. choosing' \in [Row -> SUBSET (Paper \cup {NoPaper})] /\ choosing'[f] = choosing[f] \cup add
        /\ \A g \in Row : choosing[g] \subseteq choosing'[g]
    BY <1>0, <1>2, <1>3 DEF DeskTypes
  <1>5. PICK first_ : first_ = IF named # NoPaper THEN {named} ELSE Preferred(f[1])
    BY Zenon
  <1>6. first_ = {} => named = NoPaper
    BY <1>5
  <1>7. \A p \in first_ : p \in Paper /\ p \in add /\ PaperOf[p] = f[1]
    <2>1. CASE named # NoPaper
      BY <1>2, <1>5, <2>1 DEF SubmitApplication
    <2>2. CASE named = NoPaper
      BY <1>2, <1>5, <2>2 DEF Preferred, Legible, Findable, Active
    <2> QED BY <2>1, <2>2
  <1>8. PICK x : /\ errand' = [errand EXCEPT ![e] = x]
                 /\ \/ first_ = {} /\ x = [pc |-> "newest", does |-> "apply", of |-> f, paper |-> NoPaper]
                    \/ \E p \in first_ : x = [pc |-> "insert", does |-> "apply", of |-> f, paper |-> p]
    <2>1. CASE first_ = {}
      BY <1>5, <2>1, Zenon DEF SubmitApplication, Begin
    <2>2. CASE first_ # {}
      <3>1. \E p \in first_ : Begin(e, [pc |-> "insert", does |-> "apply", of |-> f, paper |-> p])
        BY <1>5, <2>2, Zenon DEF SubmitApplication
      <3> QED BY <3>1, Zenon DEF Begin
    <2> QED BY <2>1, <2>2
  <1>9. x \in ApplyErrand
    BY <1>7, <1>8 DEF ApplyErrand
  <1>10. \A u : Findable(u)' = Findable(u)
    BY <1>1 DEF Findable, Active, Preferred, Legible, NewestOf
  <1>11. ErrandStands(x)'
    <2>1. CASE first_ = {} /\ x = [pc |-> "newest", does |-> "apply", of |-> f, paper |-> NoPaper]
      <3>1. x.pc = "newest" /\ x.of = f /\ add = Findable(f[1])
        BY <1>2, <1>6, <2>1
      <3> QED BY <1>4, <1>10, <3>1 DEF ErrandStands
    <2>2. CASE \E p \in first_ : x = [pc |-> "insert", does |-> "apply", of |-> f, paper |-> p]
      <3>1. PICK p \in first_ : x = [pc |-> "insert", does |-> "apply", of |-> f, paper |-> p]
        BY <2>2
      <3>2. x.pc = "insert" /\ x.of = f /\ x.paper = p
        BY <3>1
      <3> QED BY <1>4, <1>7, <3>2 DEF ErrandStands
    <2> QED BY <1>8, <2>1, <2>2
  <1>12. filing' = filing /\ links' = links /\ paper' = paper /\ deleting' = deleting
    BY <1>1
  <1>13. paper' \in [Paper -> PaperRow] /\ filing' \in [Row -> {NoFiling} \cup FiledRow]
    BY <1>0, <1>12 DEF DeskTypes
  <1> QED BY <1>4, <1>8, <1>9, <1>10, <1>11, <1>12, <1>13, OneErrandMoves, Zenon

LEMMA FindNewestKeeps == ASSUME DeskInv, NEW e \in Errand, FindNewest(e) PROVE DeskInv'
  <1>0. DeskTypes /\ ErrandStands(errand[e])
    BY DEF DeskInv
  <1>1. PICK q : q = errand[e]
    OBVIOUS
  <1>2. q \in ApplyErrand /\ q.pc = "newest" /\ q.of \in Row
    BY <1>0, <1>1, ErrandKinds DEF FindNewest, ApplyErrand
  <1>3. PICK mine : mine = Legible(q.of[1])
    OBVIOUS
  <1>4. PICK p \in IF mine = {} THEN {NoPaper} ELSE NewestOf(mine) : errand' = [errand EXCEPT ![e].pc = "insert", ![e].paper = p]
    BY <1>1, <1>3, Zenon DEF FindNewest
  <1>5. p \in Findable(q.of[1])
    BY <1>3, <1>4 DEF Findable, Active, Preferred
  <1>6. p \in Paper \cup {NoPaper} /\ (p # NoPaper => PaperOf[p] = q.of[1]) /\ p \in choosing[q.of]
    BY <1>0, <1>1, <1>2, <1>5, ChoicesAreOwn DEF ErrandStands
  <1>7. PICK x : x = [q EXCEPT !.pc = "insert", !.paper = p]
    OBVIOUS
  <1>8. errand' = [errand EXCEPT ![e] = x]
    BY <1>0, <1>1, <1>4, <1>7, Zenon DEF DeskTypes
  <1>9. x \in ApplyErrand /\ x.pc = "insert" /\ x.of = q.of /\ x.paper = p
    BY <1>2, <1>6, <1>7, Zenon DEF ApplyErrand
  <1>10. UNCHANGED <<paper, filing, links, choosing, deleting>>
    BY DEF FindNewest
  <1>11. \A u : Findable(u)' = Findable(u)
    BY <1>10 DEF Findable, Active, Preferred, Legible, NewestOf
  <1>12. ErrandStands(x)'
    BY <1>6, <1>9, <1>10 DEF ErrandStands
  <1>13. paper' \in [Paper -> PaperRow] /\ filing' \in [Row -> {NoFiling} \cup FiledRow]
         /\ choosing' \in [Row -> SUBSET (Paper \cup {NoPaper})]
    BY <1>0, <1>10 DEF DeskTypes
  <1> QED BY <1>8, <1>9, <1>10, <1>11, <1>12, <1>13, OneErrandMoves, Zenon

LEMMA FilingNumber == ASSUME DeskTypes PROVE IsFiniteSet(Filed) /\ Cardinality(Filed) \in Nat /\ Filed \subseteq Row
  <1>1. Filed \subseteq Row
    BY DEF Filed
  <1> QED BY <1>1, DeskSets, FS_Subset, FS_CardinalityType

LEMMA InsertRowKeeps == ASSUME DeskInv, NEW e \in Errand, InsertRow(e) PROVE DeskInv'
  <1>0. DeskTypes /\ ErrandStands(errand[e])
    BY DEF DeskInv
  <1>1. PICK q : q = errand[e]
    OBVIOUS
  <1>2. q \in ApplyErrand /\ q.pc = "insert" /\ q.of \in Row /\ q.paper \in Paper \cup {NoPaper}
    BY <1>0, <1>1, ErrandKinds DEF InsertRow, ApplyErrand
  <1>3. UNCHANGED <<paper, links, choosing, deleting>>
    BY DEF InsertRow
  <1>4. \A u : Findable(u)' = Findable(u)
    BY <1>3 DEF Findable, Active, Preferred, Legible, NewestOf
  <1>5. paper' \in [Paper -> PaperRow] /\ choosing' \in [Row -> SUBSET (Paper \cup {NoPaper})]
    BY <1>0, <1>3 DEF DeskTypes
  <1>6. CASE filing[q.of].sent
    <2>1. errand' = [errand EXCEPT ![e] = NoErrand] /\ filing' = filing
      BY <1>1, <1>6 DEF InsertRow, End
    <2>2. ErrandStands(NoErrand)'
      BY DeskSets DEF ErrandStands
    <2>3. filing' \in [Row -> {NoFiling} \cup FiledRow]
      BY <1>0, <2>1 DEF DeskTypes
    <2> QED BY <1>3, <1>4, <1>5, <2>1, <2>2, <2>3, OneErrandMoves, Zenon
  <1>7. CASE ~ filing[q.of].sent
    <2>1. PICK r : r = [sent |-> TRUE, paper |-> q.paper, hidden |-> {}, notes |-> 0, screened |-> Unscreened, at |-> Cardinality(Filed)]
      BY Zenon
    <2>2. Unscreened \in Assessment
      BY DEF Unscreened, Assessment
    <2>3. r \in FiledRow /\ r.sent /\ r.paper = q.paper
      BY <1>0, <1>2, <2>1, <2>2, FilingNumber DEF FiledRow
    <2>4. filing' = [filing EXCEPT ![q.of] = r] /\ errand' = [errand EXCEPT ![e].pc = "screen"]
      BY <1>1, <1>7, <2>1 DEF InsertRow
    <2>5. PICK x : x = [q EXCEPT !.pc = "screen"]
      BY Zenon
    <2>6. errand' = [errand EXCEPT ![e] = x] /\ x \in ApplyErrand /\ x.pc = "screen" /\ x.of = q.of
      BY <1>0, <1>1, <1>2, <2>4, <2>5 DEF DeskTypes, ApplyErrand
    <2>7. \A g \in Row : filing'[g] = IF g = q.of THEN r ELSE filing[g]
      BY <1>0, <2>4 DEF DeskTypes
    <2>8. ErrandStands(x)'
      BY <1>2, <2>3, <2>6, <2>7 DEF ErrandStands
    <2>9. filing' \in [Row -> {NoFiling} \cup FiledRow]
      BY <1>0, <2>3, <2>4, Zenon DEF DeskTypes
    <2>10. \A g \in Row : filing[g].sent => filing'[g].sent /\ filing'[g].paper = filing[g].paper
      BY <1>7, <2>7
    <2>11. \A g \in Row : ~filing[g].sent /\ filing'[g].sent =>
              filing'[g].paper \in choosing'[g] /\ (filing'[g].paper # NoPaper => PaperOf[filing'[g].paper] = g[1])
      <3>1. q.paper \in choosing[q.of] /\ (q.paper # NoPaper => PaperOf[q.paper] = q.of[1])
        BY <1>0, <1>1, <1>2 DEF ErrandStands
      <3> QED BY <1>3, <2>3, <2>7, <3>1
    <2> QED BY <1>3, <1>4, <1>5, <2>6, <2>8, <2>9, <2>10, <2>11, OneErrandMoves, Zenon
  <1> QED BY <1>6, <1>7

LEMMA ScreenKeeps ==
  ASSUME DeskInv, NEW e \in Errand, NEW result \in Assessment, Screen(e, result)
  PROVE  DeskInv' /\ \A g \in Row : filing[g].sent => filing'[g].sent /\ filing'[g].hidden = filing[g].hidden
  <1>0. DeskTypes /\ ErrandStands(errand[e])
    BY DEF DeskInv
  <1>1. PICK f \in Row : f = errand[e].of
    BY <1>0, ErrandKinds DEF Screen, ApplyErrand
  <1>2. filing[f].sent /\ filing[f] \in FiledRow
    BY <1>0, <1>1, DeskSets DEF Screen, ErrandStands, DeskTypes
  <1>3. PICK r : r = [filing[f] EXCEPT !.screened = result]
    BY Zenon
  <1>4. r \in FiledRow /\ r.sent /\ r.paper = filing[f].paper /\ r.hidden = filing[f].hidden
    BY <1>2, <1>3, Zenon DEF FiledRow
  <1>5. filing' = [filing EXCEPT ![f] = r] /\ errand' = [errand EXCEPT ![e] = NoErrand]
    BY <1>0, <1>1, <1>3 DEF Screen, End, DeskTypes
  <1>6. UNCHANGED <<paper, links, choosing, deleting>>
    BY DEF Screen
  <1>7. \A g \in Row : filing'[g] = IF g = f THEN r ELSE filing[g]
    BY <1>0, <1>5 DEF DeskTypes
  <1>8. \A u : Findable(u)' = Findable(u)
    BY <1>6 DEF Findable, Active, Preferred, Legible, NewestOf
  <1>9. /\ paper' \in [Paper -> PaperRow] /\ choosing' \in [Row -> SUBSET (Paper \cup {NoPaper})]
        /\ filing' \in [Row -> {NoFiling} \cup FiledRow]
    BY <1>0, <1>4, <1>5, <1>6 DEF DeskTypes
  <1>10. ErrandStands(NoErrand)'
    BY DeskSets DEF ErrandStands
  <1>11. \A g \in Row : /\ filing[g].sent => filing'[g].sent /\ filing'[g].paper = filing[g].paper /\ filing'[g].hidden = filing[g].hidden
                        /\ filing'[g].sent => filing[g].sent
    BY <1>2, <1>4, <1>7
  <1>12. DeskInv'
    BY <1>5, <1>6, <1>8, <1>9, <1>10, <1>11, OneErrandMoves, Zenon
  <1> QED BY <1>11, <1>12

LEMMA DownloadKeeps ==
  ASSUME DeskInv, NEW e \in Errand, NEW f \in Row, NEW r \in Recruiter, GetResumeDownload(e, r, f) \/ GetSignedUrl(e)
  PROVE  DeskInv'
  <1>0. DeskTypes /\ ErrandStands(errand[e]) /\ FilesStand
    BY DEF DeskInv
  <1>1. UNCHANGED <<paper, filing, choosing, deleting>>
    BY DEF GetResumeDownload, GetSignedUrl
  <1>2. \A u : Findable(u)' = Findable(u)
    BY <1>1 DEF Findable, Active, Preferred, Legible, NewestOf
  <1>3. /\ paper' \in [Paper -> PaperRow] /\ choosing' \in [Row -> SUBSET (Paper \cup {NoPaper})]
        /\ filing' \in [Row -> {NoFiling} \cup FiledRow]
    BY <1>0, <1>1 DEF DeskTypes
  <1>4. CASE GetResumeDownload(e, r, f)
    <2>1. PICK p : p = filing[f].paper
      OBVIOUS
    <2>2. filing[f].sent /\ RequireOwned(r, f) /\ p # NoPaper
      BY <1>4, <2>1 DEF GetResumeDownload
    <2>3. p \in Paper
      BY <1>0, <2>1, <2>2, DeskSets, Zenon DEF DeskTypes, FiledRow
    <2>4. PICK x : x = [pc |-> "sign", does |-> "read", of |-> f, by |-> r, paper |-> p]
      BY Zenon
    <2>5. x \in ReadErrand /\ x.pc = "sign" /\ x.of = f /\ x.by = r /\ x.paper = p
      BY <2>3, <2>4 DEF ReadErrand
    <2>6. errand' = [errand EXCEPT ![e] = x] /\ links' = links
      BY <1>4, <2>1, <2>4 DEF GetResumeDownload, Begin
    <2>7. ErrandStands(x)'
      BY <1>1, <2>1, <2>2, <2>5 DEF ErrandStands, RequireOwned
    <2> QED BY <1>1, <1>2, <1>3, <2>5, <2>6, <2>7, OneErrandMoves, Zenon
  <1>5. CASE GetSignedUrl(e)
    <2>1. PICK q : q = errand[e]
      OBVIOUS
    <2>2. q \in ReadErrand /\ q.pc = "sign" /\ q.of \in Row /\ q.paper \in Paper
      BY <1>0, <1>5, <2>1, ErrandKinds DEF GetSignedUrl, ReadErrand
    <2>3. filing[q.of].sent /\ RequireOwned(q.by, q.of) /\ q.paper = filing[q.of].paper
      BY <1>0, <2>1, <2>2 DEF ErrandStands
    <2>4. PICK l : l = [by |-> q.by, of |-> q.of, paper |-> q.paper, dead |-> ~ paper[q.paper].stored]
      BY Zenon
    <2>5. links' \subseteq links \cup {l} /\ errand' = [errand EXCEPT ![e] = NoErrand]
      BY <1>5, <2>1, <2>4 DEF GetSignedUrl, End
    <2>6. l.dead => l.paper \in deleting
      BY <1>0, <2>2, <2>4, Zenon DEF FilesStand
    <2>7. ErrandStands(NoErrand)'
      BY DeskSets DEF ErrandStands
    <2>8. \A k \in links' : \/ k \in links
                            \/ /\ k.of \in Row /\ filing'[k.of].sent /\ RequireOwned(k.by, k.of) /\ k.paper = filing'[k.of].paper
                               /\ k.dead => k.paper \in deleting'
      BY <1>1, <2>2, <2>3, <2>4, <2>5, <2>6
    <2> QED BY <1>1, <1>2, <1>3, <2>5, <2>7, <2>8, OneErrandMoves, Zenon
  <1> QED BY <1>4, <1>5

LEMMA DeleteFileKeeps == ASSUME DeskInv, NEW e \in Errand, NEW p \in Paper, DeleteFile(e, p) PROVE DeskInv'
  <1>0. DeskTypes
    BY DEF DeskInv
  <1>1. PICK r : r = [paper[p] EXCEPT !.stored = FALSE]
    BY Zenon
  <1>2. paper[p] \in PaperRow /\ r \in PaperRow /\ r.state = paper[p].state /\ r.preferred = paper[p].preferred /\ r.at = paper[p].at
    BY <1>0, <1>1, Zenon DEF PaperRow, DeskTypes
  <1>3. paper' = [paper EXCEPT ![p] = r] /\ deleting' = deleting \cup {p} /\ UNCHANGED <<filing, links, choosing>>
    BY <1>0, <1>1 DEF DeleteFile, DeskTypes
  <1>4. \A q \in Paper : /\ paper'[q].state = paper[q].state /\ paper'[q].preferred = paper[q].preferred /\ paper'[q].at = paper[q].at
                         /\ paper'[q].stored = paper[q].stored \/ q \in deleting'
    BY <1>0, <1>2, <1>3 DEF DeskTypes
  <1>5. \A u : Findable(u)' = Findable(u)
    <2>1. \A u : Legible(u)' = Legible(u)
      BY <1>4 DEF Legible
    <2>2. \A u : Preferred(u)' = Preferred(u)
      BY <1>4, <2>1 DEF Preferred, Legible
    <2>3. \A u : NewestOf(Legible(u))' = NewestOf(Legible(u))
      BY <1>4, <2>1 DEF NewestOf, Legible
    <2> QED BY <2>1, <2>2, <2>3 DEF Findable, Active
  <1>6. PICK x : x = [pc |-> "row", does |-> "delete", paper |-> p]
    BY Zenon
  <1>7. errand' = [errand EXCEPT ![e] = x] /\ x \in OwnErrand /\ x.pc = "row"
    BY <1>6 DEF DeleteFile, Begin, OwnErrand
  <1>8. ErrandStands(x)'
    BY <1>7 DEF ErrandStands
  <1>9. /\ paper' \in [Paper -> PaperRow] /\ choosing' \in [Row -> SUBSET (Paper \cup {NoPaper})]
        /\ filing' \in [Row -> {NoFiling} \cup FiledRow]
    BY <1>0, <1>2, <1>3 DEF DeskTypes
  <1> QED BY <1>3, <1>4, <1>5, <1>7, <1>8, <1>9, OneErrandMoves, Zenon

\* A step on the rows of applications that were sent: their resumes stay.
LEMMA RowsMove ==
  ASSUME DeskInv, filing' \in [Row -> {NoFiling} \cup FiledRow],
         \A f \in Row : filing'[f].sent = filing[f].sent /\ filing'[f].paper = filing[f].paper,
         UNCHANGED <<paper, errand, links, choosing, deleting>>
  PROVE  DeskInv'
  <1>0. DeskTypes /\ (\A y \in Errand : ErrandStands(errand[y])) /\ LinksSent /\ FilesStand /\ SentWithTheirOwn
        /\ LinksLeadToTheSubmitted
    BY DEF DeskInv
  <1>1. DeskTypes' /\ FilesStand'
    BY <1>0 DEF DeskTypes, FilesStand
  <1>2. LinksSent' /\ LinksLeadToTheSubmitted'
    BY <1>0 DEF LinksSent, LinksLeadToTheSubmitted, RequireOwned
  <1>3. SentWithTheirOwn'
    BY <1>0 DEF SentWithTheirOwn, Filed
  <1>4. \A u : Findable(u)' = Findable(u)
    BY DEF Findable, Active, Preferred, Legible, NewestOf
  <1>5. ASSUME NEW y \in Errand PROVE ErrandStands(errand[y])'
    <2>1. ErrandStands(errand[y]) /\ errand'[y] = errand[y]
      BY <1>0
    <2>2. errand[y].pc \in {"newest", "insert", "screen", "sign"} => errand[y].of \in Row
      BY <1>0, ErrandKinds DEF ApplyErrand, ReadErrand
    <2> QED BY <1>4, <2>1, <2>2 DEF ErrandStands, RequireOwned
  <1> QED BY <1>1, <1>2, <1>3, <1>5 DEF DeskInv

LEMMA ArchiveKeeps ==
  ASSUME DeskInv, NEW f \in Row, NEW who, NEW side \in {"candidate", "employer"}, NEW hide \in BOOLEAN,
         \/ side = "candidate" /\ SetArchivedByCandidate(who, f, hide)
         \/ side = "employer" /\ SetArchivedByEmployer(who, f, hide)
  PROVE  /\ DeskInv' /\ \A g \in Row : filing'[g].sent = filing[g].sent
         /\ \A g \in Row, other \in {"candidate", "employer"} \ {side} :
              filing[g].sent => (other \in filing'[g].hidden <=> other \in filing[g].hidden)
  <1>0. DeskTypes
    BY DEF DeskInv
  <1>1. filing[f].sent /\ filing' = ArchivedBy(f, side, hide) /\ UNCHANGED <<paper, errand, links, choosing, deleting>>
    BY DEF SetArchivedByCandidate, SetArchivedByEmployer
  <1>2. filing[f] \in FiledRow
    BY <1>0, <1>1, DeskSets DEF DeskTypes
  <1>3. PICK flags \in SUBSET {"candidate", "employer"} :
          flags = IF hide THEN filing[f].hidden \cup {side} ELSE filing[f].hidden \ {side}
    BY <1>2, Zenon DEF FiledRow
  <1>4. PICK r : r = [filing[f] EXCEPT !.hidden = flags]
    BY Zenon
  <1>5. r \in FiledRow /\ r.sent = filing[f].sent /\ r.paper = filing[f].paper /\ r.hidden = flags
    BY <1>2, <1>3, <1>4, Zenon DEF FiledRow
  <1>6. filing' = [filing EXCEPT ![f] = r]
    BY <1>0, <1>1, <1>3, <1>4 DEF ArchivedBy, DeskTypes
  <1>7. \A g \in Row : filing'[g] = IF g = f THEN r ELSE filing[g]
    BY <1>0, <1>6 DEF DeskTypes
  <1>8. filing' \in [Row -> {NoFiling} \cup FiledRow]
    BY <1>0, <1>5, <1>6 DEF DeskTypes
  <1>9. \A g \in Row : filing'[g].sent = filing[g].sent /\ filing'[g].paper = filing[g].paper
    BY <1>5, <1>7
  <1>10. DeskInv'
    BY <1>1, <1>8, <1>9, RowsMove
  <1>11. \A g \in Row, other \in {"candidate", "employer"} \ {side} :
              filing[g].sent => (other \in filing'[g].hidden <=> other \in filing[g].hidden)
    <2>1. \A other : other # side => (other \in flags <=> other \in filing[f].hidden)
      BY <1>3
    <2> QED BY <1>5, <1>7, <2>1
  <1> QED BY <1>9, <1>10, <1>11

LEMMA NotesKeep ==
  ASSUME DeskInv, NEW f \in Row, NEW u, NEW r \in Recruiter, SetEmployerNotes(r, f) \/ AddContactPerson(u, f)
  PROVE  DeskInv' /\ \A g \in Row : filing'[g].sent = filing[g].sent /\ (filing[g].sent => filing'[g].hidden = filing[g].hidden)
  <1>0. DeskTypes
    BY DEF DeskInv
  <1>1. CASE AddContactPerson(u, f)
    <2>1. UNCHANGED <<paper, filing, errand, links, choosing, deleting>>
      BY <1>1 DEF AddContactPerson
    <2>2. filing' \in [Row -> {NoFiling} \cup FiledRow]
      BY <1>0, <2>1 DEF DeskTypes
    <2> QED BY <2>1, <2>2, RowsMove
  <1>2. CASE SetEmployerNotes(r, f)
    <2>1. filing[f].sent /\ UNCHANGED <<paper, errand, links, choosing, deleting>>
      BY <1>2 DEF SetEmployerNotes
    <2>2. filing[f] \in FiledRow
      BY <1>0, <2>1, DeskSets DEF DeskTypes
    <2>3. PICK x : x = [filing[f] EXCEPT !.notes = r]
      BY Zenon
    <2>4. x \in FiledRow /\ x.sent = filing[f].sent /\ x.paper = filing[f].paper /\ x.hidden = filing[f].hidden
      BY <2>2, <2>3, Zenon DEF FiledRow
    <2>5. filing' = [filing EXCEPT ![f] = x]
      BY <1>0, <1>2, <2>3 DEF SetEmployerNotes, DeskTypes
    <2>6. \A g \in Row : filing'[g] = IF g = f THEN x ELSE filing[g]
      BY <1>0, <2>5 DEF DeskTypes
    <2>7. filing' \in [Row -> {NoFiling} \cup FiledRow]
      BY <1>0, <2>4, <2>5 DEF DeskTypes
    <2>8. \A g \in Row : filing'[g].sent = filing[g].sent /\ filing'[g].paper = filing[g].paper
                         /\ (filing[g].sent => filing'[g].hidden = filing[g].hidden)
      BY <2>4, <2>6
    <2> QED BY <2>1, <2>7, <2>8, RowsMove
  <1> QED BY <1>1, <1>2

LEMMA Assessed == \A n \in {-1, 0, 1} : [covered |-> n, score |-> n] \in Assessment
  BY DEF Assessment

LEMMA DeskStep == DeskInv /\ (DeskNext \/ UNCHANGED deskVars) => DeskInv'
  <1>1. ASSUME DeskInv, UNCHANGED deskVars PROVE DeskInv'
    <2>1. UNCHANGED <<paper, filing, errand, links, choosing, deleting>>
      BY <1>1 DEF deskVars
    <2>2. filing' \in [Row -> {NoFiling} \cup FiledRow]
      BY <1>1, <2>1 DEF DeskInv, DeskTypes
    <2> QED BY <1>1, <2>1, <2>2, RowsMove
  <1>2. ASSUME DeskInv, DeskNext PROVE DeskInv'
    <2>1. CASE \E p \in Paper : ReadPaper(p)
      BY <1>2, <2>1, ReadPaperKeeps
    <2>2. CASE \E p \in Paper : \E e \in Errand : UnsetDefault(e, p) \/ DeleteFile(e, p)
      BY <1>2, <2>2, SwitchKeeps, DeleteFileKeeps
    <2>3. CASE \E e \in Errand : SetDefault(e) \/ DeleteRow(e)
      <3>1. PICK e \in Errand : SetDefault(e) \/ DeleteRow(e)
        BY <2>3
      <3>2. errand[e].paper \in Paper
        BY <1>2, <3>1, ErrandKinds DEF SetDefault, DeleteRow, OwnErrand, DeskInv
      <3> QED BY <1>2, <3>1, <3>2, SwitchKeeps
    <2>4. CASE \E e \in Errand : FindNewest(e) \/ InsertRow(e) \/ \E covered \in {-1, 0, 1} : Screen(e, [covered |-> covered, score |-> covered])
      BY <1>2, <2>4, FindNewestKeeps, InsertRowKeeps, ScreenKeeps, Assessed
    <2>5. CASE \E e \in Errand : GetSignedUrl(e)
      <3>1. PICK e \in Errand : GetSignedUrl(e)
        BY <2>5
      <3>2. errand[e] \in ReadErrand
        BY <1>2, <3>1, ErrandKinds DEF GetSignedUrl, DeskInv
      <3>3. errand[e].of \in Row /\ errand[e].by \in Recruiter
        BY <3>2 DEF ReadErrand
      <3> QED BY <1>2, <3>1, <3>3, DownloadKeeps
    <2>6. CASE \E f \in Row : \/ \E e \in Errand, named \in Paper \cup {NoPaper} : SubmitApplication(e, f, named)
                              \/ \E r \in Recruiter, e \in Errand : GetResumeDownload(e, r, f)
      BY <1>2, <2>6, SubmitKeeps, DownloadKeeps
    <2>7. CASE \E f \in Row, hide \in BOOLEAN : \/ \E u \in Applicant : SetArchivedByCandidate(u, f, hide)
                                                \/ \E r \in Recruiter : SetArchivedByEmployer(r, f, hide)
      BY <1>2, <2>7, ArchiveKeeps
    <2>8. CASE \E f \in Row : (\E u \in Applicant : AddContactPerson(u, f)) \/ \E r \in Recruiter : SetEmployerNotes(r, f)
      <3>1. PICK f \in Row : (\E u \in Applicant : AddContactPerson(u, f)) \/ \E r \in Recruiter : SetEmployerNotes(r, f)
        BY <2>8
      <3>2. RecruiterOf[f[2]] \in Recruiter
        BY DeskSets, DeskAssumption
      <3> QED BY <1>2, <3>1, <3>2, NotesKeep
    <2> QED BY <1>2, <2>1, <2>2, <2>3, <2>4, <2>5, <2>6, <2>7, <2>8 DEF DeskNext
  <1> QED BY <1>1, <1>2

LEMMA DeskListsSeparate == ASSUME DeskInv, DeskNext PROVE ListsAreSeparate
  <1>0. DeskTypes
    BY DEF DeskInv
  <1>1. CASE \A g \in Row : filing[g].sent => filing'[g].sent /\ ("candidate" \in filing'[g].hidden => "candidate" \in filing[g].hidden)
    BY <1>1 DEF ListsAreSeparate, FindByUserId, Filed
  <1>2. CASE \A g \in Row : filing[g].sent => filing'[g].sent /\ ("employer" \in filing'[g].hidden => "employer" \in filing[g].hidden)
    BY <1>2 DEF ListsAreSeparate, FindForCompany, Filed
  <1>3. CASE filing' = filing
    BY <1>1, <1>3
  <1>4. CASE \E e \in Errand : InsertRow(e)
    <2>1. PICK e \in Errand : InsertRow(e)
      BY <1>4
    <2>2. PICK f \in Row : f = errand[e].of
      BY <1>0, <2>1, ErrandKinds DEF InsertRow, ApplyErrand
    <2>3. CASE filing[f].sent
      BY <1>3, <2>1, <2>2, <2>3 DEF InsertRow
    <2>4. CASE ~filing[f].sent
      <3>1. \A g \in Row : g # f => filing'[g] = filing[g]
        BY <1>0, <2>1, <2>2, <2>4 DEF InsertRow, DeskTypes
      <3> QED BY <1>1, <2>4, <3>1
    <2> QED BY <2>3, <2>4
  <1>5. CASE \E e \in Errand, covered \in {-1, 0, 1} : Screen(e, [covered |-> covered, score |-> covered])
    <2>1. \A g \in Row : filing[g].sent => filing'[g].sent /\ filing'[g].hidden = filing[g].hidden
      BY <1>5, ScreenKeeps, Assessed
    <2> QED BY <1>1, <2>1
  <1>6. CASE \E f \in Row, u \in Applicant, hide \in BOOLEAN : SetArchivedByCandidate(u, f, hide)
    <2>1. PICK f \in Row, u \in Applicant, hide \in BOOLEAN : SetArchivedByCandidate(u, f, hide)
      BY <1>6
    <2>2. \A g \in Row : filing[g].sent => filing'[g].sent /\ ("employer" \in filing'[g].hidden <=> "employer" \in filing[g].hidden)
      BY <2>1, ArchiveKeeps
    <2> QED BY <1>2, <2>2
  <1>7. CASE \E f \in Row, r \in Recruiter, hide \in BOOLEAN : SetArchivedByEmployer(r, f, hide)
    <2>1. PICK f \in Row, r \in Recruiter, hide \in BOOLEAN : SetArchivedByEmployer(r, f, hide)
      BY <1>7
    <2>2. \A g \in Row : filing[g].sent => filing'[g].sent /\ ("candidate" \in filing'[g].hidden <=> "candidate" \in filing[g].hidden)
      BY <2>1, ArchiveKeeps
    <2> QED BY <1>1, <2>2
  <1>8. CASE \E f \in Row, r \in Recruiter : SetEmployerNotes(r, f)
    <2>1. \A g \in Row : filing[g].sent => filing'[g].sent /\ filing'[g].hidden = filing[g].hidden
      BY <1>8, NotesKeep
    <2> QED BY <1>1, <2>1
  <1> QED BY <1>3, <1>4, <1>5, <1>6, <1>7, <1>8, Zenon DEF DeskNext, ReadPaper, UnsetDefault, DeleteFile, SetDefault, DeleteRow,
         FindNewest, GetSignedUrl, SubmitApplication, AddContactPerson, GetResumeDownload

\* Whoever is better than one who covers more is better than one who covers less.
LEMMA DeskRanks == ASSUME DeskInv PROVE StrongestComeFirst
  <1>1. ASSUME NEW r \in Recruiter, NEW f \in BoardPage(r), NEW g \in FindForCompany(r) \ BoardPage(r)
        PROVE  filing[f].screened.covered >= filing[g].screened.covered
    <2>1. PICK s : s = FindForCompany(r)
      OBVIOUS
    <2>2. s \subseteq Filed /\ IsFiniteSet(Filed) /\ f \in s /\ g \in s /\ s \subseteq Row
      BY <2>1, FilingNumber DEF DeskInv, FindForCompany, BoardPage
    <2>3. \A h \in s : filing[h].screened.covered \in Int /\ filing[h].screened.score \in Int
      <3>1. ASSUME NEW h \in s PROVE filing[h] \in FiledRow
        <4>1. h \in Row /\ filing[h].sent
          BY <2>2 DEF Filed
        <4>2. filing[h] \in {NoFiling} \cup FiledRow
          BY <4>1 DEF DeskInv, DeskTypes
        <4>3. ~NoFiling.sent
          BY DeskSets
        <4>4. filing[h] # NoFiling
          BY <4>1, <4>3, Zenon
        <4> QED BY <4>2, <4>4, Zenon
      <3>2. \A h \in s : filing[h].screened \in Assessment
        BY <3>1, Zenon DEF FiledRow
      <3>3. \A a \in Assessment : a.covered \in Int /\ a.score \in Int
        BY DEF Assessment
      <3> QED BY <3>2, <3>3
    <2>4. PICK above : above = {h \in s : Better(h, f)}
      BY Zenon
    <2>5. PICK beyond : beyond = {h \in s : Better(h, g)}
      BY Zenon
    <2>6. Cardinality(above) < PageOfBoard /\ ~(Cardinality(beyond) < PageOfBoard)
      BY <2>1, <2>2, <2>4, <2>5 DEF BoardPage
    <2>7. ASSUME ~(filing[f].screened.covered >= filing[g].screened.covered) PROVE FALSE
      <3>1. beyond \subseteq above
        <4>1. ASSUME NEW h \in s, Better(h, g) PROVE Better(h, f)
          <5>1. filing[h].screened.covered >= filing[g].screened.covered
            BY <2>2, <2>3, <4>1 DEF Better
          <5> QED BY <2>2, <2>3, <2>7, <5>1 DEF Better
        <4> QED BY <2>4, <2>5, <4>1
      <3>2. IsFiniteSet(above) /\ above \subseteq s
        BY <2>2, <2>4, FS_Subset
      <3>3. Cardinality(beyond) <= Cardinality(above) /\ Cardinality(beyond) \in Nat /\ Cardinality(above) \in Nat
        BY <3>1, <3>2, FS_Subset, FS_CardinalityType
      <3> QED BY <2>6, <3>3, DeskAssumption
    <2> QED BY <2>7
  <1> QED BY <1>1 DEF StrongestComeFirst

LEMMA DeskSound == DeskInv => DeskIsTrue
  BY DeskRanks DEF DeskInv, DeskIsTrue

-----------------------------------------------------------------------------
(* A document filled from the profile. *)

FactRow == [of : FactSections, on : {1, 2, Undated}, state : {"absent", "listed", "removed"}]
\* Only what lies in the past of a career may have no date.
DatesStand == \A f \in Fact : fact[f].on = Undated => fact[f].of = "experience"
LeafRow(x) == x = [state |-> "open", header |-> x.header, body |-> x.body] /\ x.body = [s \in Importable |-> x.body[s]]
\* A row of the profile is of this section of a document.
BelongsTo(r, s) == IF r.fact = 0 THEN s = "summary" ELSE fact[r.fact].of = s
NewestFirst(s, rows) ==
  \A i, j \in DOMAIN rows : i < j =>
    LET a == rows[i].on  b == rows[j].on IN
    IF s = "skills" THEN a <= b ELSE b = Undated \/ (a # Undated /\ a >= b)
\* Rows read for a section: all that stood all the while, nothing that never stood, in order.
Told(s, rows) ==
  ToSet(rows) \subseteq stood /\ (\A r \in standing : BelongsTo(r, s) => r \in ToSet(rows)) /\ NewestFirst(s, rows)
HeaderTaken(h) == importing = [pc |-> "header", header |-> h] /\ leaf = NoLeaf
Asked(todo, asked) == importing = [pc |-> "read", todo |-> todo, asked |-> asked] /\ leaf # NoLeaf
Taken(todo, asked, s, rows) ==
  importing = [pc |-> "replace", todo |-> todo, asked |-> asked, of |-> s, rows |-> rows] /\ leaf # NoLeaf /\ Told(s, rows)
Filling ==
  \/ importing = NotImporting
  \/ \E h \in stood : HeaderTaken(h)
  \/ \E asked \in SUBSET Importable : \E todo \in SUBSET asked : Asked(todo, asked)
  \/ \E asked \in SUBSET Importable : \E todo \in SUBSET asked, s \in asked : \E rows : Taken(todo, asked, s, rows)
FillInv ==
  /\ fact \in [Fact -> FactRow] /\ DatesStand /\ (leaf = NoLeaf \/ LeafRow(leaf))
  /\ standing \subseteq ProfileNow /\ (importing # NotImporting => ProfileNow \subseteq stood)
  /\ Filling

LEMMA FactIds == 0 \notin Fact /\ IsFiniteSet(Fact) /\ FactSections \subseteq {"experience", "education", "skills", "certifications"}
  BY DocumentsAssumption

LEMMA FillStart == ImportInit => FillInv
  <1> SUFFICES ASSUME ImportInit PROVE FillInv
    OBVIOUS
  <1>1. PICK R : /\ R = {r \in [of : FactSections, on : {1, Undated}, state : {"absent", "listed"}] : r.on = Undated => r.of = "experience"}
                 /\ fact \in [Fact -> R]
    BY Zenon DEF ImportInit
  <1>2. fact \in [Fact -> FactRow] /\ DatesStand
    BY <1>1 DEF FactRow, DatesStand
  <1> QED BY <1>2 DEF ImportInit, FillInv, Filling

\* Every row of the set is in a sequence of it.
LEMMA SetToSeqsIsAll ==
  ASSUME NEW U, IsFiniteSet(U), NEW q \in SetToSeqs(U)
  PROVE  ToSet(q) = U /\ \A i, j \in DOMAIN q : i # j => q[i] # q[j]
  <1>1. PICK n \in Nat : n = Cardinality(U)
    BY FS_CardinalityType
  <1>2. q \in [1 .. n -> U] /\ \A i, j \in 1 .. n : i # j => q[i] # q[j]
    BY <1>1 DEF SetToSeqs
  <1>3. q \in Injection(1 .. n, U)
    BY <1>2 DEF Injection, IsInjective
  <1>4. IsFiniteSet(1 .. n) /\ Cardinality(1 .. n) = n
    BY FS_Interval
  <1>5. q \in Surjection(1 .. n, U)
    BY <1>1, <1>3, <1>4, FS_Injection
  <1>6. ToSet(q) = U
    BY <1>2, <1>5 DEF Surjection, ToSet
  <1> QED BY <1>2, <1>6

LEMMA ContentStands ==
  ASSUME FillInv, NEW s \in Importable
  PROVE  /\ IsFiniteSet(ProfileContent(s)) /\ ProfileContent(s) \subseteq ProfileNow
         /\ \A r \in ProfileNow : BelongsTo(r, s) => r \in ProfileContent(s)
  <1> DEFINE L == {g \in Fact : fact[g].of = s /\ fact[g].state = "listed"}
             F == [f \in L |-> OfProfile(f)]
  <1>1. s = "summary" => IsFiniteSet(ProfileContent(s))
    <2>1. PICK x : x = [fact |-> 0, on |-> SummaryText]
      BY Zenon
    <2>2. IsFiniteSet({x})
      BY FS_Singleton, Zenon
    <2> QED BY <2>1, <2>2 DEF ProfileContent
  <1>2. s # "summary" => IsFiniteSet(ProfileContent(s))
    <2>1. IsFiniteSet(L)
      BY FactIds, FS_Subset
    <2>2. F \in Surjection(L, ListedFacts(s))
      BY DEF Surjection, ListedFacts
    <2> QED BY <2>1, <2>2, FS_Surjection DEF ProfileContent
  <1>3. ProfileContent(s) \subseteq ProfileNow
    BY DEF ProfileContent, ProfileNow, ListedFacts
  <1>4. ASSUME NEW r \in ProfileNow, BelongsTo(r, s) PROVE r \in ProfileContent(s)
    <2>1. CASE r = [fact |-> 0, on |-> SummaryText]
      <3>1. r.fact = 0
        BY <2>1
      <3> QED BY <1>4, <2>1, <3>1 DEF BelongsTo, ProfileContent
    <2>2. ASSUME NEW f \in Fact, fact[f].state = "listed", r = OfProfile(f) PROVE r \in ProfileContent(s)
      <3>1. r.fact = f /\ f # 0
        BY <2>2, FactIds DEF OfProfile
      <3>2. fact[f].of = s
        BY <1>4, <3>1 DEF BelongsTo
      <3>3. s # "summary"
        BY <3>2, FactIds DEF FillInv, FactRow
      <3> QED BY <2>2, <3>2, <3>3 DEF ProfileContent, ListedFacts
    <2> QED BY <2>1, <2>2 DEF ProfileNow
  <1> QED BY <1>1, <1>2, <1>3, <1>4

\* What a read puts in order is in order for whoever reads the document.
LEMMA ReadIsOrdered ==
  ASSUME FillInv, NEW s \in Importable, NEW rows \in SetToSeqs(ProfileContent(s)), InOrder(s, rows)
  PROVE  NewestFirst(s, rows)
  <1>1. ToSet(rows) = ProfileContent(s) /\ \A i, j \in DOMAIN rows : i # j => rows[i] # rows[j]
    BY ContentStands, SetToSeqsIsAll
  <1>2. \A i \in DOMAIN rows : rows[i] \in ProfileContent(s)
    BY <1>1 DEF ToSet
  <1>3. CASE s = "summary"
    <2>1. \A i, j \in DOMAIN rows : rows[i] = rows[j]
      BY <1>2, <1>3 DEF ProfileContent
    <2>2. DOMAIN rows \subseteq Nat
      BY ContentStands, FS_CardinalityType DEF SetToSeqs
    <2>3. \A i, j \in DOMAIN rows : ~ (i < j)
      BY <1>1, <2>1, <2>2
    <2> QED BY <2>3 DEF NewestFirst
  <1>4. CASE s # "summary"
    <2>1. \A i \in DOMAIN rows : \E f \in Fact : fact[f].of = s /\ rows[i].on = fact[f].on
      BY <1>2, <1>4 DEF ProfileContent, ListedFacts, OfProfile
    <2>2. \A i \in DOMAIN rows : rows[i].on \in {1, 2, 9} /\ (rows[i].on = 9 => s = "experience")
      BY <2>1 DEF FillInv, FactRow, DatesStand, Undated
    <2> SUFFICES ASSUME NEW i \in DOMAIN rows, NEW j \in DOMAIN rows, i < j
                 PROVE  IF s = "skills" THEN rows[i].on <= rows[j].on
                        ELSE rows[j].on = Undated \/ (rows[i].on # Undated /\ rows[i].on >= rows[j].on)
      BY DEF NewestFirst
    <2>3. PICK a, b \in {1, 2, 9} : a = rows[i].on /\ b = rows[j].on
      BY <2>2
    <2>4. ~ Precedes(s, rows[j], rows[i])
      BY DEF InOrder
    <2>5. CASE s = "skills"
      BY <2>3, <2>4, <2>5 DEF Precedes
    <2>6. CASE s = "experience"
      <3>1. ~ (b # Undated /\ (a = Undated \/ b > a))
        BY <2>3, <2>4, <2>6 DEF Precedes
      <3> QED BY <2>3, <2>6, <3>1 DEF Undated
    <2>7. CASE s # "skills" /\ s # "experience"
      <3>1. ~ (b > a)
        BY <2>3, <2>4, <2>7 DEF Precedes
      <3>2. a # 9 /\ b # 9
        BY <2>2, <2>3, <2>7
      <3> QED BY <2>3, <2>7, <3>1, <3>2 DEF Undated
    <2> QED BY <2>5, <2>6, <2>7
  <1> QED BY <1>3, <1>4

LEMMA AskFillKeeps == ASSUME FillInv, BeginLeaf \/ BeginImport PROVE FillInv'
  <1>1. /\ UNCHANGED <<fact, self, leaf>> /\ stood' = ProfileNow \cup {SnapshotHeader} /\ standing' = ProfileNow
        /\ importing = NotImporting
    BY DEF BeginLeaf, BeginImport, AskFill
  <1>2. ProfileNow' = ProfileNow
    BY <1>1 DEF ProfileNow, OfProfile, SummaryText
  <1>3. Filling'
    <2>1. CASE BeginLeaf
      BY <2>1, <1>1 DEF BeginLeaf, AskFill, Filling, HeaderTaken
    <2>2. CASE BeginImport
      <3>1. PICK asked \in SUBSET Importable : importing' = [pc |-> "read", todo |-> asked, asked |-> asked] /\ leaf # NoLeaf
        BY <2>2 DEF BeginImport, AskFill
      <3> QED BY <3>1, <1>1, Zenon DEF Filling, Asked
    <2> QED BY <2>1, <2>2
  <1> QED BY <1>1, <1>2, <1>3 DEF FillInv, DatesStand, LeafRow

LEMMA ReadProfileKeeps == ASSUME FillInv, NEW s \in Importable, ReadProfile(s) PROVE FillInv' /\ leaf' = leaf
  <1>1. UNCHANGED <<fact, self, leaf, stood, standing>> /\ importing # NotImporting
    BY DEF ReadProfile, NotImporting
  <1>2. ProfileNow' = ProfileNow
    BY <1>1 DEF ProfileNow, OfProfile, SummaryText
  <1>3. PICK asked \in SUBSET Importable : \E todo \in SUBSET asked : Asked(todo, asked)
    <2>1. importing.pc = "read"
      BY DEF ReadProfile
    <2> QED BY <2>1 DEF FillInv, Filling, NotImporting, HeaderTaken, Taken
  <1>4. PICK todo \in SUBSET asked : Asked(todo, asked)
    BY <1>3
  <1>5. importing.todo = todo /\ importing.asked = asked /\ leaf # NoLeaf
    BY <1>4 DEF Asked
  <1>6. PICK rows \in SetToSeqs(ProfileContent(s)) :
          InOrder(s, rows) /\ importing' = [pc |-> "replace", todo |-> todo, asked |-> asked, of |-> s, rows |-> rows]
    BY <1>5 DEF ReadProfile
  <1>7. ToSet(rows) = ProfileContent(s)
    BY ContentStands, SetToSeqsIsAll
  <1>8. Told(s, rows)
    <2>1. ToSet(rows) \subseteq stood
      BY <1>1, <1>7, ContentStands DEF FillInv
    <2>2. \A r \in standing : BelongsTo(r, s) => r \in ToSet(rows)
      BY <1>7, ContentStands DEF FillInv
    <2> QED BY <1>6, <2>1, <2>2, ReadIsOrdered DEF Told
  <1>9. Told(s, rows)'
    BY <1>1, <1>8 DEF Told, BelongsTo, NewestFirst
  <1>10. s \in asked
    BY <1>5 DEF ReadProfile
  <1>11. Filling'
    <2>1. Taken(todo, asked, s, rows)'
      BY <1>1, <1>5, <1>6, <1>9 DEF Taken
    <2> QED BY <1>10, <2>1 DEF Filling
  <1> QED BY <1>1, <1>2, <1>11 DEF FillInv, DatesStand, LeafRow

LEMMA CreateLeafKeeps == ASSUME FillInv, CreateLeaf PROVE FillInv' /\ leaf = NoLeaf /\ leaf'.header \in stood
  <1>1. importing.pc = "header" /\ UNCHANGED <<fact, self, stood, standing>> /\ importing' = NotImporting
    BY DEF CreateLeaf
  <1>2. PICK h \in stood : HeaderTaken(h)
    BY <1>1 DEF FillInv, Filling, NotImporting, Asked, Taken
  <1>3. leaf = NoLeaf /\ importing.header = h
    BY <1>2 DEF HeaderTaken
  <1>4. PICK x : x = [s \in Importable |-> << >>]
    BY Zenon
  <1>5. leaf' = [state |-> "open", header |-> h, body |-> x]
    BY <1>3, <1>4 DEF CreateLeaf
  <1>6. LeafRow(leaf)' /\ leaf'.header = h
    BY <1>4, <1>5 DEF LeafRow
  <1>7. ProfileNow' = ProfileNow
    BY <1>1 DEF ProfileNow, OfProfile, SummaryText
  <1> QED BY <1>1, <1>3, <1>6, <1>7 DEF FillInv, DatesStand, Filling

LEMMA ReplaceKeeps == ASSUME FillInv, ReplaceSection PROVE FillInv' /\ leaf # NoLeaf /\ ImportsTellTheProfile
  <1>1. importing.pc = "replace" /\ UNCHANGED <<fact, self, stood, standing>>
    BY DEF ReplaceSection
  <1>2. PICK asked \in SUBSET Importable : \E todo \in SUBSET asked, s \in asked : \E rows : Taken(todo, asked, s, rows)
    BY <1>1 DEF FillInv, Filling, NotImporting, HeaderTaken, Asked
  <1>3. PICK todo \in SUBSET asked, t \in asked : \E rows : Taken(todo, asked, t, rows)
    BY <1>2
  <1>4. PICK rows : Taken(todo, asked, t, rows)
    BY <1>3
  <1>5. importing = [pc |-> "replace", todo |-> todo, asked |-> asked, of |-> t, rows |-> rows] /\ leaf # NoLeaf /\ Told(t, rows)
    BY <1>4 DEF Taken
  <1>6. importing.todo = todo /\ importing.asked = asked /\ importing.of = t /\ importing.rows = rows
    BY <1>5
  <1>7. PICK h, b : leaf = [state |-> "open", header |-> h, body |-> b] /\ b = [s \in Importable |-> b[s]]
    BY <1>5 DEF FillInv, LeafRow
  <1>8. PICK c : c = [b EXCEPT ![t] = rows]
    BY Zenon
  <1>9. leaf' = [state |-> "open", header |-> h, body |-> c]
    <2>1. leaf' = [leaf EXCEPT !.body[t] = rows]
      BY <1>6 DEF ReplaceSection
    <2>2. leaf.body = b
      BY <1>7
    <2>3. leaf' = [leaf EXCEPT !.body = c]
      BY <2>1, <2>2, <1>8
    <2> QED BY <2>3, <1>7
  <1>10. /\ leaf'.header = h /\ leaf.header = h /\ leaf'.body = c /\ leaf.body = b
         /\ c = [s \in Importable |-> c[s]] /\ c[t] = rows /\ \A s \in Importable : s # t => c[s] = b[s]
    BY <1>7, <1>8, <1>9
  <1>11. LeafRow(leaf)'
    BY <1>9, <1>10 DEF LeafRow
  <1>12. ProfileNow' = ProfileNow
    BY <1>1 DEF ProfileNow, OfProfile, SummaryText
  <1>13. Filling'
    <2>1. CASE todo = {t}
      BY <2>1, <1>6 DEF ReplaceSection, Filling
    <2>2. CASE todo # {t}
      <3>1. importing' = [pc |-> "read", todo |-> todo \ {t}, asked |-> asked]
        BY <2>2, <1>6 DEF ReplaceSection
      <3>2. leaf' # NoLeaf
        <4>1. leaf'.state = "open"
          BY <1>9
        <4> QED BY <4>1 DEF NoLeaf
      <3>3. Asked(todo \ {t}, asked)'
        BY <3>1, <3>2 DEF Asked
      <3> QED BY <3>3 DEF Filling
    <2> QED BY <2>1, <2>2
  <1>14. importing' # NotImporting => ProfileNow' \subseteq stood'
    BY <1>1, <1>5, <1>12 DEF FillInv, NotImporting
  <1>15. FillInv'
    BY <1>1, <1>11, <1>12, <1>13, <1>14 DEF FillInv, DatesStand
  <1>16. ImportsTellTheProfile
    <2> SUFFICES ASSUME NEW s \in Importable, leaf'.body[s] # leaf.body[s]
                 PROVE  /\ importing.pc = "replace" /\ s \in importing.asked /\ ToSet(leaf'.body[s]) \subseteq stood
                        /\ \A r \in standing : BelongsTo(r, s) => r \in ToSet(leaf'.body[s])
                        /\ NewestFirst(s, leaf'.body[s])
      BY <1>5, <1>10 DEF ImportsTellTheProfile, BelongsTo, NewestFirst
    <2>1. s = t /\ leaf'.body[s] = rows
      BY <1>10
    <2> QED BY <1>1, <1>5, <1>6, <2>1 DEF Told
  <1> QED BY <1>5, <1>15, <1>16

LEMMA EditOwnerKeeps == ASSUME FillInv, EditOwner PROVE FillInv' /\ leaf' = leaf
  <1>1. UNCHANGED <<leaf, importing>> /\ stood \cup ProfileNow' \subseteq stood' /\ standing' = standing \cap ProfileNow'
    BY DEF EditOwner
  <1>2. /\ fact' \in [Fact -> FactRow] /\ DatesStand' /\ \A f \in Fact : fact'[f].of = fact[f].of
    <2>1. CASE UNCHANGED fact
      BY <2>1 DEF FillInv, DatesStand
    <2>2. ASSUME NEW f \in Fact, NEW on \in {1, 2}, fact' = [fact EXCEPT ![f].on = on, ![f].state = "listed"]
          PROVE  fact' \in [Fact -> FactRow] /\ DatesStand' /\ \A g \in Fact : fact'[g].of = fact[g].of
      <3>1. PICK x, y, z : fact[f] = [of |-> x, on |-> y, state |-> z] /\ x \in FactSections
        BY DEF FillInv, FactRow
      <3>2. PICK r : r = [of |-> x, on |-> on, state |-> "listed"]
        BY Zenon
      <3>3. fact' = [fact EXCEPT ![f] = r]
        <4>1. PICK q : q = [of |-> x, on |-> on, state |-> z]
          BY Zenon
        <4>2. [fact[f] EXCEPT !.on = on] = q
          BY <3>1, <4>1
        <4>3. [q EXCEPT !.state = "listed"] = r
          BY <4>1, <3>2
        <4> QED BY <2>2, <4>2, <4>3, Zenon DEF FillInv
      <3>4. r \in FactRow /\ r.of = fact[f].of /\ r.on # Undated
        BY <3>1, <3>2 DEF FactRow, Undated
      <3> QED BY <3>3, <3>4 DEF FillInv, DatesStand
    <2>3. ASSUME NEW f \in Fact, fact' = [fact EXCEPT ![f].state = "removed"]
          PROVE  fact' \in [Fact -> FactRow] /\ DatesStand' /\ \A g \in Fact : fact'[g].of = fact[g].of
      <3>1. PICK x, y, z : fact[f] = [of |-> x, on |-> y, state |-> z] /\ x \in FactSections /\ y \in {1, 2, Undated}
        BY DEF FillInv, FactRow
      <3>2. PICK r : r = [of |-> x, on |-> y, state |-> "removed"]
        BY Zenon
      <3>3. fact' = [fact EXCEPT ![f] = r]
        <4>1. [fact[f] EXCEPT !.state = "removed"] = r
          BY <3>1, <3>2
        <4> QED BY <2>3, <4>1, Zenon DEF FillInv
      <3>4. r \in FactRow /\ r.of = fact[f].of /\ r.on = fact[f].on
        BY <3>1, <3>2 DEF FactRow
      <3> QED BY <3>3, <3>4 DEF FillInv, DatesStand
    <2> QED BY <2>1, <2>2, <2>3, Zenon DEF EditOwner
  <1>3. ASSUME NEW s, NEW rows, Told(s, rows) PROVE Told(s, rows)'
    <2>1. ASSUME NEW r \in standing', BelongsTo(r, s)' PROVE r \in ToSet(rows)
      <3>1. r \in standing /\ r \in ProfileNow
        BY <1>1 DEF FillInv
      <3>2. BelongsTo(r, s)
        <4>1. CASE r = [fact |-> 0, on |-> SummaryText]
          BY <4>1, <2>1 DEF BelongsTo
        <4>2. ASSUME NEW f \in Fact, r = OfProfile(f) PROVE BelongsTo(r, s)
          <5>1. r.fact = f
            BY <4>2 DEF OfProfile
          <5> QED BY <5>1, <2>1, <1>2 DEF BelongsTo
        <4> QED BY <3>1, <4>1, <4>2 DEF ProfileNow
      <3> QED BY <1>3, <3>1, <3>2 DEF Told
    <2> QED BY <1>1, <1>3, <2>1 DEF Told, NewestFirst
  <1>4. Filling'
    <2>1. CASE importing = NotImporting
      BY <1>1, <2>1 DEF Filling
    <2>2. CASE \E h \in stood : HeaderTaken(h)
      BY <1>1, <2>2 DEF Filling, HeaderTaken
    <2>3. ASSUME NEW asked \in SUBSET Importable, NEW todo \in SUBSET asked, Asked(todo, asked) PROVE Filling'
      <3>1. Asked(todo, asked)'
        BY <1>1, <2>3 DEF Asked
      <3> QED BY <3>1 DEF Filling
    <2>4. ASSUME NEW asked \in SUBSET Importable, NEW todo \in SUBSET asked, NEW s \in asked, NEW rows, Taken(todo, asked, s, rows)
          PROVE  Filling'
      <3>1. Taken(todo, asked, s, rows)'
        BY <1>1, <1>3, <2>4 DEF Taken
      <3> QED BY <3>1 DEF Filling
    <2> QED BY <2>1, <2>2, <2>3, <2>4, Zenon DEF FillInv, Filling
  <1> QED BY <1>1, <1>2, <1>4 DEF FillInv, LeafRow

LEMMA ImportStep == FillInv /\ (ImportNext \/ UNCHANGED importVars) => FillInv'
  <1> SUFFICES ASSUME FillInv, ImportNext \/ UNCHANGED importVars PROVE FillInv'
    OBVIOUS
  <1>1. CASE GiveUpImport \/ UNCHANGED importVars
    <2>1. UNCHANGED <<fact, self, leaf, stood, standing>> /\ (importing' = importing \/ importing' = NotImporting)
      BY <1>1 DEF GiveUpImport, importVars
    <2>2. ProfileNow' = ProfileNow
      BY <2>1 DEF ProfileNow, OfProfile, SummaryText
    <2>3. Filling'
      BY <2>1 DEF FillInv, Filling, HeaderTaken, Asked, Taken, Told, BelongsTo, NewestFirst
    <2> QED BY <2>1, <2>2, <2>3 DEF FillInv, DatesStand, LeafRow
  <1> QED BY <1>1, AskFillKeeps, ReadProfileKeeps, CreateLeafKeeps, ReplaceKeeps, EditOwnerKeeps DEF ImportNext

LEMMA ImportTells == ASSUME FillInv, ImportNext PROVE ImportsTellTheProfile
  <1>1. CASE leaf' = leaf
    BY <1>1 DEF ImportsTellTheProfile
  <1>2. CASE CreateLeaf
    BY <1>2, CreateLeafKeeps DEF ImportsTellTheProfile
  <1> QED BY <1>1, <1>2, ReplaceKeeps, ReadProfileKeeps, EditOwnerKeeps DEF ImportNext, BeginLeaf, BeginImport, AskFill, GiveUpImport

-----------------------------------------------------------------------------
(* The services side by side: each part on its own. *)

LEMMA ReportHeld == Spec => [](part = "reports" => ReportInv)
  <1>1. Init => (part = "reports" => ReportInv)
    BY ReportStart DEF Init
  <1>2. (part = "reports" => ReportInv) /\ [Next]_vars => (part = "reports" => ReportInv)'
    BY ReportStep DEF Next, vars
  <1> QED BY <1>1, <1>2, PTL DEF Spec

\* However edits, deletions, switches of the default, re-embeddings and deployments fall between
\* its steps, a report that is handed out again is about the resume the user would be judged by, as
\* it reads now, and about the profile as last saved, but for what is excused by name; and with a
\* default that could be read, no report mixes two resumes (ReportsHold).
THEOREM ReportsAreCurrent == Spec => []ReportsHold
  <1>1. (part = "reports" => ReportInv) => ReportsHold
    BY ReportSound DEF ReportsHold
  <1> QED BY <1>1, ReportHeld, PTL

LEMMA IngestHeld ==
  Spec => [](part = "ingestion" => IngestInv) /\ [][part = "ingestion" => SilenceErasesNothing /\ RequestsArePaced]_vars
  <1>1. Init => (part = "ingestion" => IngestInv)
    BY IngestStart DEF Init
  <1>2. (part = "ingestion" => IngestInv) /\ [Next]_vars => (part = "ingestion" => IngestInv)'
    BY IngestStep DEF Next, vars
  <1>3. (part = "ingestion" => IngestInv) /\ [Next]_vars
        => [part = "ingestion" => SilenceErasesNothing /\ RequestsArePaced]_vars
    <2> SUFFICES ASSUME part = "ingestion", IngestInv, Next PROVE SilenceErasesNothing /\ RequestsArePaced
      BY DEF vars
    <2> QED BY SilenceHolds, PacedHolds DEF Next
  <1> QED BY <1>1, <1>2, <1>3, PTL DEF Spec

LEMMA CompaniesHeld == Spec => [](part = "companies" => CompanyInv)
  <1>1. Init => (part = "companies" => CompanyInv)
    BY CompanyStart DEF Init
  <1>2. (part = "companies" => CompanyInv) /\ [Next]_vars => (part = "companies" => CompanyInv)'
    BY CompanyStep DEF Next, vars
  <1> QED BY <1>1, <1>2, PTL DEF Spec

LEMMA VacanciesHeld == Spec => [](part = "vacancies" => VacancyInv) /\ [][part = "vacancies" => PostersStay]_vars
  <1>1. Init => (part = "vacancies" => VacancyInv)
    BY VacancyStart DEF Init
  <1>2. (part = "vacancies" => VacancyInv) /\ [Next]_vars => (part = "vacancies" => VacancyInv)'
    BY VacancyStep DEF Next, vars
  <1>3. (part = "vacancies" => VacancyInv) /\ [Next]_vars => [part = "vacancies" => PostersStay]_vars
    <2> SUFFICES ASSUME part = "vacancies", VacancyInv, Next PROVE PostersStay
      BY DEF vars
    <2> QED BY PostersHold DEF Next
  <1> QED BY <1>1, <1>2, <1>3, PTL DEF Spec

LEMMA ExtractionHeld ==
  Spec => [](part = "extraction" => ExtractInv) /\ [][part = "extraction" => EmployersListStays]_vars
  <1>1. Init => (part = "extraction" => ExtractInv)
    BY ExtractStart DEF Init
  <1>2. (part = "extraction" => ExtractInv) /\ [Next]_vars => (part = "extraction" => ExtractInv)'
    BY ExtractStep DEF Next, vars
  <1>3. (part = "extraction" => ExtractInv) /\ [Next]_vars => [part = "extraction" => EmployersListStays]_vars
    <2> SUFFICES ASSUME part = "extraction", ExtractInv, Next PROVE EmployersListStays
      BY DEF vars
    <2> QED BY EmployersHold DEF Next
  <1> QED BY <1>1, <1>2, <1>3, PTL DEF Spec

\* However runs overlap and fail, a run of ingestion counts the rows it inserted, silence erases
\* nothing, and a scraped host is asked at its pace; a company has one row, a posting is as its
\* employer was told, and a list read by the model is paid for once, is of the text it was read
\* from, and never replaces the employer's (ImportsHold).
THEOREM ImportsAreTrue == Spec => ImportsHold
  <1>1. (part = "ingestion" => IngestInv) => (part = "ingestion" => SummariesAddUp)
    BY IngestSound
  <1>2. (part = "companies" => CompanyInv) => (part = "companies" => OneRowPerCompany)
    BY CompanySound
  <1>3. (part = "vacancies" => VacancyInv) => (part = "vacancies" => PostingsAreAsTold)
    BY VacancySound
  <1>4. (part = "extraction" => ExtractInv) => (part = "extraction" => ListsAreRead)
    BY ExtractSound
  <1> QED BY <1>1, <1>2, <1>3, <1>4, IngestHeld, CompaniesHeld, VacanciesHeld, ExtractionHeld, PTL DEF ImportsHold
LEMMA DeskHeld == Spec => [](part = "desk" => DeskInv) /\ [][part = "desk" => ListsAreSeparate]_vars
  <1>1. Init => (part = "desk" => DeskInv)
    BY DeskStart DEF Init
  <1>2. (part = "desk" => DeskInv) /\ [Next]_vars => (part = "desk" => DeskInv)'
    BY DeskStep DEF Next, vars
  <1>3. (part = "desk" => DeskInv) /\ [Next]_vars => [part = "desk" => ListsAreSeparate]_vars
    <2> SUFFICES ASSUME part = "desk", DeskInv, Next PROVE ListsAreSeparate
      BY DEF vars
    <2> QED BY DeskListsSeparate DEF Next
  <1> QED BY <1>1, <1>2, <1>3, PTL DEF Spec

LEMMA FillingHeld == Spec => [](part = "import" => FillInv) /\ [][part = "import" => ImportsTellTheProfile]_vars
  <1>1. Init => (part = "import" => FillInv)
    BY FillStart DEF Init
  <1>2. (part = "import" => FillInv) /\ [Next]_vars => (part = "import" => FillInv)'
    BY ImportStep DEF Next, vars
  <1>3. (part = "import" => FillInv) /\ [Next]_vars => [part = "import" => ImportsTellTheProfile]_vars
    <2> SUFFICES ASSUME part = "import", FillInv, Next PROVE ImportsTellTheProfile
      BY DEF vars
    <2> QED BY ImportTells DEF Next
  <1> QED BY <1>1, <1>2, <1>3, PTL DEF Spec

\* However requests overlap, fail and are repeated: a section of a document is what one write made
\* of it and the picker lists its last export, but where writes or exports overlapped; an
\* application keeps the resume it was sent with, and its letter the text its candidate was shown; a
\* notice tells its one reader of a change that happened; an account costs no more than the limits
\* allow and is refused only for what it sent; one worker reads the scans; no list, vector or
\* imported row is lost to a step that is not about it (DocumentsHold).
THEOREM DocumentsAreTrue == Spec => DocumentsHold
  <1>1. (part = "documents" => DocumentInv) => (part = "documents" => SectionsAreWhole /\ PickerFollowsTheDocuments)
    BY DocumentSound
  <1>2. (part = "desk" => DeskInv) => (part = "desk" => DeskIsTrue)
    BY DeskSound
  <1>3. (part = "bell" => BellInv) => (part = "bell" => BellIsTrue)
    BY BellSound
  <1>4. (part = "limits" => LimitInv) => (part = "limits" => CostIsBounded /\ RefusalsAreEarned)
    BY LimitSound
  <1>5. (part = "letters" => LetterInv) => (part = "letters" => LettersAreAsShown)
    BY DEF LetterInv
  <1>6. (part = "ocr" => OcrInv) => (part = "ocr" => OneOcrWorker /\ NothingEmptyIsSent)
    BY OcrSound
  <1>7. [part = "desk" => ListsAreSeparate]_vars /\ [part = "vectors" => VectorsAreNotLost]_vars
        /\ [part = "import" => ImportsTellTheProfile]_vars
        => [(part = "desk" => ListsAreSeparate) /\ (part = "vectors" => VectorsAreNotLost)
            /\ (part = "import" => ImportsTellTheProfile)]_vars
    OBVIOUS
  <1> QED BY <1>1, <1>2, <1>3, <1>4, <1>5, <1>6, <1>7, DeskHeld, BellHeld, LimitsHeld, LettersHeld, OcrHeld,
             BuilderHeld, VectorsHeld, FillingHeld, PTL DEF DocumentsHold
=============================================================================
