----------------------------- MODULE ResumeDocuments -----------------------------
(***************************************************************************)
(* The documents of the resume builder: sections replaced whole, imports from  *)
(* the profile, copies, and exports that put a file into the resume picker.     *)
(*                                                                           *)
(* A section is the set of the writes its rows come from, which is one write    *)
(* when all is well.  Transactions run at READ COMMITTED: a DELETE takes the     *)
(* rows committed when it starts, and waits for those another one is taking.    *)
(* A document is read with its sections in several queries, one after another.  *)
(***************************************************************************)
EXTENDS Naturals, FiniteSets, SequencesExt

CONSTANTS
  Document,   \* the documents of one user: numbers, in the order they are created
  Section,    \* SectionName: the sections kept as rows
  ExportFile, \* the resumes that exports create: numbers, likewise
  Editor,     \* slots for requests in progress
  MaxPuts,    \* how many sections are written
  Fact,       \* rows of the profile: numbers, in the order they are created
  FactSections, \* the sections they belong to
  Selves,     \* what the profile can state of its owner
  MaxFactEdits  \* bound on the edits of the profile

ASSUME DocumentsAssumption ==
  Document \subseteq Nat \ {0} /\ ExportFile \subseteq Nat \ {0} /\ MaxPuts \in Nat
  /\ Fact \subseteq Nat \ {0} /\ IsFiniteSet(Fact) /\ MaxFactEdits \in Nat
  /\ FactSections \subseteq {"experience", "education", "skills", "certifications"}

VARIABLES
  document,  \* rows of ResumeDocument: state and exportedResumeId
  section,   \* their sections
  picker,    \* the exported rows of Resume: of which document, and whether still listed
  editor,    \* requests in progress
  puts,      \* section writes so far
  mixed,     \* history: writes that overlapped another of the same section
  crossed,   \* history: exports that overlapped another of the same document
  fact,      \* the rows of the profile's sections: which section, what it is ordered by, whether removed
  self,      \* the profile's bio, headline and place
  leaf,      \* a document filled from them
  importing, \* the request that fills it
  factEdits, \* edits of the profile so far
  stood,     \* what the profile has stated since that request began (history)
  standing   \* what it has stated all the while (history)

documentVars == <<document, section, picker, editor, puts, mixed, crossed>>

NoFile == 0
NoDocument == [state |-> "none", link |-> NoFile]
NoExport == [state |-> "none", of |-> 0]
Away == [pc |-> "away"]
Blank == [s \in Section |-> {}]

Busy(e) == editor[e] # Away
Editable(d) == document[d].state = "open"
NextDocument(d) == document[d] = NoDocument /\ \A c \in Document : c < d => document[c] # NoDocument
NextFile(f) == picker[f] = NoExport /\ \A g \in ExportFile : g < f => picker[g] # NoExport
Turn(e, r) == editor' = [editor EXCEPT ![e] = r]

-----------------------------------------------------------------------------
(* Documents. *)

CreateDocument(e, d) ==
  /\ ~Busy(e) /\ NextDocument(d)
  /\ document' = [document EXCEPT ![d] = [state |-> "open", link |-> NoFile]]
  /\ UNCHANGED <<section, picker, editor, puts, mixed, crossed>>

\* Softly; what it was exported to stays.
RemoveDocument(e, d) ==
  /\ ~Busy(e) /\ Editable(d)
  /\ document' = [document EXCEPT ![d].state = "removed"]
  /\ UNCHANGED <<section, picker, editor, puts, mixed, crossed>>

-----------------------------------------------------------------------------
(* Writing sections: one by a PUT, several in turn by an import.  Ownership and  *)
(* existence are checked once, before any of it.                              *)

BeginPut(e, d, todo) ==
  /\ ~Busy(e) /\ Editable(d)
  /\ Turn(e, [pc |-> "put", doc |-> d, todo |-> todo])
  /\ UNCHANGED <<document, section, picker, puts, mixed, crossed>>

\* deleteMany: the rows that are there when it starts.
TakeOld(e) ==
  LET q == editor[e] IN
  /\ q.pc = "put" /\ puts < MaxPuts
  /\ puts' = puts + 1
  /\ \E s \in q.todo :
       LET rivals == {x \in Editor \ {e} : editor[x].pc = "insert" /\ editor[x].doc = q.doc /\ editor[x].section = s}
       IN /\ Turn(e, [pc |-> "insert", doc |-> q.doc, todo |-> q.todo, section |-> s,
                      taken |-> section[q.doc][s], put |-> puts + 1])
          /\ mixed' = IF rivals = {} THEN mixed ELSE mixed \cup {editor[x].put : x \in rivals} \cup {puts + 1}
  /\ UNCHANGED <<document, section, picker, crossed>>

\* createMany, the parent's updatedAt, commit.  An empty list writes nothing.
PutNew_Appended(e) == {editor[e].put} \cup section[editor[e].doc][editor[e].section]
PutNew(e) == {editor[e].put} \cup (section[editor[e].doc][editor[e].section] \ editor[e].taken)
InsertNew(e) ==
  LET q == editor[e] IN
  /\ q.pc = "insert"
  /\ \E rows \in {PutNew(e), PutNew(e) \ {q.put}} : section' = [section EXCEPT ![q.doc][q.section] = rows]
  /\ Turn(e, IF q.todo = {q.section} THEN Away ELSE [pc |-> "put", doc |-> q.doc, todo |-> q.todo \ {q.section}])
  /\ UNCHANGED <<document, picker, puts, mixed, crossed>>

-----------------------------------------------------------------------------
(* Reading a document, for a copy or an export: the row, then its sections.    *)

BeginReading(e, d, aim) ==
  /\ ~Busy(e) /\ Editable(d)
  /\ Turn(e, [pc |-> "read", aim |-> aim, doc |-> d, link |-> document[d].link, rest |-> Section, seen |-> Blank,
              crossed |-> FALSE])
  /\ UNCHANGED <<document, section, picker, puts, mixed, crossed>>

ReadSection(e) ==
  LET q == editor[e] IN
  /\ q.pc = "read"
  /\ \E s \in q.rest : Turn(e, [q EXCEPT !.rest = @ \ {s}, !.seen[s] = section[q.doc][s]])
  /\ UNCHANGED <<document, section, picker, puts, mixed, crossed>>

ReadAll(e, aim) == editor[e].pc = "read" /\ editor[e].aim = aim /\ editor[e].rest = {}

\* duplicate: one transaction; the copy is a draft that was never exported.
CopiedLink_Carried(q) == q.link
CopiedLink(q) == NoFile
Duplicate(e, c) ==
  LET q == editor[e] IN
  /\ ReadAll(e, "copy") /\ NextDocument(c)
  /\ document' = [document EXCEPT ![c] = [state |-> "open", link |-> CopiedLink(q)]]
  /\ section' = [section EXCEPT ![c] = q.seen]
  /\ Turn(e, Away)
  /\ UNCHANGED <<picker, puts, mixed, crossed>>

\* export, once rendered and uploaded: the file it was linked to when it was read leaves
\* the picker, the new one enters it.
Persist(e, f) ==
  LET q == editor[e] IN
  /\ ReadAll(e, "export") /\ NextFile(f)
  /\ picker' = [g \in ExportFile |-> IF g = f THEN [state |-> "listed", of |-> q.doc]
                                     ELSE IF g = q.link THEN [picker[g] EXCEPT !.state = "superseded"] ELSE picker[g]]
  /\ crossed' = IF q.crossed THEN crossed \cup {f, document[q.doc].link} ELSE crossed
  /\ document' = [document EXCEPT ![q.doc].link = f]
  /\ editor' = [x \in Editor |-> IF x = e THEN Away
                                 ELSE IF editor[x].pc = "read" /\ editor[x].doc = q.doc
                                 THEN [editor[x] EXCEPT !.crossed = TRUE] ELSE editor[x]]
  /\ UNCHANGED <<section, puts, mixed>>

\* The user deletes an exported resume: the link stays.
DeleteExport(f) ==
  /\ picker[f].state = "listed"
  /\ picker' = [picker EXCEPT ![f].state = "deleted"]
  /\ UNCHANGED <<document, section, editor, puts, mixed, crossed>>

\* Rendering fails, the upload fails, the process dies: what was not committed is not there.
GiveUpEditing(e) ==
  /\ Busy(e)
  /\ Turn(e, Away)
  /\ UNCHANGED <<document, section, picker, puts, mixed, crossed>>

-----------------------------------------------------------------------------
DocumentsInit ==
  /\ document = [d \in Document |-> NoDocument] /\ section = [d \in Document |-> Blank]
  /\ picker = [f \in ExportFile |-> NoExport] /\ editor = [e \in Editor |-> Away]
  /\ puts = 0 /\ mixed = {} /\ crossed = {}

DocumentsNext ==
  \/ \E e \in Editor :
       \/ \E d \in Document : \/ CreateDocument(e, d) \/ RemoveDocument(e, d)
                              \/ \E todo \in SUBSET Section \ {{}} : BeginPut(e, d, todo)
                              \/ \E aim \in {"copy", "export"} : BeginReading(e, d, aim)
                              \/ Duplicate(e, d)
       \/ TakeOld(e) \/ InsertNew(e) \/ ReadSection(e) \/ GiveUpEditing(e)
       \/ \E f \in ExportFile : Persist(e, f)
  \/ \E f \in ExportFile : DeleteExport(f)

DocumentsSpec == DocumentsInit /\ [][DocumentsNext]_documentVars

-----------------------------------------------------------------------------
(* Filling a document from the profile: a header when it is created, and the sections asked for,  *)
(* one after another, each read and then replaced.  The profile is edited meanwhile.              *)

importVars == <<fact, self, leaf, importing, factEdits, stood, standing>>

Undated == 9
NotSaid == 0   \* blank, or no profile at all
Importable == {"summary"} \cup FactSections   \* IMPORTABLE_SECTIONS: no projects
NoLeaf == [state |-> "none"]
NotImporting == [pc |-> "idle"]
OfProfile(f) == [fact |-> f, on |-> fact[f].on]

\* Newest first, what has no date last and by the order of creation; skills by name.
Precedes_UndatedFirst(s, a, b) == IF s = "skills" THEN a.on < b.on ELSE a.on > b.on   \* mutant: nulls first
Precedes(s, a, b) ==
  CASE s = "skills" -> a.on < b.on
    [] s = "experience" -> \/ a.on # Undated /\ (b.on = Undated \/ a.on > b.on)
                           \/ a.on = b.on /\ a.fact > b.fact
    [] OTHER -> a.on > b.on
InOrder(s, rows) == \A i, j \in DOMAIN rows : i < j => ~ Precedes(s, rows[j], rows[i])

\* What the profile holds of a section: rows that are not removed; of the summary the bio, else the headline.
SummaryText == IF self.bio # NotSaid THEN self.bio ELSE self.headline
ListedFacts_Removed(s) ==   \* mutant: without deletedAt: null
   {OfProfile(f) : f \in {g \in Fact : fact[g].of = s /\ fact[g].state # "absent"}}
ListedFacts(s) == {OfProfile(f) : f \in {g \in Fact : fact[g].of = s /\ fact[g].state = "listed"}}
ProfileContent(s) == IF s = "summary" THEN {[fact |-> 0, on |-> SummaryText]} ELSE ListedFacts(s)
\* For the history alone: what stands in the profile.
ProfileNow == {OfProfile(f) : f \in {g \in Fact : fact[g].state = "listed"}} \cup {[fact |-> 0, on |-> SummaryText]}

\* The parts of the place that are filled in.
JoinLocation == SelectSeq(self.place, LAMBDA part_ : part_ # NotSaid)
SnapshotHeader == [place |-> JoinLocation, name |-> self.name]

AskFill(r) ==
  /\ importing = NotImporting /\ importing' = r
  /\ stood' = ProfileNow \cup {SnapshotHeader} /\ standing' = ProfileNow
  /\ UNCHANGED <<fact, self, leaf, factEdits>>

BeginLeaf == leaf = NoLeaf /\ AskFill([pc |-> "header", header |-> SnapshotHeader])
CreateLeaf ==
  /\ importing.pc = "header"
  /\ leaf' = [state |-> "open", header |-> importing.header, body |-> [s \in Importable |-> << >>]]
  /\ importing' = NotImporting
  /\ UNCHANGED <<fact, self, factEdits, stood, standing>>

\* importFromProfile: each section once, whatever the request repeats.
BeginImport == leaf # NoLeaf /\ \E asked \in SUBSET Importable \ {{}} : AskFill([pc |-> "read", todo |-> asked, asked |-> asked])
ReadProfile(s) ==
  /\ importing.pc = "read" /\ s \in importing.todo
  /\ \E rows \in SetToSeqs(ProfileContent(s)) :
       /\ InOrder(s, rows)
       /\ importing' = [pc |-> "replace", todo |-> importing.todo, asked |-> importing.asked, of |-> s, rows |-> rows]
  /\ UNCHANGED <<fact, self, leaf, factEdits, stood, standing>>

\* replaceSection, replaceSummary: one transaction; an empty list empties the section.
ReplaceSection ==
  LET q == importing IN
  /\ q.pc = "replace"
  /\ leaf' = [leaf EXCEPT !.body[q.of] = q.rows]
  /\ importing' = IF q.todo = {q.of} THEN NotImporting ELSE [pc |-> "read", todo |-> q.todo \ {q.of}, asked |-> q.asked]
  /\ UNCHANGED <<fact, self, factEdits, stood, standing>>

GiveUpImport ==
  /\ importing # NotImporting /\ importing' = NotImporting
  /\ UNCHANGED <<fact, self, leaf, factEdits, stood, standing>>

\* The owner edits the profile: a row is added, changed or removed, or what it says of them changes.
EditOwner ==
  /\ factEdits < MaxFactEdits /\ factEdits' = factEdits + 1
  /\ \/ \E f \in Fact, on \in {1, 2} :
           /\ fact[f].state = "absent" \/ (fact[f].state = "listed" /\ fact[f].on # on)
           /\ fact' = [fact EXCEPT ![f].on = on, ![f].state = "listed"]
           /\ UNCHANGED self
     \/ \E f \in Fact : fact[f].state = "listed" /\ fact' = [fact EXCEPT ![f].state = "removed"] /\ UNCHANGED self
     \/ \E to \in Selves : to # self /\ self' = to /\ UNCHANGED fact
  /\ stood' = stood \cup ProfileNow' \cup {SnapshotHeader'}
  /\ standing' = standing \cap ProfileNow'
  /\ UNCHANGED <<leaf, importing>>

ImportInit ==
  /\ fact \in [Fact -> {r \in [of : FactSections, on : {1, Undated}, state : {"absent", "listed"}] : r.on = Undated => r.of = "experience"}] /\ self \in Selves
  /\ leaf = NoLeaf /\ importing = NotImporting /\ factEdits = 0 /\ stood = {} /\ standing = {}
ImportNext ==
  \/ BeginLeaf \/ CreateLeaf \/ BeginImport \/ ReplaceSection \/ GiveUpImport \/ EditOwner
  \/ \E s \in Importable : ReadProfile(s)

-----------------------------------------------------------------------------
(* Properties. *)

\* A section is what one write made of it, in a document and in every copy; only writes of
\* one section that overlapped can be found in it together.
SectionsAreWhole ==
  \A d \in Document, s \in Section : Cardinality(section[d][s]) > 1 => section[d][s] \subseteq mixed

\* However documents are copied, exported again and removed, the picker lists at most the
\* last export of each, and no export takes another document's file out of it.  Exports of
\* one document that overlapped are excused: each saw the same link, so both files stay.
PickerFollowsTheDocuments ==
  /\ \A f \in ExportFile \ crossed : picker[f].state = "listed" => document[picker[f].of].link = f
  /\ \A d \in Document : document[d].link \in ExportFile \ crossed =>
       picker[document[d].link].of = d /\ picker[document[d].link].state # "superseded"

\* An import changes only the sections it was asked for, and fills each with what the profile held
\* of it at some moment of the request: everything stated all the while, nothing that had been
\* removed before, the newest first and what has no date last.  Whatever is edited in the profile
\* later, no other step changes the document, and no import its header.
ImportsTellTheProfile ==
  /\ leaf = NoLeaf /\ leaf' # NoLeaf => leaf'.header \in stood
  /\ leaf # NoLeaf =>
       /\ leaf'.header = leaf.header
       /\ \A s \in Importable : leaf'.body[s] # leaf.body[s] =>
            /\ importing.pc = "replace" /\ s \in importing.asked
            /\ ToSet(leaf'.body[s]) \subseteq stood
            /\ \A r \in standing : (IF r.fact = 0 THEN s = "summary" ELSE fact[r.fact].of = s) => r \in ToSet(leaf'.body[s])
            /\ \A i, j \in DOMAIN leaf'.body[s] : i < j =>
                 LET a == leaf'.body[s][i].on  b == leaf'.body[s][j].on IN
                 IF s = "skills" THEN a <= b ELSE b = Undated \/ (a # Undated /\ a >= b)
=============================================================================
