-------------------------------- MODULE ResumeText --------------------------------
(***************************************************************************)
(* From a resume's file to its text, its skills and its fallback scores.            *)
(*                                                                           *)
(* Scans and photos are read by one OCR worker that all parses of an instance        *)
(* share; it is started at the first need and released when the module goes          *)
(* down.  The rest is computation: the order in which a page is read, the            *)
(* skills one entry names, and the composite scores when the AI service is away.     *)
(***************************************************************************)
EXTENDS Integers, FiniteSets, SequencesExt

CONSTANTS
  Reader,        \* parses in progress at a time
  WorkerId,     \* bound on the workers started: 1 .. n
  MaxImages,    \* bound on the images of one file
  ResumeFiles   \* what is read: [sheet, entries, fields]: a page as a sequence of items
                \* [x, y, h, w, blank], what the AI calls skills as a sequence of entries, each
                \* a sequence of parts [labels, name], and what the parse holds:
                \* [has, hits, verbs, skills, len, marks, slips]

ASSUME ResumeTextAssumption == MaxImages \in Nat \ {0} /\ WorkerId \subseteq Nat \ {0} /\ IsFiniteSet(WorkerId)

Unstarted == 0
StillUp == 0
Released == -1
AtRest == [pc |-> "idle"]

VARIABLES
  workerPromise, \* the worker the service holds, or Unstarted
  ocrWorker,     \* worker -> "none", "starting", "alive", "failed" or "gone"
  reader,         \* parse -> where it stands
  closing,       \* StillUp, the worker whose release is awaited, or Released
  lateWorkers,          \* history: workers asked for after the module went down
  sentShort      \* history: kinds of files whose text went to the AI too short to be one
ocrVars == <<workerPromise, ocrWorker, reader, closing, lateWorkers, sentShort>>

VARIABLES
  sheet, entries, fields,  \* what is read
  readout                  \* what came of it
textVars == <<sheet, entries, fields, readout>>

-----------------------------------------------------------------------------
(* The worker. *)

\* A text layer, or a text the OCR read, counts from forty characters on.
Idle(p) == reader[p] = AtRest
Images(p) == reader[p].left
SendText(p, kind, enough) ==
  /\ reader' = [reader EXCEPT ![p] = AtRest]
  /\ sentShort' = IF enough THEN sentShort ELSE sentShort \cup {kind}

\* A PDF with a text layer and a document go to the AI as they are; a PDF without one and a photo
\* are read image by image.
ExtractText_Unchecked(p) ==
  /\ Idle(p)
  /\ \/ \E kind \in {"PDF", "DOCX"}, enough \in BOOLEAN : SendText(p, kind, enough)
     \/ \E n \in 0 .. MaxImages, kind \in {"PDF", "IMAGE"} :
          /\ kind = "IMAGE" => n = 1
          /\ reader' = [reader EXCEPT ![p] = [pc |-> "ask", kind |-> kind, left |-> n, enough |-> FALSE]]
          /\ UNCHANGED sentShort
  /\ UNCHANGED <<workerPromise, ocrWorker, closing, lateWorkers>>
ExtractText(p) ==
  /\ Idle(p)
  /\ \/ SendText(p, "PDF", TRUE)
     \/ \E enough \in BOOLEAN : SendText(p, "DOCX", enough)
     \/ \E n \in 0 .. MaxImages, kind \in {"PDF", "IMAGE"} :
          /\ kind = "IMAGE" => n = 1
          /\ reader' = [reader EXCEPT ![p] = [pc |-> "ask", kind |-> kind, left |-> n, enough |-> FALSE]]
          /\ UNCHANGED sentShort
  /\ UNCHANGED <<workerPromise, ocrWorker, closing, lateWorkers>>

\* An image with no pixels is skipped; for one that pdf.js never resolves the parse waits on.
OcrPdfPages(p) ==
  /\ reader[p].pc = "ask" /\ reader[p].kind = "PDF" /\ Images(p) > 0
  /\ \/ reader' = [reader EXCEPT ![p].left = @ - 1]
     \/ reader' = [reader EXCEPT ![p].pc = "stuck"]
  /\ UNCHANGED <<workerPromise, ocrWorker, closing, lateWorkers, sentShort>>

\* The promise is stored before anyone waits for it, so that one worker serves all.
Worker_StoredWhenReady(p) ==
  /\ reader[p].pc = "ask" /\ Images(p) > 0
  /\ IF workerPromise # Unstarted
     THEN /\ reader' = [reader EXCEPT ![p] = [@ EXCEPT !.pc = "wait"] @@ [on |-> workerPromise]]
          /\ UNCHANGED <<ocrWorker, lateWorkers>>
     ELSE \E w \in WorkerId :
            /\ ocrWorker[w] = "none" /\ \A v \in WorkerId : v < w => ocrWorker[v] # "none"
            /\ ocrWorker' = [ocrWorker EXCEPT ![w] = "starting"]
            /\ lateWorkers' = IF closing = StillUp THEN lateWorkers ELSE lateWorkers \cup {w}
            /\ reader' = [reader EXCEPT ![p] = [@ EXCEPT !.pc = "wait"] @@ [on |-> w]]
  /\ UNCHANGED <<workerPromise, closing, sentShort>>
Worker(p) ==
  /\ reader[p].pc = "ask" /\ Images(p) > 0
  /\ IF workerPromise # Unstarted
     THEN /\ reader' = [reader EXCEPT ![p] = [@ EXCEPT !.pc = "wait"] @@ [on |-> workerPromise]]
          /\ UNCHANGED <<workerPromise, ocrWorker, lateWorkers>>
     ELSE \E w \in WorkerId :
            /\ ocrWorker[w] = "none" /\ \A v \in WorkerId : v < w => ocrWorker[v] # "none"
            /\ workerPromise' = w
            /\ ocrWorker' = [ocrWorker EXCEPT ![w] = "starting"]
            /\ lateWorkers' = IF closing = StillUp THEN lateWorkers ELSE lateWorkers \cup {w}
            /\ reader' = [reader EXCEPT ![p] = [@ EXCEPT !.pc = "wait"] @@ [on |-> w]]
  /\ UNCHANGED <<closing, sentShort>>

WorkerReady(w) ==
  /\ ocrWorker[w] = "starting"
  /\ ocrWorker' = [ocrWorker EXCEPT ![w] = IF closing = w THEN "gone" ELSE "alive"]
  /\ closing' = IF closing = w THEN Released ELSE closing
  /\ UNCHANGED <<workerPromise, reader, lateWorkers, sentShort>>

\* A start that failed is not kept, whichever promise is held by then.
WorkerFails_Kept(w) ==
  /\ ocrWorker[w] = "starting"
  /\ ocrWorker' = [ocrWorker EXCEPT ![w] = "failed"]
  /\ closing' = IF closing = w THEN Released ELSE closing
  /\ UNCHANGED <<workerPromise, reader, lateWorkers, sentShort>>
WorkerFails(w) ==
  /\ ocrWorker[w] = "starting"
  /\ ocrWorker' = [ocrWorker EXCEPT ![w] = "failed"]
  /\ workerPromise' = Unstarted
  /\ closing' = IF closing = w THEN Released ELSE closing
  /\ UNCHANGED <<reader, lateWorkers, sentShort>>

\* The awaited worker reads the image, well or with too little confidence; one that failed, or
\* was released meanwhile, fails the parse.
ReadImage(p) ==
  /\ reader[p].pc = "wait"
  /\ \/ /\ ocrWorker[reader[p].on] = "alive"
        /\ \E legible \in BOOLEAN :
             reader' = [reader EXCEPT ![p] = [pc |-> "ask", kind |-> @.kind, left |-> @.left - 1,
                                            enough |-> @.enough \/ legible]]
     \/ /\ ocrWorker[reader[p].on] \in {"failed", "gone"}
        /\ reader' = [reader EXCEPT ![p] = AtRest]
  /\ UNCHANGED <<workerPromise, ocrWorker, closing, lateWorkers, sentShort>>

\* The text goes to the AI, or the parse fails with a reason of its own.
UseText(p) ==
  /\ reader[p].pc = "ask" /\ Images(p) = 0
  /\ IF reader[p].enough THEN SendText(p, reader[p].kind, TRUE)
     ELSE reader' = [reader EXCEPT ![p] = AtRest] /\ UNCHANGED sentShort
  /\ UNCHANGED <<workerPromise, ocrWorker, closing, lateWorkers>>

\* The worker held is released, once it has started; a parse may still ask for another.
OnModuleDestroy ==
  /\ closing = StillUp
  /\ workerPromise' = Unstarted
  /\ IF workerPromise # Unstarted /\ ocrWorker[workerPromise] = "starting"
     THEN closing' = workerPromise /\ UNCHANGED ocrWorker
     ELSE /\ closing' = Released
          /\ ocrWorker' = [w \in WorkerId |-> IF w = workerPromise THEN "gone" ELSE ocrWorker[w]]
  /\ UNCHANGED <<reader, lateWorkers, sentShort>>

OcrInit ==
  /\ workerPromise = Unstarted /\ ocrWorker = [w \in WorkerId |-> "none"] /\ closing = StillUp
  /\ reader = [p \in Reader |-> AtRest] /\ lateWorkers = {} /\ sentShort = {}
OcrNext ==
  \/ \E p \in Reader : ExtractText(p) \/ OcrPdfPages(p) \/ Worker(p) \/ ReadImage(p) \/ UseText(p)
  \/ \E w \in WorkerId : WorkerReady(w) \/ WorkerFails(w)
  \/ OnModuleDestroy

-----------------------------------------------------------------------------
(* The order in which a page is read. *)

Larger(a, b) == IF a > b THEN a ELSE b
Smaller(a, b) == IF a < b THEN a ELSE b

\* Items with no text are left out; a sort keeps the order of equals.
Placed == SelectSeq([i \in DOMAIN sheet |-> [sheet[i] EXCEPT !.blank = <<i, @>>]], LAMBDA it : ~ it.blank[2])
Ordered(items, before(_, _)) ==
  LET idx == SetToSortSeq(DOMAIN items, LAMBDA a, b : before(items[a], items[b])
                                          \/ (~ before(items[b], items[a]) /\ a < b))
  IN [k \in DOMAIN idx |-> items[idx[k]]]

MedianHeight(items) == Ordered(items, LAMBDA a, b : a.h < b.h)[Len(items) \div 2 + 1].h
RowTolerance(items) == Larger(2, MedianHeight(items) \div 2)

\* From the top down, a row takes every item that is near its first one.
GroupIntoRows_NearThePrevious(items) ==
  FoldSeq(LAMBDA it, acc :
    IF acc # <<>> /\ Last(acc)[Len(Last(acc))].y - it.y <= RowTolerance(items)
    THEN [acc EXCEPT ![Len(acc)] = Append(@, it)] ELSE Append(acc, <<it>>),
    <<>>, Reverse(Ordered(items, LAMBDA a, b : a.y > b.y)))
GroupIntoRows(items) ==
  FoldSeq(LAMBDA it, acc :
    IF acc # <<>> /\ Last(acc)[1].y - it.y <= RowTolerance(items)
    THEN [acc EXCEPT ![Len(acc)] = Append(@, it)] ELSE Append(acc, <<it>>),
    <<>>, Reverse(Ordered(items, LAMBDA a, b : a.y > b.y)))

\* Left to right; a gap of one and a half lines keeps two columns apart.
RenderRow(items, r) ==
  LET across == Ordered(r, LAMBDA a, b : a.x < b.x) IN
  [k \in DOMAIN across |->
     [item |-> across[k],
      column |-> k > 1 /\ 2 * (across[k].x - (across[k - 1].x + across[k - 1].w)) > 3 * MedianHeight(items)]]

ToReadingOrder ==
  IF Placed = <<>> THEN <<>>
  ELSE LET lines == GroupIntoRows(Placed) IN [k \in DOMAIN lines |-> RenderRow(Placed, lines[k])]

-----------------------------------------------------------------------------
(* The skills an entry names. *)

\* A label of at most three words before the entry goes; commas and bullets separate its parts.
SplitSkillEntry(entry) ==
  [k \in DOMAIN entry |-> <<IF k = 1 /\ entry[1].labels > 0 THEN [entry[1] EXCEPT !.labels = @ - 1] ELSE entry[k]>>]

SplitAll(list) == FlattenSeq([i \in DOMAIN list |-> SplitSkillEntry(list[i])])

\* Stored: each once, in its first spelling (names that differ in case are one here).
NormaliseSkills_Kept(list) == SplitAll(list)
NormaliseSkills(list) ==
  LET parts == SplitAll(list) IN
  [k \in 1 .. Cardinality(ToSet(parts)) |->
     LET firsts == {i \in DOMAIN parts : \A e \in 1 .. i - 1 : parts[e] # parts[i]}
     IN parts[CHOOSE i \in firsts : Cardinality({f \in firsts : f <= i}) = k]]

\* Read: split again, for the rows stored before.
ToSkillList(list) == SplitAll(list)

-----------------------------------------------------------------------------
(* The scores without the AI service. *)

\* Math.round(100 * a / b).
Percent(a, b) == (200 * a + b) \div (2 * b)
Has == fields.has \cup (IF fields.skills > 0 THEN {"skills"} ELSE {})
RatioScore(names) == Percent(Cardinality(names \cap Has), Cardinality(names))

ScoreFormatting == (IF "bullets" \in fields.marks THEN 40 ELSE 0) + (IF "lines" \in fields.marks THEN 30 ELSE 0)
                   + (IF "gaps" \in fields.marks THEN 0 ELSE 30)
ScoreKeywords == Percent(fields.hits, 12)
ScoreParsability == RatioScore({"fullName", "email", "phone", "experiences", "skills"})
ScoreLength_Unbounded ==
  IF fields.len < 1500 THEN Percent(fields.len, 1500) ELSE 100 - ((fields.len - 6000) * 60) \div 6000
ScoreLength ==
  IF fields.len >= 1500 /\ fields.len <= 6000 THEN 100
  ELSE IF fields.len < 1500 THEN Percent(fields.len, 1500)
  ELSE Larger(40, (100 * 6000 - (fields.len - 6000) * 60 + 3000) \div 6000)
ScoreContactInfo == RatioScore({"email", "phone", "location"})

ScoreContent == RatioScore({"experiences", "educations", "skills"})
ScoreCompleteness ==
  RatioScore({"fullName", "email", "phone", "location", "summary", "experiences", "educations", "skills"})
ScoreGrammar == Larger(0, 100 - Smaller(20, fields.slips) - 5 * fields.slips - Smaller(10, fields.slips))
ScoreKeywordsQuality == Smaller(60, 10 * fields.verbs) + Smaller(40, 5 * fields.skills)

\* Weights in hundredths, rounded half up.
RoundedComposite(sum) == (sum + 50) \div 100
HeuristicScore ==
  [ats |-> RoundedComposite(20 * ScoreFormatting + 30 * ScoreKeywords + 20 * ScoreParsability + 15 * ScoreLength
                     + 15 * ScoreContactInfo),
   quality |-> RoundedComposite(30 * ScoreContent + 25 * ScoreCompleteness + 20 * ScoreGrammar + 25 * ScoreKeywordsQuality)]

Unread == [lines |-> <<>>, kept |-> <<>>, ats |-> 0, quality |-> 0]

ReadResume ==
  /\ readout = Unread
  /\ readout' = [lines |-> ToReadingOrder, kept |-> NormaliseSkills(entries), ats |-> HeuristicScore.ats,
                 quality |-> HeuristicScore.quality]
  /\ UNCHANGED <<sheet, entries, fields>>

\* More of the same resume: a field, a verb or a skill that the parse did not hold.
Enrich ==
  /\ readout # Unread
  /\ \/ \E f \in {"email", "location", "summary"} \ fields.has : fields' = [fields EXCEPT !.has = @ \cup {f}]
     \/ fields.skills < 9 /\ fields' = [fields EXCEPT !.skills = @ + 1]
     \/ fields.verbs < 7 /\ fields' = [fields EXCEPT !.verbs = @ + 1, !.hits = Smaller(12, @ + 1)]
  /\ readout' = [readout EXCEPT !.ats = HeuristicScore.ats', !.quality = HeuristicScore.quality']
  /\ UNCHANGED <<sheet, entries>>

TextInit ==
  /\ \E f \in ResumeFiles : sheet = f.sheet /\ entries = f.entries /\ fields = f.fields
  /\ readout = Unread
TextNext == ReadResume \/ Enrich

-----------------------------------------------------------------------------
(* Properties. *)

\* One worker serves every parse: two are never up at once, but for one asked for after the module
\* went down; and a failed start is never what the next parse waits for.
OneOcrWorker ==
  /\ Cardinality({w \in WorkerId \ lateWorkers : ocrWorker[w] \in {"starting", "alive"}}) <= 1
  /\ workerPromise # Unstarted => ocrWorker[workerPromise] \in {"starting", "alive"}
  /\ closing = Released => \A w \in WorkerId : ocrWorker[w] \in {"starting", "alive"} => w \in lateWorkers

\* A text too short to be a resume never reaches the AI, unless a Word document held it.
NothingEmptyIsSent == sentShort \subseteq {"DOCX"}

\* Every item with a text is read once; a row never drifts down the page, what shares a baseline
\* shares a row, and within a row nothing is read before what stands left of it.
PagesAreReadInOrder ==
  readout # Unread =>
    LET lines == readout.lines IN
    /\ \A it \in ToSet(Placed) :
         Cardinality({p \in (DOMAIN lines) \X (1 .. Len(sheet)) :
                        p[2] <= Len(lines[p[1]]) /\ lines[p[1]][p[2]].item = it}) = 1
    /\ \A k \in DOMAIN lines : \A m, n \in DOMAIN lines[k] :
         /\ lines[k][m].item.y - lines[k][n].item.y <= RowTolerance(Placed)
         /\ m < n => lines[k][m].item.x <= lines[k][n].item.x
    /\ \A k, l \in DOMAIN lines : k < l =>
         \A m \in DOMAIN lines[k], n \in DOMAIN lines[l] : lines[k][m].item.y > lines[l][n].item.y

\* A skill is stored once, none is invented, and one that stands bare or behind the label of its
\* entry is found; what is read of a stored list names no fewer than of the list it came from.
SkillsAreKept ==
  readout # Unread =>
    LET keptSkills == readout.kept
        names(list) == {list[i][1].name : i \in {n \in DOMAIN list : list[n][1].labels = 0}}
    IN /\ IsInjective(keptSkills)
       /\ \A i \in DOMAIN keptSkills : \E e \in DOMAIN entries, k \in 1 .. 3 :
            k <= Len(entries[e]) /\ keptSkills[i][1].name = entries[e][k].name
       /\ \A e \in DOMAIN entries : \A k \in DOMAIN entries[e] :
            entries[e][k].labels = (IF k = 1 THEN 1 ELSE 0) => entries[e][k].name \in names(keptSkills)
       /\ names(ToSkillList(entries)) \subseteq names(ToSkillList(keptSkills))

\* Scores are percentages, and two of one text stay in order when the parse holds more.
ScoresStayInBounds == readout # Unread => readout.ats \in 0 .. 100 /\ readout.quality \in 0 .. 100

\* A parse that holds more never scores less.
MoreNeverScoresLess == Enrich => readout'.ats >= readout.ats /\ readout'.quality >= readout.quality
=============================================================================
