--------------------------------- MODULE Ingestion ---------------------------------
(***************************************************************************)
(* Job ingestion: the adapters that read a board (themuse.source.ts,             *)
(* bongthom.source.ts, jobnet.source.ts) at the pace polite-fetch.ts allows, and    *)
(* the run that stores what they return (ingestion.service.ts).                  *)
(*                                                                           *)
(* Two runs of one board can be under way at once: each asks the site, then takes  *)
(* posting after posting with an await between the steps.  The site changes         *)
(* meanwhile, a request or a write can fail.  Text is abstracted to what the        *)
(* adapters and the run tell apart.                                              *)
(***************************************************************************)
EXTENDS Integers, Sequences, SequencesExt, FiniteSets, FiniteSetsExt

CONSTANTS
  Ad,           \* ids of postings on the board
  AdTexts,      \* what the board can state of a posting
  BoardKinds,   \* the adapters exercised: "feed", "pages", "details"
  IngestRun,    \* runs under way
  MinInterval,  \* MIN_INTERVAL_MS
  LastPull, MaxPulls,  \* bounds: the clock, the runs of a behaviour
  Bare,         \* published postings that may lack requirements
  BareLimit,    \* limit: the postings one run of the script takes
  MaxRetells    \* bound on the changes of their texts

ASSUME IngestAssumption ==
  /\ BoardKinds \subseteq {"feed", "pages", "details"} /\ IsFiniteSet(Ad) /\ Ad # {}
  /\ MinInterval \in Nat /\ LastPull \in Nat /\ MaxPulls \in Nat /\ BareLimit \in Nat \ {0} /\ MaxRetells \in Nat

VARIABLES
  pullClock,
  board,       \* the adapter, and what the site states of each posting now
  stored,      \* the rows of jobs with this source, or NotStored
  pull,        \* each run
  lastRequest, \* lastRequestAt of the host
  pulls,       \* runs begun
  ledgerOf,    \* the summaries of the runs that ended (history)
  inserted,    \* the run that inserted each row (history)
  crowded,     \* did two runs ever ask the host at once (history)
  bare,        \* each such posting: [text, authored, list]
  extraction,  \* each run of the script
  retells,     \* changes of the texts
  paid,        \* answers of the AI service stored for each posting (history)
  doubled,     \* postings two runs worked on at once (history)
  retold       \* postings whose text changed while, or after, it was read (history)

ingestVars == <<pullClock, board, stored, pull, lastRequest, pulls, ledgerOf, inserted, crowded>>

Unstated == "unstated"
NotStored == [terms |-> Unstated, text |-> Unstated, seen |-> -1]
NoSummary == [fetched |-> 0, created |-> 0, updated |-> 0, skipped |-> 0]
NoRun == 0
Resting == [phase |-> "idle", by |-> NoRun, asks |-> << >>, wakes |-> 0, got |-> << >>, found |-> FALSE, sum |-> NoSummary]

Polled == {r \in IngestRun : pull[r].phase # "idle"}
EndPull(r, sum) ==
  /\ pull' = [pull EXCEPT ![r] = Resting]
  /\ ledgerOf' = ledgerOf \cup {[by |-> pull[r].by, sum |-> sum]}

-----------------------------------------------------------------------------
(* The adapters. *)

\* normalize: a posting without a title or an employer is dropped; a feed carries no body, so
\* the title stands for it, and only a detail page states a type of employment.
Usable(text) == text.titled /\ text.employer # Unstated
Normalized(kind, text) ==
  [text EXCEPT !.body = IF kind = "feed" THEN "title" ELSE @, !.terms = IF kind = "details" THEN @ ELSE Unstated]

\* The requests of a run, each the postings it answers: one for a feed; one per page; a listing,
\* whose repeats are dropped, and then one per posting.
Listing == {}
Asks(kind) ==
  LET each == [k \in 1 .. Cardinality(Ad) |-> {SetToSeq(Ad)[k]}]
  IN  IF kind = "feed" THEN <<Ad>> ELSE IF kind = "pages" THEN each ELSE <<Listing>> \o each

StartPull(r) ==
  /\ pull[r].phase = "idle" /\ pulls < MaxPulls
  /\ pulls' = pulls + 1
  /\ pull' = [pull EXCEPT ![r] = [Resting EXCEPT !.phase = "pace", !.by = pulls + 1, !.asks = Asks(board.kind)]]
  /\ UNCHANGED <<pullClock, board, stored, lastRequest, ledgerOf, inserted, crowded>>

\* The adapter of TheMuse, an API, asks without a pause.
Polite == board.kind # "pages"

Pace_NoSleep(r) ==   \* mutant: the gap is measured but not slept
  /\ pull[r].phase = "pace"
  /\ pull' = [pull EXCEPT ![r].phase = "ask", ![r].wakes = pullClock]
  /\ UNCHANGED <<pullClock, board, stored, lastRequest, pulls, ledgerOf, inserted, crowded>>
\* politeFetchText reads the time of the last request, and sleeps until the gap is over.
Pace(r) ==
  /\ pull[r].phase = "pace"
  /\ pull' = [pull EXCEPT ![r].phase = "ask",
       ![r].wakes = IF Polite /\ pullClock - lastRequest < MinInterval THEN lastRequest + MinInterval ELSE pullClock]
  /\ crowded' = (crowded \/ \E q \in Polled \ {r} : pull[q].phase \in {"ask", "pace"})
  /\ UNCHANGED <<pullClock, board, stored, lastRequest, pulls, ledgerOf, inserted>>

AnswerTo(ask) ==
  LET usable == SetToSeq({a \in ask : Usable(board.text[a])})
  IN  [k \in DOMAIN usable |-> [ad |-> usable[k], text |-> Normalized(board.kind, board.text[usable[k]])]]

\* The request, and its answer or its failure.  A failed feed or page fails the run; a failed
\* detail loses that posting, and the run does not count it.
AskBoard(r) ==
  /\ pull[r].phase = "ask" /\ pullClock >= pull[r].wakes
  /\ lastRequest' = IF Polite THEN pullClock ELSE lastRequest
  /\ LET ask == Head(pull[r].asks)
         last == Len(pull[r].asks) = 1
         next == [pull[r] EXCEPT !.asks = Tail(@), !.phase = IF last THEN "upsert" ELSE "pace"]
         answer == AnswerTo(ask)
     IN  \/ \* an answer
            /\ pull' = [pull EXCEPT ![r] = [next EXCEPT !.got = @ \o answer, !.sum.fetched = @ + Len(answer)]]
            /\ UNCHANGED ledgerOf
         \/ \* none
            IF board.kind = "details" /\ ask # Listing
            THEN pull' = [pull EXCEPT ![r] = next] /\ UNCHANGED ledgerOf
            ELSE EndPull(r, NoSummary)
  /\ UNCHANGED <<pullClock, board, stored, pulls, inserted, crowded>>

-----------------------------------------------------------------------------
(* persist. *)

Counted(r, sum) == [pull[r] EXCEPT !.sum = sum, !.got = Tail(@), !.phase = "upsert"]
OneCreated(sum) == [sum EXCEPT !.created = @ + 1]
OneUpdated(sum) == [sum EXCEPT !.updated = @ + 1]
OneSkipped(sum) == [sum EXCEPT !.skipped = @ + 1]

\* The company is upserted on its identity key; with nothing left the run ends.
Upsert(r) ==
  /\ pull[r].phase = "upsert"
  /\ IF pull[r].got = << >> THEN EndPull(r, pull[r].sum)
     ELSE /\ \/ pull' = [pull EXCEPT ![r].phase = "find"]
             \/ pull' = [pull EXCEPT ![r] = Counted(r, OneSkipped(pull[r].sum))]   \* the write failed
          /\ UNCHANGED ledgerOf
  /\ UNCHANGED <<pullClock, board, stored, lastRequest, pulls, inserted, crowded>>

FindPosting(r) ==
  /\ pull[r].phase = "find"
  /\ pull' = [pull EXCEPT ![r].phase = "write", ![r].found = stored[Head(pull[r].got).ad] # NotStored]
  /\ UNCHANGED <<pullClock, board, stored, lastRequest, pulls, ledgerOf, inserted, crowded>>

\* Only what the source stated is written over.
Refreshed_Blanks(row, text) == [terms |-> text.terms, text |-> text.body, seen |-> pullClock]   \* mutant: silence overwrites
Refreshed(row, text) ==
  [terms |-> IF text.terms = Unstated THEN row.terms ELSE text.terms, text |-> text.body, seen |-> pullClock]

\* A posting found is refreshed, one not found inserted; the unique key refuses the second of two
\* inserts, which the run counts as skipped.  The event is awaited before the count; its listeners
\* catch what fails in them, so a row that is inserted is counted.
WritePosting_CountsFirst(r) ==   \* mutant: counted before the insert is known to have worked
  /\ pull[r].phase = "write"
  /\ LET item == Head(pull[r].got)  row == stored[item.ad] IN
     /\ pull' = [pull EXCEPT ![r] = Counted(r, IF pull[r].found THEN OneUpdated(pull[r].sum) ELSE OneCreated(pull[r].sum))]
     /\ stored' = [stored EXCEPT ![item.ad] = Refreshed(row, item.text)]
     /\ inserted' = IF row = NotStored THEN [inserted EXCEPT ![item.ad] = pull[r].by] ELSE inserted
  /\ UNCHANGED <<pullClock, board, lastRequest, pulls, ledgerOf, crowded>>
WritePosting(r) ==
  /\ pull[r].phase = "write"
  /\ LET item == Head(pull[r].got)  row == stored[item.ad] IN
     \/ /\ pull[r].found
        /\ stored' = [stored EXCEPT ![item.ad] = Refreshed(row, item.text)]
        /\ pull' = [pull EXCEPT ![r] = Counted(r, OneUpdated(pull[r].sum))] /\ UNCHANGED inserted
     \/ /\ ~pull[r].found /\ row = NotStored
        /\ stored' = [stored EXCEPT ![item.ad] = Refreshed(NotStored, item.text)]
        /\ pull' = [pull EXCEPT ![r] = Counted(r, OneCreated(pull[r].sum))] /\ inserted' = [inserted EXCEPT ![item.ad] = pull[r].by]
     \/ /\ pull' = [pull EXCEPT ![r] = Counted(r, OneSkipped(pull[r].sum))]   \* refused by the unique key, or the write failed
        /\ UNCHANGED <<stored, inserted>>
  /\ UNCHANGED <<pullClock, board, lastRequest, pulls, ledgerOf, crowded>>

-----------------------------------------------------------------------------
(* The site and the clock. *)

\* The publisher edits a posting.
Publish ==
  /\ \E a \in Ad, text \in AdTexts : text # board.text[a] /\ board' = [board EXCEPT !.text[a] = text]
  /\ pulls = 1 /\ Polled = {}   \* between two runs, or nothing would tell
  /\ UNCHANGED <<pullClock, stored, pull, lastRequest, pulls, ledgerOf, inserted, crowded>>

\* Time passes while a run sleeps.
Wait ==
  /\ pullClock < LastPull /\ \E r \in Polled : pull[r].wakes > pullClock
  /\ pullClock' = pullClock + 1
  /\ UNCHANGED <<board, stored, pull, lastRequest, pulls, ledgerOf, inserted, crowded>>

IngestInit ==
  /\ pullClock = 0 /\ lastRequest = -MinInterval /\ pulls = 0 /\ crowded = FALSE /\ ledgerOf = {}
  /\ board \in [kind: BoardKinds, text: [Ad -> AdTexts]]
  /\ stored = [a \in Ad |-> NotStored] /\ inserted = [a \in Ad |-> NoRun]
  /\ pull = [r \in IngestRun |-> Resting]

IngestNext ==
  \/ \E r \in IngestRun : StartPull(r) \/ Pace(r) \/ AskBoard(r) \/ Upsert(r) \/ FindPosting(r) \/ WritePosting(r)
  \/ Publish \/ Wait

-----------------------------------------------------------------------------
(* Requirements read out of the text by the AI service, for postings whose source states none.     *)

extractVars == <<bare, extraction, retells, paid, doubled, retold>>
NoText == 0   \* no description; no list
NoExtraction == [pc |-> "idle", todo |-> {}]

\* Published, with no list of its own and none extracted; whether there is a text is not asked.
Pending_Unread == {j \in Bare : ~ bare[j].authored}
Pending == {j \in Bare : ~ bare[j].authored /\ bare[j].list = NoText}

\* The employer's list when there is one, else the model's.
EffectiveList(j) == IF bare[j].authored THEN "EMPLOYER" ELSE IF bare[j].list # NoText THEN "AI_EXTRACTED" ELSE "NONE"

\* The run of the script still has the posting to do, or is asking about it.
Holds(x, j) == extraction[x] # NoExtraction /\ (j \in extraction[x].todo \/ (extraction[x].pc = "ai" /\ extraction[x].of = j))

\* The script asks once what is pending, in no order.
FindPendingJobIds(x) ==
  /\ extraction[x] = NoExtraction /\ Pending # {}
  /\ \E todo \in SUBSET Pending :
       /\ Cardinality(todo) = IF Cardinality(Pending) < BareLimit THEN Cardinality(Pending) ELSE BareLimit
       /\ extraction' = [extraction EXCEPT ![x] = [pc |-> "next", todo |-> todo]]
       /\ doubled' = doubled \cup {j \in todo : \E y \in IngestRun : Holds(y, j)}
  /\ UNCHANGED <<bare, retells, paid, retold>>

\* extractForJob: a posting that has a list by now, or no text, is skipped.
ReadBare(x, j) ==
  /\ extraction[x].pc = "next" /\ j \in extraction[x].todo
  /\ LET skipped == bare[j].authored \/ bare[j].text = NoText
         rest == extraction[x].todo \ {j} IN
     extraction' = [extraction EXCEPT ![x] =
       IF skipped THEN [pc |-> "next", todo |-> rest] ELSE [pc |-> "ai", todo |-> rest, of |-> j, text |-> bare[j].text]]
  /\ UNCHANGED <<bare, retells, paid, doubled, retold>>

\* The list of the text that was read is written by id.
StoreList_OverTheEmployers(x) ==
  LET e == extraction[x] IN
  /\ e.pc = "ai"
  /\ bare' = [bare EXCEPT ![e.of].list = e.text, ![e.of].authored = FALSE]
  /\ paid' = [paid EXCEPT ![e.of] = @ + 1]
  /\ extraction' = [extraction EXCEPT ![x] = [pc |-> "next", todo |-> e.todo]]
  /\ UNCHANGED <<retells, doubled, retold>>
StoreList(x) ==
  LET e == extraction[x] IN
  /\ e.pc = "ai"
  /\ bare' = [bare EXCEPT ![e.of].list = e.text]
  /\ paid' = [paid EXCEPT ![e.of] = @ + 1]
  /\ extraction' = [extraction EXCEPT ![x] = [pc |-> "next", todo |-> e.todo]]
  /\ UNCHANGED <<retells, doubled, retold>>

\* An outage skips the posting and writes nothing; any other error ends the script.
AiUnavailable(x) ==
  /\ extraction[x].pc = "ai"
  /\ \/ extraction' = [extraction EXCEPT ![x] = [pc |-> "next", todo |-> @.todo]]
     \/ extraction' = [extraction EXCEPT ![x] = NoExtraction]
  /\ UNCHANGED <<bare, retells, paid, doubled, retold>>

EndExtraction(x) ==
  /\ extraction[x].pc = "next" /\ extraction[x].todo = {}
  /\ extraction' = [extraction EXCEPT ![x] = NoExtraction]
  /\ UNCHANGED <<bare, retells, paid, doubled, retold>>

\* The text of a posting changes, by a refresh or by its employer, who may state a list as well.
Retell(j, authored) ==
  /\ retells < MaxRetells /\ retells' = retells + 1
  /\ bare' = [bare EXCEPT ![j].text = retells + 2, ![j].authored = authored]
  /\ retold' = IF bare[j].list # NoText \/ (\E x \in IngestRun : extraction[x].pc = "ai" /\ extraction[x].of = j) THEN retold \cup {j} ELSE retold
  /\ UNCHANGED <<extraction, paid, doubled>>

ExtractInit ==
  /\ bare \in [Bare -> [text : {NoText, 1}, authored : BOOLEAN, list : {NoText}]]
  /\ extraction = [x \in IngestRun |-> NoExtraction] /\ retells = 0
  /\ paid = [j \in Bare |-> 0] /\ doubled = {} /\ retold = {}

ExtractNext ==
  \/ \E x \in IngestRun :
       \/ FindPendingJobIds(x) \/ StoreList(x) \/ AiUnavailable(x) \/ EndExtraction(x)
       \/ \E j \in Bare : ReadBare(x, j)
  \/ \E j \in Bare, authored \in BOOLEAN : (bare[j].authored => authored) /\ Retell(j, authored)

-----------------------------------------------------------------------------
(* Properties. *)

\* A run's summary adds up, and however the runs overlap, each counts as created exactly the rows
\* it inserted; no row is inserted twice, or by none.  (ingest, persist)
SummariesAddUp ==
  /\ \A e \in ledgerOf : e.sum.fetched = e.sum.created + e.sum.updated + e.sum.skipped
  /\ \A e \in ledgerOf \cup {pull[r] : r \in Polled} : e.sum.created = Cardinality({a \in Ad : inserted[a] = e.by})
  /\ \A a \in Ad : stored[a] # NotStored <=> inserted[a] # NoRun

\* A source that falls silent about the terms of a posting (pay, type of employment) erases nothing that was stated before.  (stated)
SilenceErasesNothing ==
  \A a \in Ad : stored'[a].terms # stored[a].terms => stored'[a].terms # Unstated

\* A host that is scraped is asked at most once per MinInterval, unless two runs pace themselves
\* on the same last request.  (politeFetchText)
RequestsArePaced ==
  Polite /\ ~crowded /\ (\E r \in IngestRun : pull[r].phase = "ask" /\ pull'[r].phase # "ask") => lastRequest' - lastRequest >= MinInterval

\* The model is asked once about a posting, unless two runs of the script overlap on it; the list
\* shown is the one of the text shown, unless that changed since it was read; and what an employer
\* states is never replaced by what the model read, however late its answer comes.
ListsAreRead ==
  \A j \in Bare :
    /\ j \notin doubled => paid[j] <= 1
    /\ EffectiveList(j) = "AI_EXTRACTED" => (bare[j].list = bare[j].text \/ j \in retold)
    /\ paid[j] > 0 => bare[j].list # NoText

EmployersListStays == \A j \in Bare : EffectiveList(j) = "EMPLOYER" => EffectiveList(j)' = "EMPLOYER"
=============================================================================
