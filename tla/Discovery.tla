-------------------------------- MODULE Discovery --------------------------------
(***************************************************************************)
(* What makes postings and candidates comparable, and what a candidate is told  *)
(* between visits: the embedding of rows one by one and in batches, the poll of   *)
(* the extension's scout for new postings, and the page of skill gaps over all     *)
(* the postings a candidate applied to.                                         *)
(*                                                                           *)
(* A vector is the text it was made of; a score is a number per posting, that of    *)
(* MatchScoring; how a requirement is matched is Matched of MatchReports.           *)
(***************************************************************************)
EXTENDS MatchReports

-----------------------------------------------------------------------------
(* Vectors. *)

CONSTANTS
  EmbedRow,           \* rows to embed, of jobs or of profiles, in the order a backfill loads them
  Batch,          \* JOB_BATCH
  Embedder,       \* calls in progress: one row's, or a backfill's
  MaxEmbeds,      \* calls
  MaxRewordings   \* edits of a row's text

ASSUME VectorsAssumption == EmbedRow \subseteq Nat /\ Batch \in Nat \ {0} /\ {MaxEmbeds, MaxRewordings} \subseteq Nat

VARIABLES
  itemText,     \* the version of a row's text; 0 is a text that is empty
  vectorRow,    \* [vector, status, error] of a row
  embedding,    \* what an embedder is doing
  lastEmbedError, \* why the last call of this instance failed
  visited,      \* rows a call has come past
  unrecorded,   \* rows whose failure could not be written
  embeds, rewordings \* how many

vectorVars == <<itemText, vectorRow, embedding, lastEmbedError, visited, unrecorded, embeds, rewordings>>

NoVector == [of |-> 0, version |-> 0]
NoError == "none"
NotEmbedding == [pc |-> "idle", queue |-> <<>>, batch |-> <<>>, answers |-> <<>>]

Loaded(ids) == [k \in DOMAIN ids |-> [id |-> ids[k], version |-> itemText[ids[k]]]]
InBatches(queue) ==
  [pc |-> IF queue = <<>> THEN "idle" ELSE "asking", queue |-> SubSeq(queue, Batch + 1, Len(queue)),
   batch |-> SubSeq(queue, 1, Min({Batch, Len(queue)})), answers |-> <<>>]

\* embedJob, embedCandidate: one row and its text as it is now.
EmbedOne(e, i) ==
  /\ embedding[e] = NotEmbedding /\ embeds < MaxEmbeds /\ embeds' = embeds + 1
  /\ embedding' = [embedding EXCEPT ![e] = InBatches(Loaded(<<i>>))]
  /\ UNCHANGED <<itemText, vectorRow, lastEmbedError, visited, unrecorded, rewordings>>

\* embedAllJobs loads every row, text included, before its first batch.
EmbedAll(e) ==
  /\ embedding[e] = NotEmbedding /\ embeds < MaxEmbeds /\ embeds' = embeds + 1
  /\ embedding' = [embedding EXCEPT ![e] = InBatches(Loaded(SetToSortSeq(EmbedRow, <)))]
  /\ UNCHANGED <<itemText, vectorRow, lastEmbedError, visited, unrecorded, rewordings>>

\* Empty texts are not sent; what comes back is put where the text that was sent came from.
Sent(batch) == SelectSeq([k \in DOMAIN batch |-> [at |-> k, id |-> batch[k].id, version |-> batch[k].version]],
                         LAMBDA t : t.version # 0)
Aligned_ByOrder(batch, answered) ==
  [k \in DOMAIN batch |-> IF k <= answered THEN [of |-> Sent(batch)[k].id, version |-> Sent(batch)[k].version] ELSE NoVector]
Aligned(batch, answered) ==
  [k \in DOMAIN batch |->
     IF \E j \in 1..answered : Sent(batch)[j].at = k THEN [of |-> batch[k].id, version |-> batch[k].version] ELSE NoVector]

\* The model embeds what it was sent, perhaps not all of it; an outage leaves every row of the
\* batch without; anything else that is thrown ends the call.
AskModel(e) ==
  /\ embedding[e].pc = "asking"
  /\ LET batch == embedding[e].batch
         answer(n) == embedding' = [embedding EXCEPT ![e].pc = "storing", ![e].answers = Aligned(batch, n)]
     IN \/ \E n \in {Len(Sent(batch)), Max({0, Len(Sent(batch)) - 1})} : answer(n) /\ UNCHANGED lastEmbedError
        \/ Sent(batch) # <<>> /\ answer(0) /\ lastEmbedError' = "outage"
        \/ Sent(batch) # <<>> /\ embedding' = [embedding EXCEPT ![e] = NotEmbedding] /\ UNCHANGED lastEmbedError
  /\ UNCHANGED <<itemText, vectorRow, visited, unrecorded, rewordings, embeds>>

StoreEmbedding(i, v) ==
  /\ vectorRow' = [vectorRow EXCEPT ![i] = [vector |-> v, status |-> "SUCCESS", error |-> NoError]]
  /\ UNCHANGED unrecorded
\* The vector a row has is left alone; that the failure itself cannot be written is let go.
MarkEmbeddingFailed_Skipped(i) == UNCHANGED <<vectorRow, unrecorded>>
MarkEmbeddingFailed(i) ==
  \/ /\ vectorRow' = [vectorRow EXCEPT ![i].status = "FAILED",
                        ![i].error = IF lastEmbedError = NoError THEN "unavailable" ELSE lastEmbedError]
     /\ UNCHANGED unrecorded
  \/ unrecorded' = unrecorded \cup {i} /\ UNCHANGED vectorRow

\* The rows of a batch, one after the other, and then the next batch.
StoreNext(e) ==
  LET t == embedding[e]
      i == t.batch[1].id
  IN /\ t.pc = "storing"
     /\ IF t.answers[1] # NoVector THEN StoreEmbedding(i, t.answers[1]) ELSE MarkEmbeddingFailed(i)
     /\ visited' = visited \cup {i}
     /\ embedding' = [embedding EXCEPT ![e] =
          IF Len(t.batch) > 1 THEN [t EXCEPT !.batch = Tail(@), !.answers = Tail(@)] ELSE InBatches(t.queue)]
     /\ UNCHANGED <<itemText, lastEmbedError, rewordings, embeds>>

Reword(i) ==
  /\ rewordings < MaxRewordings /\ rewordings' = rewordings + 1
  /\ itemText' \in {[itemText EXCEPT ![i] = 0], [itemText EXCEPT ![i] = rewordings + 2]}
  /\ UNCHANGED <<vectorRow, embedding, lastEmbedError, visited, unrecorded, embeds>>

VectorsInit ==
  /\ itemText \in [EmbedRow -> {0, 1}]
  /\ vectorRow = [i \in EmbedRow |-> [vector |-> NoVector, status |-> "PENDING", error |-> NoError]]
  /\ embedding = [e \in Embedder |-> NotEmbedding]
  /\ lastEmbedError = NoError /\ visited = {} /\ unrecorded = {} /\ embeds = 0 /\ rewordings = 0
VectorsNext ==
  \/ \E e \in Embedder : EmbedAll(e) \/ AskModel(e) \/ StoreNext(e) \/ (\E i \in EmbedRow : EmbedOne(e, i))
  \/ \E i \in EmbedRow : Reword(i)

-----------------------------------------------------------------------------
(* The scout. *)

CONSTANTS
  News,           \* postings that come in
  NewsScore,      \* [posting -> its score for this candidate]
  MinScore,       \* minScore
  ScoutCap,       \* SCOUT_CANDIDATE_CAP
  ScoutLimit,     \* SCOUT_RESULT_LIMIT
  ScoutWindow,    \* DEFAULT_SCOUT_WINDOW_MS
  LastScoutTick   \* the clock stops here

ASSUME ScoutAssumption ==
  /\ NewsScore \in [News -> Nat] /\ {MinScore, ScoutCap, ScoutLimit, ScoutWindow, LastScoutTick} \subseteq Nat

VARIABLES
  scoutClock,
  news,        \* [status, createdAt, embedded] of a posting
  waved,       \* postings the candidate said they are not interested in
  poll,        \* the poll in progress
  lastPoll,    \* when the extension polled last, the since of its next poll
  knownNews,       \* postings there were when it did
  scouted        \* the last answer, and what it owed

scoutVars == <<scoutClock, news, waved, poll, lastPoll, knownNews, scouted>>

NoNews == [status |-> "none", createdAt |-> 0, embedded |-> FALSE]
NotYet == -1
NoPoll == [pc |-> "idle", batch |-> {}, owed |-> {}, quiet |-> {}, cut |-> FALSE]
Silence == [answer |-> {}, owed |-> {}, quiet |-> {}, cut |-> FALSE]

ScoutTick ==
  /\ scoutClock < LastScoutTick /\ scoutClock' = scoutClock + 1
  /\ UNCHANGED <<news, waved, poll, lastPoll, knownNews, scouted>>

\* An import publishes at once, an employer drafts; the vector comes later.
PostNews(i, status) ==
  /\ news[i] = NoNews
  /\ news' = [news EXCEPT ![i] = [status |-> status, createdAt |-> scoutClock, embedded |-> FALSE]]
  /\ UNCHANGED <<scoutClock, waved, poll, lastPoll, knownNews, scouted>>
ChangeNews(i) ==
  /\ news[i] # NoNews
  /\ news' \in {[news EXCEPT ![i].embedded = TRUE], [news EXCEPT ![i].status = "CLOSED"]}
               \cup IF news[i].status = "DRAFT" THEN {[news EXCEPT ![i].status = "PUBLISHED"]} ELSE {}
  /\ UNCHANGED <<scoutClock, waved, poll, lastPoll, knownNews, scouted>>
WaveAway(i) ==
  /\ news[i].status = "PUBLISHED" /\ waved' = waved \cup {i}
  /\ UNCHANGED <<scoutClock, news, poll, lastPoll, knownNews, scouted>>

\* The n of a set that a number puts first, whichever of equals.
Foremost(n, items, number) ==
  {s \in SUBSET items : /\ Cardinality(s) = Min({n, Cardinality(items)})
                        /\ \A i \in s, j \in items \ s : number[i] >= number[j]}

\* The postings of the window, newest first, as many as one poll may cost.
Since == IF lastPoll = NotYet THEN scoutClock - ScoutWindow ELSE lastPoll
InWindow_After(i) == news[i].status = "PUBLISHED" /\ news[i].createdAt > Since
InWindow(i) == news[i].status = "PUBLISHED" /\ news[i].createdAt >= Since
GetScout ==
  LET window == {i \in News : InWindow(i)}
      there == {i \in News : news[i] # NoNews}
      ready == {i \in there : news[i].status = "PUBLISHED" /\ news[i].embedded /\ i \notin knownNews}
  IN /\ poll = NoPoll
     /\ \E batch \in Foremost(ScoutCap, window, [i \in News |-> news[i].createdAt]) :
          poll' = [pc |-> "dismissed", batch |-> batch, quiet |-> waved, cut |-> batch # window,
                   owed |-> IF lastPoll = NotYet THEN {i \in ready : news[i].createdAt >= scoutClock - ScoutWindow} ELSE ready]
     /\ lastPoll' = scoutClock /\ knownNews' = there
     /\ UNCHANGED <<scoutClock, news, waved, scouted>>

\* What was dismissed must not come back as a notification.
LeaveOutDismissed_None == poll.batch
LeaveOutDismissed == poll.batch \ waved
ReadDismissed ==
  /\ poll.pc = "dismissed"
  /\ poll' = [poll EXCEPT !.pc = "scoring", !.batch = LeaveOutDismissed]
  /\ UNCHANGED <<scoutClock, news, waved, lastPoll, knownNews, scouted>>

\* A posting without a vector has no score; the best come first.
AnswerScout ==
  LET scored == {i \in poll.batch : news[i].embedded /\ NewsScore[i] >= MinScore} IN
  /\ poll.pc = "scoring"
  /\ \E answer \in Foremost(ScoutLimit, scored, NewsScore) :
       scouted' = [answer |-> answer, owed |-> poll.owed \ waved, quiet |-> poll.quiet,
                   cut |-> poll.cut \/ answer # scored]
  /\ poll' = NoPoll
  /\ UNCHANGED <<scoutClock, news, waved, lastPoll, knownNews>>

ScoutInit ==
  /\ scoutClock = 0 /\ news = [i \in News |-> NoNews] /\ waved = {} /\ poll = NoPoll
  /\ lastPoll = NotYet /\ knownNews = {} /\ scouted = Silence
ScoutNext ==
  \/ ScoutTick \/ GetScout \/ ReadDismissed \/ AnswerScout
  \/ \E i \in News : ChangeNews(i) \/ WaveAway(i) \/ \E s \in {"PUBLISHED", "DRAFT"} : PostNews(i, s)

-----------------------------------------------------------------------------
(* Skill gaps. *)

CONSTANTS
  AppliedTo,     \* postings applied to
  AskLists,         \* what they may ask: sequences of requirements, the employer's or extracted
  Extracted,    \* those of them whose requirements are the model's reading
  TextOrder,    \* [requirement -> its place in the alphabet]
  Parses,       \* the resumes of the candidate: the skills each evidences
  MaxSwitches   \* changes of the active resume while the page is made

ASSUME GapsAssumption == MaxSwitches \in Nat /\ Extracted \subseteq AppliedTo

VARIABLES
  asks,       \* [posting -> its requirements]
  activeCv,   \* the skills the active resume evidences
  compared,   \* [posting -> its analysis]
  gapPage,    \* the page, or NoPage
  switches

gapVars == <<asks, activeCv, compared, gapPage, switches>>

NoPage == [made |-> FALSE, hasApplications |-> FALSE, hasParsedResume |-> FALSE, applications |-> <<>>]
NotCompared == [status |-> "none", source |-> "NONE", gaps |-> <<>>, total |-> 0, read |-> {}]
NotApplied == <<"none">>
AppliedNow == {p \in AppliedTo : asks[p] # NotApplied}

\* An exact match is covered; one that is only adjacent is a doubt, and is listed.
IsGap(r) == r.matchedSkills = {} \/ r.matchQuality = "PARTIAL"
GapCoverage == {"MISSING", "PARTIAL"}
Coverage(r) == IF r.matchQuality = "PARTIAL" THEN "PARTIAL" ELSE "MISSING"

\* One analysis per application, each reading the active resume for itself.
AnalyseApplication(p) ==
  LET reqs == ToSet(asks[p])
      result == Analyse(IF p \in Extracted THEN {} ELSE reqs, reqs, activeCv)
      row(t) == CHOOSE r \in result.requirements : r.text = t
      rows == [k \in DOMAIN asks[p] |-> row(asks[p][k])]
  IN /\ p \in AppliedNow /\ compared[p] = NotCompared
     /\ compared' = [compared EXCEPT ![p] =
          [status |-> result.status, source |-> result.requirementsSource, gaps |-> SelectSeq(rows, IsGap),
           total |-> Len(rows), read |-> activeCv]]
     /\ UNCHANGED <<asks, activeCv, gapPage, switches>>

SwitchResume ==
  /\ switches < MaxSwitches /\ switches' = switches + 1
  /\ activeCv' \in Parses
  /\ UNCHANGED <<asks, compared, gapPage>>

\* Counted over all applications first, so that the number means the same in every group.
Comparable_Read(p) == compared[p].status # "JOB_HAS_NO_REQUIREMENTS"
Comparable(p) == compared[p].status = "OK"
Occurs(t, s) == Cardinality({k \in DOMAIN s : s[k].text = t})
RequiredBy_InGroup(usable, p, t) == Occurs(t, compared[p].gaps)
RequiredBy(usable, p, t) == MapThenSumSet(LAMBDA q : Occurs(t, compared[q].gaps), usable)

\* A real gap before a doubt, then the most wanted, then by the alphabet.
Rank(coverage) == IF coverage = "MISSING" THEN 0 ELSE 1
Outranks(g, h) ==
  \/ Rank(g.coverage) < Rank(h.coverage)
  \/ g.coverage = h.coverage /\ g.requiredBy > h.requiredBy
  \/ g.coverage = h.coverage /\ g.requiredBy = h.requiredBy /\ TextOrder[g.requirement] < TextOrder[h.requirement]
Group(usable, p) ==
  LET item(r) == [requirement |-> r.text, coverage |-> Coverage(r), requiredBy |-> RequiredBy(usable, p, r.text),
                  matchedSkills |-> IF Coverage(r) = "PARTIAL" THEN r.matchedSkills ELSE {}]
      gaps == compared[p].gaps
  IN [job |-> p, source |-> compared[p].source, requirementsTotal |-> compared[p].total,
      gaps |-> SortSeq([k \in DOMAIN gaps |-> item(gaps[k])], Outranks)]

\* The posting with the most gaps leads.
ComposePage ==
  LET usable == {p \in AppliedNow : Comparable(p)}
      none == \A p \in AppliedNow : compared[p].status = "NO_PARSED_RESUME"
      groups == {Group(usable, p) : p \in usable}
      page(parsed, groupsInOrder) ==
        [made |-> TRUE, hasApplications |-> AppliedNow # {}, hasParsedResume |-> parsed, applications |-> groupsInOrder]
  IN /\ gapPage = NoPage /\ \A p \in AppliedNow : compared[p] # NotCompared
     /\ gapPage' = IF AppliedNow # {} /\ none THEN page(FALSE, <<>>)
                   ELSE page(TRUE, SetToSortSeq(groups, LAMBDA g, h : Len(g.gaps) > Len(h.gaps)))
     /\ UNCHANGED <<asks, activeCv, compared, switches>>

\* getExternalJobGaps: what postings like the one on the page ask for that the user does not list.
\* Alike is to share a word of the title that names no rank; a title without one, and a user without
\* skills, get no answer.  A title stands for the words it contains.
CONSTANTS
  Titles,      \* titles of postings on other sites: sequences of words
  SimilarRoles,       \* postings here: [title, skills, published], title the set of its words
  SkillRows,   \* what users have listed: [skill, deleted]
  MaxSimilar   \* the most postings compared (200)

ASSUME SimilarAssumption == MaxSimilar \in Nat /\ IsFiniteSet(SimilarRoles)

TitleStopwords == {"senior", "lead", "the"}
ThreeLetters == {"ios"}
TitleTokens_Ranked(title) == SelectSeq(title, LAMBDA w : w \notin ThreeLetters)
TitleTokens(title) ==
  LET tokens == SelectSeq(title, LAMBDA w : w \notin TitleStopwords \cup ThreeLetters)
  IN SubSeq(tokens, 1, Min({6, Len(tokens)}))

Similar(title) == {j \in SimilarRoles : j.published /\ j.title \cap ToSet(TitleTokens(title)) # {}}
Demand(taken, skill) == Cardinality({j \in taken : skill \in j.skills})

\* Of the postings the database returned.  A skill that was removed still has its row.
ExternalJobGaps(rows, taken) ==
  LET known == {r.skill : r \in rows}
      lacked == UNION {j.skills : j \in taken} \ known
      top == SetToSortSeq(lacked, LAMBDA a, b : Demand(taken, a) > Demand(taken, b))
  IN IF known = {} THEN <<>>
     ELSE [k \in 1..Min({4, Len(top)}) |->
             [skill |-> top[k], demandCount |-> Demand(taken, top[k]),
              jobsWithoutSkill |-> Max({0, Cardinality(taken) - Demand(taken, top[k])})]]
ExternalSkillGapItem == [skill : STRING, demandCount : Nat \ {0}, jobsWithoutSkill : Nat]

GapsInit ==
  /\ asks \in [AppliedTo -> AskLists \cup {NotApplied}] /\ activeCv \in Parses
  /\ compared = [p \in AppliedTo |-> NotCompared] /\ gapPage = NoPage /\ switches = 0
GapsNext == SwitchResume \/ ComposePage \/ \E p \in AppliedTo : AnalyseApplication(p)

-----------------------------------------------------------------------------
(* Properties. *)

\* Every vector is that of its own row, whichever texts of its batch were empty and however many
\* answers the model left out, and the status beside it tells the truth about it.
VectorsAreOwn ==
  \A i \in EmbedRow :
    LET r == vectorRow[i] IN
    /\ r.vector # NoVector => r.vector.of = i /\ r.vector.version # 0
    /\ r.status = "SUCCESS" => r.vector # NoVector /\ r.error = NoError
    /\ r.status = "PENDING" => r.vector = NoVector
    /\ r.status = "FAILED" => r.error # NoError

\* A backfill leaves no row behind unseen: one it came past has a vector or says that it failed,
\* unless that could not be written either.
NoRowIsSkipped == \A i \in visited \ unrecorded : vectorRow[i].status # "PENDING"

\* Failing to embed a row again never takes away the vector it has.
VectorsAreNotLost == \A i \in EmbedRow : vectorRow[i].vector # NoVector => vectorRow'[i].vector # NoVector

\* A posting that could be matched when the extension polled, and was not there at its poll before,
\* is in the answer, however close to that poll it came in; one that was dismissed before is not.
NewsArrives ==
  /\ ~scouted.cut => {i \in scouted.owed : NewsScore[i] >= MinScore} \subseteq scouted.answer
  /\ scouted.answer \cap scouted.quiet = {}

\* What the page is promised.
SkillGapItem ==
  [requirement : Seq(STRING), coverage : GapCoverage, matchedSkills : SUBSET Seq(STRING), requiredBy : Nat]
ApplicationGaps ==
  [job : AppliedTo, source : RequirementsSource \ {"NONE"}, requirementsTotal : Nat, gaps : Seq(SkillGapItem)]
SkillGapSummary ==
  [made : BOOLEAN, hasApplications : BOOLEAN, hasParsedResume : BOOLEAN, applications : Seq(ApplicationGaps)]

\* The number of postings that ask for a requirement is the same wherever it is shown, is at least
\* the number of groups that show it, and that number when no posting repeats itself; what is missing
\* is listed before what is in doubt, and a doubt names the skills it rests on, which the resume has;
\* and a resume that could not be read is never told that it lacks something.
GapsAreHonest ==
  LET groups == ToSet(gapPage.applications)
      at(g) == {g.gaps[k] : k \in DOMAIN g.gaps}
      named(g) == {i.requirement : i \in at(g)}
      showing(t) == {g \in groups : t \in named(g)}
  IN /\ gapPage \in SkillGapSummary
     /\ \A g \in groups : compared[g.job].read # {} /\ Len(g.gaps) <= g.requirementsTotal
                         /\ (g.source = "AI_EXTRACTED") = (g.job \in Extracted)
     /\ \A g \in groups : \A i \in at(g) :
          /\ i.requiredBy >= Cardinality(showing(i.requirement))
          /\ (\A p \in AppliedNow : IsInjective(asks[p])) => i.requiredBy = Cardinality(showing(i.requirement))
          /\ \A h \in showing(i.requirement) : \E j \in at(h) : j.requirement = i.requirement /\ j.requiredBy = i.requiredBy
          /\ (i.coverage = "PARTIAL") = (i.matchedSkills # {}) /\ i.matchedSkills \subseteq compared[g.job].read
     /\ \A g \in groups : \A k, l \in DOMAIN g.gaps :
          k < l => ~(g.gaps[k].coverage = "PARTIAL" /\ g.gaps[l].coverage = "MISSING")
     /\ \A k, l \in DOMAIN gapPage.applications :
          k < l => Len(gapPage.applications[k].gaps) >= Len(gapPage.applications[l].gaps)
     /\ gapPage.made /\ ~gapPage.hasParsedResume => AppliedNow # {} /\ \A p \in AppliedNow : compared[p].read = {}

\* On another site's page nothing the user lists is called a gap, nor anything when nothing is
\* listed; what is left out is wanted no more than what is shown; and a word of rank or one too
\* short brings no posting in, so that a title of such words alone has no gaps, rather than all.
ExternalGapsFollowTheRole ==
  \A title \in Titles, rows \in SkillRows :
    \A taken \in kSubset(Min({MaxSimilar, Cardinality(Similar(title))}), Similar(title)) :
      LET gaps == ExternalJobGaps(rows, taken)
          shown == {gaps[k].skill : k \in DOMAIN gaps}
      IN /\ gaps \in Seq(ExternalSkillGapItem) /\ Len(gaps) <= 4
         /\ \A r \in rows : r.skill \notin shown
         /\ rows = {} \/ ToSet(title) \subseteq TitleStopwords \cup ThreeLetters => gaps = <<>>
         /\ \A k \in DOMAIN gaps : \A x \in UNION {j.skills : j \in taken} \ (shown \cup {r.skill : r \in rows}) :
              Demand(taken, x) <= gaps[k].demandCount
         /\ \A k, l \in DOMAIN gaps : k < l => gaps[k].demandCount >= gaps[l].demandCount
=============================================================================
