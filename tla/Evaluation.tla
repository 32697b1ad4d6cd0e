-------------------------------- MODULE Evaluation --------------------------------
(***************************************************************************)
(* The offline evaluations: is the model's judgement of a labelled pair ordered     *)
(* like a human's and quoted from the texts it was given, and does retrieval find   *)
(* what was labelled relevant?                                                      *)
(*                                                                           *)
(* A quote is abstracted to whether it occurs verbatim and to how many of its        *)
(* content words do; a reciprocal and a logarithm are tables of whole numbers.       *)
(***************************************************************************)
EXTENDS Integers, FiniteSets, SequencesExt

CONSTANTS
  LabelLists,   \* the lists of pairs to judge: [who, job, grade, known, hasText]
  PairLimit,    \* opts.limit: 0 is no limit
  Slot,        \* the calls that may be in flight at a time
  ModelAnswers,     \* what the model may answer: [fit, degraded, quotes]
  LabelFiles,   \* files of labels, a sequence of lines: [who, job, grade, slice], or Garbled
  RankedJob,    \* postings that retrieval may return
  Cutoff        \* k

ASSUME EvaluationAssumption == PairLimit \in Nat /\ Cutoff \in 1 .. 3 /\ IsFiniteSet(RankedJob)

Garbled == [who |-> 0]
Done == 0      \* a call that is not in flight
NoFit == -1

VARIABLES
  pairs,      \* the pairs to judge
  nextPair,   \* the place of the next one
  inFlight,   \* call -> the place of the pair it asks about
  evalRows,       \* the rows, as they came
  outcome     \* "running", "reported" or "failed"
judgeVars == <<pairs, nextPair, inFlight, evalRows, outcome>>

VARIABLES
  file,       \* the file the labels came from
  labels,     \* the labels
  rerank,     \* whether the reranker was asked for
  retrieved,  \* candidate -> the postings retrieved, best first
  skipped     \* the candidates whose reranking did not happen
rankVars == <<file, labels, rerank, retrieved, skipped>>

-----------------------------------------------------------------------------
(* A quote against the text it should come from. *)

IsGrounded(q, lenient) ==
  /\ ~ q.blank
  /\ \/ q.verbatim
     \/ lenient /\ q.words > 0 /\ 10 * q.hits >= 8 * q.words

GroundedCount(quotes, lenient) == Cardinality({i \in DOMAIN quotes : IsGrounded(quotes[i], lenient)})

\* A pair of a posting that is gone, or of a candidate without a text, is never asked about.
Askable(p) == p.known /\ p.hasText

FailedRow(i) == [of |-> i, fit |-> NoFit, degraded |-> FALSE, error |-> TRUE, total |-> 0, strict |-> 0, lenient |-> 0]
EvaluatedRow(i, v) ==
  [of |-> i, fit |-> v.fit, degraded |-> v.degraded, error |-> FALSE, total |-> Len(v.quotes),
   strict |-> GroundedCount(v.quotes, FALSE), lenient |-> GroundedCount(v.quotes, TRUE)]

-----------------------------------------------------------------------------
(* evaluate: workers that take the next pair until there is none. *)

Pairs(list) == IF PairLimit = 0 THEN list ELSE SubSeq(list, 1, IF Len(list) < PairLimit THEN Len(list) ELSE PairLimit)

\* The place is taken and advanced before the call.
TakePair_AdvancedLater(j) ==
  /\ outcome # "reported" /\ inFlight[j] = Done /\ nextPair <= Len(pairs)
  /\ IF Askable(pairs[nextPair])
     THEN inFlight' = [inFlight EXCEPT ![j] = nextPair] /\ UNCHANGED <<evalRows, nextPair>>
     ELSE evalRows' = Append(evalRows, FailedRow(nextPair)) /\ nextPair' = nextPair + 1 /\ UNCHANGED inFlight
  /\ UNCHANGED <<pairs, outcome>>
TakePair(j) ==
  /\ outcome # "reported" /\ inFlight[j] = Done /\ nextPair <= Len(pairs)
  /\ nextPair' = nextPair + 1
  /\ IF Askable(pairs[nextPair])
     THEN inFlight' = [inFlight EXCEPT ![j] = nextPair] /\ UNCHANGED evalRows
     ELSE evalRows' = Append(evalRows, FailedRow(nextPair)) /\ UNCHANGED inFlight
  /\ UNCHANGED <<pairs, outcome>>

\* The model answers, or the call fails: a row either way.
EvaluatePair(j) ==
  /\ inFlight[j] # Done
  /\ \E line \in {FailedRow(inFlight[j])} \cup {EvaluatedRow(inFlight[j], v) : v \in ModelAnswers} :
       evalRows' = Append(evalRows, line)
  /\ inFlight' = [inFlight EXCEPT ![j] = Done]
  /\ UNCHANGED <<pairs, nextPair, outcome>>

\* A 2xx without the list of requirements is read outside the try: the whole run rejects, while
\* the other workers go on with theirs.
ReadTornAnswer(j) ==
  /\ inFlight[j] # Done
  /\ outcome' = "failed"
  /\ inFlight' = [inFlight EXCEPT ![j] = Done]
  /\ UNCHANGED <<pairs, nextPair, evalRows>>

Summarized ==
  /\ outcome = "running" /\ nextPair > Len(pairs) /\ \A j \in Slot : inFlight[j] = Done
  /\ outcome' = "reported"
  /\ UNCHANGED <<pairs, nextPair, inFlight, evalRows>>

-----------------------------------------------------------------------------
(* summarize: the numbers of a report. *)

ScoredRows_WithFallbacks(rs) == SelectSeq(rs, LAMBDA r : ~ r.error /\ r.fit # NoFit)
ScoredRows(rs) == SelectSeq(rs, LAMBDA r : ~ r.degraded /\ ~ r.error /\ r.fit # NoFit)

SumOf(s) == FoldSeq(LAMBDA x, acc : x + acc, 0, s)
Field(rs, f(_)) == [i \in DOMAIN rs |-> f(rs[i])]

\* micro: all claims; macro: the rows that made any.  A share is <<hits, of>>.
Groundedness(rs) ==
  [claims |-> SumOf(Field(rs, LAMBDA r : r.total)), hits |-> SumOf(Field(rs, LAMBDA r : r.strict)),
   made |-> Cardinality({i \in DOMAIN rs : rs[i].total > 0})]

\* The ranks of a series, doubled: a block of ties shares the mean of its places.
RankWithTies_Ordinal(s) ==
  [i \in DOMAIN s |-> 2 * Cardinality({k \in DOMAIN s : s[k] < s[i] \/ (s[k] = s[i] /\ k <= i)})]
RankWithTies(s) ==
  LET below(i) == Cardinality({k \in DOMAIN s : s[k] < s[i]})
      tied(i)  == Cardinality({k \in DOMAIN s : s[k] = s[i]})
  IN [i \in DOMAIN s |-> 2 * below(i) + tied(i) + 1]

\* Pearson over the ranks: the covariance and the two variances, times the square of the count.
Pearson(xs, ys) ==
  LET n == Len(xs)
      dev(s) == [i \in DOMAIN s |-> n * s[i] - SumOf(s)]
      dx == dev(xs)  dy == dev(ys)
      dot(a, b) == SumOf([i \in DOMAIN a |-> a[i] * b[i]])
  IN [cov |-> dot(dx, dy), vx |-> dot(dx, dx), vy |-> dot(dy, dy)]
Undefined == [cov |-> 0, vx |-> 1, vy |-> 1]
Spearman(xs, ys) ==
  IF Len(xs) # Len(ys) \/ Len(xs) < 2 THEN Undefined
  ELSE LET p == Pearson(RankWithTies(xs), RankWithTies(ys)) IN IF p.vx = 0 \/ p.vy = 0 THEN Undefined ELSE p

Fits(rs) == Field(rs, LAMBDA r : r.fit)
Grades(rs) == Field(rs, LAMBDA r : pairs[r.of].grade)

Summarize(rs) ==
  [pairs |-> Len(rs), scored |-> Len(ScoredRows(rs)), degraded |-> Len(SelectSeq(rs, LAMBDA r : r.degraded)),
   errors |-> Len(SelectSeq(rs, LAMBDA r : r.error)), grounded |-> Groundedness(ScoredRows(rs)),
   rho |-> Spearman(Fits(ScoredRows(rs)), Grades(ScoredRows(rs)))]

JudgingInit ==
  /\ pairs \in {Pairs(list) : list \in LabelLists}
  /\ nextPair = 1 /\ inFlight = [j \in Slot |-> Done] /\ evalRows = <<>> /\ outcome = "running"
JudgingNext == (\E j \in Slot : TakePair(j) \/ EvaluatePair(j) \/ ReadTornAnswer(j)) \/ Summarized

-----------------------------------------------------------------------------
(* Retrieval: the file of labels, the lists retrieved, and their metrics. *)

\* A line that does not read is skipped; the last of two for one pair wins.
ParseLabelsJsonl(lines) ==
  {lines[i] : i \in {n \in DOMAIN lines :
     /\ lines[n] # Garbled
     /\ ~ \E later \in DOMAIN lines : later > n /\ lines[later].who = lines[n].who /\ lines[later].job = lines[n].job}}

Labelled(set) == {l.who : l \in set}

\* GREAT, OK and BAD, as grades.
LabelGrade == [GREAT |-> 2, OK |-> 1, BAD |-> 0]
\* One verdict on one candidate and one posting, with the slice it was tagged with.
MatchLabel == [who : Nat, job : RankedJob, grade : {LabelGrade[v] : v \in DOMAIN LabelGrade}, slice : Nat]

\* One candidate after the other; the reranker, when asked for, may have been away.
RetrieveRanked(c) ==
  /\ c \in Labelled(labels) \ DOMAIN retrieved
  /\ \E jobs \in SUBSET RankedJob : \E ranked \in SetToSeqs(jobs), away \in BOOLEAN :
       /\ Len(ranked) <= Cutoff
       /\ away => rerank
       /\ retrieved' = [x \in DOMAIN retrieved \cup {c} |-> IF x = c THEN ranked ELSE retrieved[x]]
       /\ skipped' = IF away THEN skipped \cup {c} ELSE skipped
  /\ UNCHANGED <<file, labels, rerank>>

\* What the report is called.
RetrieverName_AsAsked == [rerank |-> rerank, degraded |-> FALSE]
RetrieverName == [rerank |-> rerank, degraded |-> skipped # {}]

\* The labels a slice holds of one candidate, and the grades of what was retrieved: none is 0.
OfSlice(c, slices) == {l \in labels : l.who = c /\ l.slice \in slices}
GradeOf(ls, job) == IF \E l \in ls : l.job = job THEN (CHOOSE l \in ls : l.job = job).grade ELSE 0
RankedGrades(c, ls) == [k \in DOMAIN retrieved[c] |-> GradeOf(ls, retrieved[c][k])]
Relevant(ls) == {l \in ls : l.grade > 0}

Hits(ranked) == Cardinality({k \in DOMAIN ranked : k <= Cutoff /\ ranked[k] > 0})
FirstHit(ranked) == {k \in DOMAIN ranked : k <= Cutoff /\ ranked[k] > 0 /\ \A e \in 1 .. k - 1 : ranked[e] = 0}

\* Gains 2^g - 1, discounted by 1 / log2(rank + 1), in thousandths.
Gain == [g \in 0 .. 2 |-> 2 ^ g - 1]
Discount == <<1000, 631, 500>>
DcgAtK(gains) == SumOf([k \in 1 .. (IF Len(gains) < Cutoff THEN Len(gains) ELSE Cutoff) |-> Gain[gains[k]] * Discount[k]])

Ideal_AsLabelled(ls) == LET s == SetToSeq(ls) IN [k \in DOMAIN s |-> s[k].grade]
Ideal(ls) ==
  LET s == SetToSortSeq(ls, LAMBDA a, b : a.grade > b.grade \/ (a.grade = b.grade /\ a.job < b.job)) IN
  [k \in DOMAIN s |-> s[k].grade]

RankingInit ==
  /\ file \in LabelFiles /\ labels = ParseLabelsJsonl(file) /\ rerank \in BOOLEAN
  /\ retrieved = <<>> /\ skipped = {}
RankingNext == \E c \in Labelled(labels) : RetrieveRanked(c)

-----------------------------------------------------------------------------
(* Properties. *)

\* However many calls are in flight, a pair is asked about once and has one row, and a report
\* holds a row of every pair.
EachPairOnce ==
  /\ \A i \in DOMAIN pairs :
       Cardinality({n \in DOMAIN evalRows : evalRows[n].of = i}) + Cardinality({j \in Slot : inFlight[j] = i}) <= 1
  /\ outcome = "reported" => \A i \in DOMAIN pairs : \E n \in DOMAIN evalRows : evalRows[n].of = i

\* The summary of all rows says what that of the judged ones says, and counts no row twice.
CountsOnly(all, judged) ==
  /\ all.grounded = judged.grounded /\ all.rho = judged.rho
  /\ all.pairs = all.scored + all.degraded + all.errors
  /\ all.grounded.hits <= all.grounded.claims /\ all.grounded.made <= all.scored

\* An outage shrinks the sample and never moves the numbers: those of the rows that came are
\* those of the judged ones alone; and no row is in two counts.
OutagesMoveNothing ==
  /\ CountsOnly(Summarize(evalRows), Summarize(SelectSeq(evalRows, LAMBDA r : ~ r.error /\ ~ r.degraded)))
  /\ \A n \in DOMAIN evalRows : evalRows[n].strict <= evalRows[n].lenient /\ evalRows[n].lenient <= evalRows[n].total

\* A model that never contradicts the human order has no negative correlation, whatever ties
\* either has; and no correlation is beyond one.
TiesContradictNobody ==
  LET sc == ScoredRows(evalRows)
      p == Summarize(evalRows).rho
  IN /\ p.cov * p.cov <= p.vx * p.vy
     /\ (\A a, b \in DOMAIN sc : sc[a].fit > sc[b].fit => Grades(sc)[a] >= Grades(sc)[b]) => p.cov >= 0

JudgementIsHonest == EachPairOnce /\ OutagesMoveNothing /\ TiesContradictNobody

\* No candidate's list is better than the best one there could be; the slices of one tagging
\* share out what was found; and a report is called reranked only if every list was.
RetrievalIsMeasured ==
  /\ \A c \in DOMAIN retrieved :
       LET mine == {l \in labels : l.who = c}
           slices == {l.slice : l \in mine}
           ranked == RankedGrades(c, mine)
       IN /\ Hits(ranked) <= Cardinality(Relevant(mine))
          /\ DcgAtK(ranked) <= DcgAtK(Ideal(mine))
          /\ Hits(ranked) = SumOf([s \in DOMAIN SetToSeq(slices) |-> Hits(RankedGrades(c, OfSlice(c, {SetToSeq(slices)[s]})))])
          /\ Hits(ranked) > 0 <=> FirstHit(ranked) # {}
  /\ \A a, b \in labels : a.who = b.who /\ a.job = b.job => a = b
  /\ labels \subseteq MatchLabel
  /\ RetrieverName.rerank /\ ~ RetrieverName.degraded => skipped = {}
=============================================================================
