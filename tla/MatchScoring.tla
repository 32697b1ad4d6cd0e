------------------------------- MODULE MatchScoring -------------------------------
(***************************************************************************)
(* How one job is scored for one candidate: the capability scorers, the        *)
(* preference scorers, the gate that combines them, the bands, the blend of     *)
(* an external posting, and what the job page says about the numbers.           *)
(*                                                                           *)
(* Pure: a candidate opens a job, and that is all that happens.                *)
(* Weights are in percent and sums exact; Math.round is Round.  A place is a     *)
(* record of codes, a wording is the name of the component that speaks.          *)
(***************************************************************************)
EXTENDS Integers, FiniteSets, FiniteSetsExt, SequencesExt

CONSTANTS
  Candidates,   \* the candidates looked at: see CandidateContext
  Jobs,         \* the jobs: see JobContext
  Cosines       \* similarities of their texts, in percent

VARIABLES
  candidate,  \* CandidateContext
  job,        \* JobContext, or NoJob before one is opened
  cosine      \* cosineSim

scoringVars == <<candidate, job, cosine>>

Unsaid == "unsaid"      \* an absent value
NoPlace == [city |-> Unsaid, province |-> Unsaid, country |-> Unsaid]
NoScore == -1           \* null: not measured
NoAmount == -1          \* an absent salary
NoJob == [place |-> NoPlace, office |-> NoPlace, arrangement |-> Unsaid, type |-> Unsaid, level |-> Unsaid,
          titleRung |-> NoScore, min |-> NoAmount, max |-> NoAmount]

Round(a, b) == (2 * a + b) \div (2 * b)
Clamp(low, x, high) == Max({low, Min({x, high})})

-----------------------------------------------------------------------------
(* Capability. *)

\* The ladder both dimensions measure on; a level it does not know has no rung.
Rung == [l \in {"INTERN", "ENTRY", "MID", "SENIOR", "LEAD", "MANAGER", "DIRECTOR", "C_LEVEL"} |->
          CASE l = "INTERN" -> 0 [] l = "ENTRY" -> 1 [] l = "MID" -> 2 [] l = "SENIOR" -> 3
            [] l \in {"LEAD", "MANAGER"} -> 4 [] l \in {"DIRECTOR", "C_LEVEL"} -> 5]
RungOf(l) == IF l \in DOMAIN Rung THEN Rung[l] ELSE NoScore

\* What the scorers are given: places already resolved, and no statement for an absent one.
Arrangement == {"ON_SITE", "HYBRID", "REMOTE"}
EmploymentType == {"FULL_TIME", "PART_TIME", "CONTRACT", "TEMPORARY", "FREELANCE"}
ResolvedPlace == [city : STRING, province : STRING, country : STRING]
CandidateContext ==
  [place : ResolvedPlace, remoteTypes : SUBSET Arrangement, types : SUBSET EmploymentType, levels : SUBSET DOMAIN Rung,
   floor : Int, ceiling : Int, rows : Nat, listed : Nat]
JobContext ==
  [place : ResolvedPlace, office : ResolvedPlace, arrangement : Arrangement \cup {Unsaid}, type : EmploymentType \cup {Unsaid},
   level : DOMAIN Rung \cup {Unsaid}, titleRung : 0..5 \cup {NoScore}, min : Int, max : Int]

ASSUME ScoringAssumption ==
  Candidates \subseteq CandidateContext /\ Jobs \subseteq JobContext /\ Cosines \subseteq 0..100

\* deriveJobLevel: what the posting says in its field, else what its title suggests.
RequiredLevel(j) == IF RungOf(j.level) # NoScore THEN RungOf(j.level) ELSE j.titleRung

\* experienceCount: the rows of the profile, else what the active resume lists.
Roles(c) == IF c.rows > 0 THEN c.rows ELSE c.listed
CandidateLevel(c) == CASE Roles(c) <= 0 -> 1 [] Roles(c) \in {1, 2} -> 2 [] OTHER -> 3

ScoreExperience(c, j) ==
  LET gap == CandidateLevel(c) - RequiredLevel(j) IN
  CASE RequiredLevel(j) = NoScore -> NoScore
    [] RequiredLevel(j) # NoScore /\ gap = 0  -> 100
    [] RequiredLevel(j) # NoScore /\ gap = 1  -> 85
    [] RequiredLevel(j) # NoScore /\ gap > 1  -> 70
    [] RequiredLevel(j) # NoScore /\ gap = -1 -> 55
    [] RequiredLevel(j) # NoScore /\ gap < -1 -> 25

ScoreSkills(cos) == Clamp(0, cos, 100)

-----------------------------------------------------------------------------
(* Location and salary as the breakdown shows them. *)

AcceptsRemote(c) == c.remoteTypes = {} \/ "REMOTE" \in c.remoteTypes
IsRemoteOnly(c) == c.remoteTypes = {"REMOTE"}

\* The rung of the location ladder, or null when one side names no known place.
ScoreLocation(c, j) ==
  LET known == c.place # NoPlace /\ j.place # NoPlace IN
  CASE j.arrangement = "REMOTE" /\ AcceptsRemote(c) -> 100
    [] ~(j.arrangement = "REMOTE" /\ AcceptsRemote(c)) /\ ~known -> NoScore
    [] ~(j.arrangement = "REMOTE" /\ AcceptsRemote(c)) /\ known ->
         CASE c.place.city = j.place.city -> 100
           [] c.place.country # j.place.country -> 30
           [] OTHER -> IF c.place.province = j.place.province /\ c.place.province # Unsaid THEN 85 ELSE 70

Amount(x, default) == IF x = NoAmount THEN default ELSE x
Unbounded == 10000000
ScoreSalary(c, j) ==
  LET cMin == Amount(c.floor, 0)  cMax == Amount(c.ceiling, Unbounded)
      jMin == Amount(j.min, 0)    jMax == Amount(j.max, Unbounded)
  IN IF {c.floor, c.ceiling} = {NoAmount} \/ {j.min, j.max} = {NoAmount} THEN 50
     ELSE IF jMax >= cMin /\ jMin <= cMax THEN 100
     ELSE IF jMax < cMin THEN Round(70 * jMax, cMin) ELSE 85

-----------------------------------------------------------------------------
(* blendMeasured: what was not measured is dropped and the rest rescaled. *)

\* parts: a set of [value, weight] by name, so that equal values count twice.
Blend(parts) ==
  LET measured == {p \in DOMAIN parts : parts[p].value # NoScore}
      weighted(p) == parts[p].value * parts[p].weight
      weight(p) == parts[p].weight
  IN IF measured = {} THEN NoScore
     ELSE Round(MapThenSumSet(weighted, measured), MapThenSumSet(weight, measured))
Part(value, weight) == [value |-> value, weight |-> weight]

WeightedMatch(b) == Blend([skills |-> Part(b.skills, 40), experience |-> Part(b.experience, 25),
                           location |-> Part(b.location, 15), salary |-> Part(b.salary, 10)])
RoleFit(skills, experience) == Blend([skills |-> Part(skills, 60), experience |-> Part(experience, 40)])

-----------------------------------------------------------------------------
(* Preferences: each component has a score, and may warn or boast. *)

Component(score, says) == [score |-> score, says |-> says]

ScoreArrangement(c, j) ==
  CASE j.arrangement = Unsaid -> Component(70, "nothing")
    [] j.arrangement = "REMOTE" -> Component(100, "highlight")
    [] j.arrangement \notin {Unsaid, "REMOTE"} /\ IsRemoteOnly(c) -> Component(0, "warning")
    [] j.arrangement \notin {Unsaid, "REMOTE"} /\ ~IsRemoteOnly(c) ->
         IF c.place = NoPlace \/ j.place = NoPlace THEN Component(70, "nothing")
         ELSE IF c.place.city = j.place.city THEN Component(100, "highlight")
         ELSE IF c.place.country = j.place.country THEN Component(50, "warning")
         ELSE Component(0, "warning")

ScoreType(c, j) ==
  IF c.types = {} THEN Component(100, "nothing")
  ELSE IF j.type = Unsaid THEN Component(80, "nothing")
  ELSE IF j.type \in c.types THEN Component(100, "highlight") ELSE Component(0, "warning")

\* By distance on the ladder, to the nearest level asked for.
ScoreLevel(c, j) ==
  LET rungs == {RungOf(l) : l \in c.levels} \ {NoScore}
      distance == Min({IF r > RungOf(j.level) THEN r - RungOf(j.level) ELSE RungOf(j.level) - r : r \in rungs})
  IN IF c.levels = {} THEN Component(100, "nothing")
     ELSE IF j.level = Unsaid THEN Component(80, "nothing")
     ELSE IF RungOf(j.level) = NoScore \/ rungs = {}
          THEN IF j.level \in c.levels THEN Component(100, "highlight") ELSE Component(20, "warning")
     ELSE CASE distance = 0 -> Component(100, "highlight")
            [] distance = 1 -> Component(60, "nothing")
            [] distance > 1 -> Component(20, "warning")

\* Only a stated floor can be violated; silence on either side is not a number.
ScoreFloor(c, j) ==
  LET offered == IF j.max # NoAmount THEN j.max ELSE j.min IN
  IF c.floor <= 0 \/ offered = NoAmount THEN Component(NoScore, "nothing")
  ELSE IF offered >= c.floor THEN Component(100, "highlight")
  ELSE IF 100 * offered >= 85 * c.floor THEN Component(60, "warning") ELSE Component(0, "warning")

Preferences(c, j) ==
  [arrangement |-> ScoreArrangement(c, j), type |-> ScoreType(c, j),
   level |-> ScoreLevel(c, j), salary |-> ScoreFloor(c, j)]
PreferenceWeight == [arrangement |-> 35, type |-> 25, level |-> 20, salary |-> 20]

Broken(p) == {n \in DOMAIN p : p[n].score = 0}
Warnings(p) == {n \in DOMAIN p : p[n].says = "warning"}
Highlights(p) == {n \in DOMAIN p : p[n].says = "highlight"}

\* What travels with a score: the conflicts beside the compliments.
MatchFlags(p) == [dealbreaker |-> Broken(p) # {}, warnings |-> Warnings(p), highlights |-> Highlights(p)]
DealbreakerCeiling == 25

PreferenceFit_Average(p) == Blend([n \in DOMAIN p |-> Part(p[n].score, PreferenceWeight[n])])
PreferenceFit(p) ==
  LET average == Blend([n \in DOMAIN p |-> Part(p[n].score, PreferenceWeight[n])])
  IN IF Broken(p) # {} THEN Min({average, DealbreakerCeiling}) ELSE average

-----------------------------------------------------------------------------
(* The composite, its band, and the external posting. *)

\* R * (0.3 + 0.7 * P / 100)
Composite(role, preference) == Round(role * (3000 + 70 * Clamp(0, preference, 100)), 10000)
Band(score) == IF score >= 70 THEN "STRONG" ELSE IF score >= 50 THEN "POSSIBLE" ELSE "WEAK"
MatchBand(score) == IF score >= 57 THEN "STRONG" ELSE IF score >= 51 THEN "POSSIBLE" ELSE "WEAK"

\* 0-100, or NoScore for what was not compared; salary and skills always have a number.
Points == 0..100
SubScores == [skills : Points, experience : Points \cup {NoScore},
              location : Points \cup {NoScore}, salary : Points]
Breakdown(c, j, cos) ==
  [skills |-> ScoreSkills(cos), experience |-> ScoreExperience(c, j),
   location |-> ScoreLocation(c, j), salary |-> ScoreSalary(c, j)]

\* One job on both dimensions, published beside the composite; its line of text is left out.
TwoDimensionalScore(PreferenceName) ==
  [score : Points, role : Points, preference : Points, band : {"STRONG", "POSSIBLE", "WEAK"},
   flags : [dealbreaker : BOOLEAN, warnings : SUBSET PreferenceName, highlights : SUBSET PreferenceName]]

\* computeTwoDimensionalMatch, as the list, the job page and the cache all use it.
Scored(c, j, cos) ==
  LET b == Breakdown(c, j, cos)
      p == Preferences(c, j)
      role == RoleFit(b.skills, b.experience)
      score == Composite(role, PreferenceFit(p))
  IN [score |-> score, role |-> role, preference |-> PreferenceFit(p), band |-> Band(score),
      flags |-> MatchFlags(p)]

\* A stored posting that names no place happens at its company.
StoredContext(p) == [p EXCEPT !.place = IF @ = NoPlace THEN p.office ELSE @]

\* findCompany: of a company known by its name, what its published postings pay.
NoCompany == [known |-> FALSE, min |-> NoAmount, max |-> NoAmount]
CompanyOf(published) ==
  LET stated(n) == {p[n] : p \in published} \ {NoAmount} IN
  [known |-> TRUE, min |-> IF stated("min") = {} THEN NoAmount ELSE Min(stated("min")),
                   max |-> IF stated("max") = {} THEN NoAmount ELSE Max(stated("max"))]

\* A page of another site: a level only in its title, only its own place, its company's salaries.
PageContext_FieldLevel(p, company) ==
  [p EXCEPT !.arrangement = IF @ = Unsaid THEN "ON_SITE" ELSE @, !.titleRung = NoScore,
            !.min = company.min, !.max = company.max]
PageContext(p, company) ==
  [p EXCEPT !.arrangement = IF @ = Unsaid THEN "ON_SITE" ELSE @, !.level = Unsaid,
            !.min = company.min, !.max = company.max]

\* An external vector is short: its cosines are spread from 0.30-0.50 over the scale.
ExternalSkills(cos) == Clamp(0, Round(100 * Max({cos - 30, 0}), 20), 100)
SkillsNotMeasured == 50
\* Measured only with a vector of the profile and an answer of the model for the page.
ExternalBreakdown(c, p, company, cos, semantic) ==
  [Breakdown(c, PageContext(p, company), cos) EXCEPT
     !.skills = IF semantic THEN ExternalSkills(cos) ELSE SkillsNotMeasured]
BlendExternal(b, semantic, companyData) ==
  IF ~semantic THEN NoScore
  ELSE IF companyData THEN WeightedMatch(b)
  ELSE Blend([skills |-> Part(b.skills, 75), location |-> Part(b.location, 15),
              experience |-> Part(b.experience, 10)])

\* explain: the lines of the job page, each for a number of the breakdown.
SaysOfPlace(j, b) ==
  CASE b.location = NoScore -> "nothing"
    [] b.location # NoScore /\ (j.arrangement = "REMOTE" \/ b.location >= 80) -> "matches"
    [] b.location # NoScore /\ j.arrangement # "REMOTE" /\ b.location < 80 -> "outside"
SaysOfPay(j, b) ==
  IF j.min <= 0 /\ j.max <= 0 THEN "nothing" ELSE IF b.salary >= 100 THEN "within" ELSE "below"
SaysOfSkills(b) == CASE b.skills >= 70 -> "strong" [] b.skills \in 45..69 -> "partial" [] b.skills < 45 -> "limited"
Explain(j, b) == [place |-> SaysOfPlace(j, b), pay |-> SaysOfPay(j, b), skills |-> SaysOfSkills(b)]

\* matchForJob, and each pass of scoreJobs.
OpenJob ==
  /\ job = NoJob /\ job' \in Jobs
  /\ UNCHANGED <<candidate, cosine>>

ScoringInit == candidate \in Candidates /\ job = NoJob /\ cosine \in Cosines
ScoringNext == OpenJob
ScoringSpec == ScoringInit /\ [][ScoringNext]_scoringVars

-----------------------------------------------------------------------------
(* Properties. *)

S(c, j, cos) == Scored(c, StoredContext(j), cos)

\* However little a posting or a candidate says, every number published is a percentage or is
\* withheld, and nothing both warns and boasts.
ScoringTypeOK ==
  LET s == S(candidate, job, cosine) IN
  /\ Breakdown(candidate, StoredContext(job), cosine) \in SubScores
  /\ s \in TwoDimensionalScore(DOMAIN PreferenceWeight)
  /\ s.flags.warnings \cap s.flags.highlights = {}

\* The gate is what the rewrite was for: a job that breaks a stated preference outright is
\* WEAK even for a perfect resume, says why, and ranks below the same job kept.
DealbreakersSink ==
  LET s == S(candidate, job, cosine) IN
  s.flags.dealbreaker => s.band = "WEAK" /\ s.flags.warnings # {} /\ s.preference <= DealbreakerCeiling

\* At equal preferences the better qualified still ranks higher, and the composite never
\* exceeds the capability it damps.
CapabilityStillRanks ==
  LET s == S(candidate, job, cosine) IN
  /\ s.score <= s.role
  /\ \A cos \in Cosines : cos >= cosine => S(candidate, job, cos).score >= s.score

\* The fault of the linear sum was that a posting which said less about itself scored higher
\* than one that said it kept a preference.  Saying so must never cost.
KeepingAPreferenceNeverCosts ==
  LET better == {[job EXCEPT !.arrangement = "REMOTE"]}
                \cup {[job EXCEPT !.type = t] : t \in candidate.types}
                \cup IF candidate.floor > 0 THEN {[job EXCEPT !.max = candidate.floor]} ELSE {}
      keeps(j) == PreferenceFit(Preferences(candidate, j))
  IN \A j \in better : keeps(j) >= keeps(job)

\* Asking for one more level, beyond the first, never lowers what a job gets for its level.
MoreLevelsNeverCost ==
  \A l \in candidate.levels :
    candidate.levels # {l} =>
      ScoreLevel([candidate EXCEPT !.levels = @ \ {l}], job).score <= ScoreLevel(candidate, job).score

\* A total is an average of what was measured, between its least and its greatest part,
\* whichever parts are missing; and there is no total without a measured skill.
TotalsAreAverages ==
  \A semantic, companyData \in BOOLEAN :
    LET b == ExternalBreakdown(candidate, job, IF companyData THEN CompanyOf({job}) ELSE NoCompany, cosine, semantic)
        parts == {b[n] : n \in IF companyData THEN DOMAIN b ELSE DOMAIN b \ {"salary"}} \ {NoScore}
        total == BlendExternal(b, semantic, companyData)
    IN (total = NoScore) = ~semantic /\ (semantic => total \in Min(parts)..Max(parts))

\* Distance has no direction, and being nearer is never worse.
NearIsNeverWorse ==
  LET mirrored == ScoreLocation([candidate EXCEPT !.place = job.place], [job EXCEPT !.place = candidate.place])
  IN /\ mirrored = ScoreLocation(candidate, job)
     /\ candidate.place # NoPlace =>
          ScoreLocation(candidate, [job EXCEPT !.place = candidate.place]) >= ScoreLocation(candidate, job)

\* A page that tells what a stored posting tells is scored as that posting is: the same place and
\* title give the same location and experience, and a salary that suits still suits when it is
\* read from all that the company publishes.
PagesScoreAlike ==
  LET stored == Breakdown(candidate, StoredContext(job), cosine)
      page(s) == ExternalBreakdown(candidate, job, CompanyOf(s), cosine, TRUE)
  IN /\ job.place # NoPlace \/ job.office = NoPlace => page({job}).location = stored.location
     /\ RungOf(job.level) = NoScore => page({job}).experience = stored.experience
     /\ NoAmount \notin {job.min, job.max} /\ stored.salary = 100 =>
          \A other \in {[job EXCEPT !.max = NoAmount], [job EXCEPT !.min = 2 * job.max, !.max = 3 * job.max]} :
            page({job, other}).salary = 100

\* The lines of the job page agree with the warnings beside them.  A job in another country is
\* never said to match, one in the candidate's own city never to be outside, nothing is said of a
\* place that was not compared; and of a posting that states its ceiling the pay is called within
\* the range exactly when the floor does not warn about it.
PageAgreesWithItself ==
  LET j == StoredContext(job)
      says == Explain(j, Breakdown(candidate, j, cosine))
      known == candidate.place # NoPlace /\ j.place # NoPlace
      floored == candidate.floor > 0 /\ candidate.ceiling = NoAmount /\ j.max > 0
  IN /\ says.place = "nothing" => ~known
     /\ j.arrangement # "REMOTE" /\ known /\ j.place.country # candidate.place.country => says.place = "outside"
     /\ known /\ j.place.city = candidate.place.city => says.place = "matches"
     /\ floored => (says.pay = "below") = (ScoreFloor(candidate, j).says = "warning")
     /\ says.pay # "nothing" => {j.min, j.max} # {NoAmount}

\* What the scorers promise, together.
ScoresAreHonest ==
  /\ ScoringTypeOK /\ PagesScoreAlike /\ PageAgreesWithItself /\ DealbreakersSink /\ CapabilityStillRanks /\ KeepingAPreferenceNeverCosts
  /\ MoreLevelsNeverCost /\ TotalsAreAverages /\ NearIsNeverWorse

-----------------------------------------------------------------------------
(***************************************************************************)
(* retrieveRankedJobs: three ranked lists of postings, fused by reciprocal     *)
(* rank, perhaps reordered by the reranker, and cut.                            *)
(*                                                                           *)
(* What a list is ranked by (a cosine, a text rank) is abstracted to any order   *)
(* of the postings it admits; the local list is ranked by ScoreLocation.  An      *)
(* answer of the reranker is any order of the postings it was given.              *)
(*                                                                           *)
(* And readiness: why the list of a candidate may be empty.                     *)
(***************************************************************************)

CONSTANTS
  Posting,      \* posting ids: numbers, for the tie-break
  PostingKinds, \* what a posting may be: [published, embedded, matches, arrangement, place]
  Searchers,    \* candidates, with [hasProfile, embedded, status, says] besides
  Pool,         \* RETRIEVAL_POOL, halved for a candidate without a place
  RerankPool,   \* RERANK_POOL
  TopLimit      \* limit

ASSUME RetrievalAssumption ==
  /\ Posting \subseteq Nat /\ IsFiniteSet(Posting)
  /\ Pool \in Nat \ {0} /\ RerankPool \in Nat \ {0} /\ TopLimit \in Nat

VARIABLES
  searcher,  \* the candidate
  posting,   \* the postings
  found      \* the three lists, their fusion and the answer, or Nowhere

retrievalVars == <<searcher, posting, found>>

Nowhere == [made |-> FALSE, dense |-> <<>>, sparse |-> <<>>, local |-> <<>>, fused |-> <<>>, top |-> <<>>,
            measured |-> {}, asked |-> FALSE, skipped |-> FALSE]

-----------------------------------------------------------------------------
(* What each list admits.  Remote-only is a constraint, never an opt-in filter. *)

\* loadCandidate: the words to search by are the headline, and the skills and titles of the active resume.
HasQuery == searcher.says # {}

Passes_DenseOnly(i) == TRUE
Passes(i) == IsRemoteOnly(searcher) => posting[i].arrangement = "REMOTE"

Dense == {i \in Posting : posting[i].published /\ posting[i].embedded /\ searcher.embedded /\ Passes(i)}
Sparse == {i \in Posting : posting[i].published /\ posting[i].matches /\ HasQuery /\ Passes(i)}

LocationFloor == 70
Local ==
  {i \in Posting : /\ posting[i].published /\ searcher.place # NoPlace /\ Passes(i)
                   /\ posting[i].place # NoPlace \/ posting[i].arrangement = "REMOTE"
                   /\ ScoreLocation(searcher, posting[i]) >= LocationFloor}
Nearer(a, b) ==
  \/ ScoreLocation(searcher, posting[a]) > ScoreLocation(searcher, posting[b])
  \/ ScoreLocation(searcher, posting[a]) = ScoreLocation(searcher, posting[b]) /\ a < b

First(s, n) == SubSeq(s, 1, Min({Len(s), n}))
PoolSize == IF searcher.place = NoPlace THEN Max({1, Pool \div 2}) ELSE Pool

-----------------------------------------------------------------------------
(* reciprocalRankFusion: the sum of 1 / (60 + rank), here over Scale. *)

RankIn(s, i) == CHOOSE k \in DOMAIN s : s[k] = i
Scale == 61 * 62 * 63 * 64
Share(s, i) == IF i \in ToSet(s) THEN Scale \div (60 + RankIn(s, i)) ELSE 0
Fuse(dense, sparse, local) ==
  LET score(i) == Share(dense, i) + Share(sparse, i) + Share(local, i)
      ahead(a, b) == score(a) > score(b) \/ (score(a) = score(b) /\ a < b)
  IN SetToSortSeq(ToSet(dense) \cup ToSet(sparse) \cup ToSet(local), ahead)

\* The head of the list in any order, the rest as it was; or skipped: no answer, or nothing to ask.
Skipped(fused) == [order |-> fused, skipped |-> TRUE]
Rerank_DropsTheRest(fused) ==
  {Skipped(fused)} \cup {[order |-> head, skipped |-> FALSE] : head \in SetToSeqs(ToSet(First(fused, RerankPool)))}
Rerank(fused) ==
  {Skipped(fused)} \cup
  IF ~HasQuery \/ fused = <<>> THEN {}
  ELSE {[order |-> head \o SubSeq(fused, RerankPool + 1, Len(fused)), skipped |-> FALSE] :
          head \in SetToSeqs(ToSet(First(fused, RerankPool)))}

\* RetrievalOptions: reranking as the caller or the configuration has it.
AnyOrder(fused, rerank) == IF rerank THEN Rerank(fused) ELSE {[order |-> fused, skipped |-> FALSE]}

\* The similarity of postings another list found, for the scorers.
CosineForJobs(ids) == {i \in ids : posting[i].embedded /\ searcher.embedded}

Retrieve ==
  /\ found = Nowhere
  /\ \E dense \in SetToSeqs(Dense), sparse \in SetToSeqs(Sparse), rerank \in BOOLEAN :
       LET d == First(dense, PoolSize)
           s == First(sparse, PoolSize)
           l == First(SetToSortSeq(Local, Nearer), PoolSize)
           fused == Fuse(d, s, l)
       IN \E o \in AnyOrder(fused, rerank) :
            LET top == First(o.order, TopLimit) IN
            found' = [made |-> TRUE, dense |-> d, sparse |-> s, local |-> l, fused |-> fused, top |-> top,
                      measured |-> ToSet(d) \cup CosineForJobs(ToSet(top) \ ToSet(d)),
                      asked |-> rerank, skipped |-> o.skipped]
  /\ UNCHANGED <<searcher, posting>>

RetrievalInit ==
  /\ searcher \in Searchers /\ posting \in [Posting -> PostingKinds] /\ found = Nowhere
RetrievalNext == Retrieve
RetrievalSpec == RetrievalInit /\ [][RetrievalNext]_retrievalVars

-----------------------------------------------------------------------------
(* getReadiness: a fact about the candidate's row, and one question to the dense list. *)

Unfiltered == {i \in Posting : posting[i].published /\ posting[i].embedded /\ searcher.embedded}
ConstraintImpact_Filtered == [remoteOnly |-> IsRemoteOnly(searcher), kept |-> Cardinality(Dense), without |-> Cardinality(Dense)]
ConstraintImpact ==
  IF ~ IsRemoteOnly(searcher) THEN [remoteOnly |-> FALSE, kept |-> 0, without |-> 0]
  ELSE [remoteOnly |-> TRUE, kept |-> Min({Pool, Cardinality(Dense)}), without |-> Min({Pool, Cardinality(Unfiltered)})]

Readiness ==
  LET filtered == ConstraintImpact.remoteOnly /\ ConstraintImpact.kept = 0 /\ ConstraintImpact.without > 0 IN
  CASE ~searcher.hasProfile -> "NO_PROFILE"
    [] searcher.hasProfile /\ searcher.embedded -> IF filtered THEN "NO_MATCHES_FOR_CONSTRAINTS" ELSE "READY"
    [] searcher.hasProfile /\ ~searcher.embedded ->
         IF searcher.status = "FAILED" THEN "EMBEDDING_FAILED" ELSE "EMBEDDING_PENDING"

-----------------------------------------------------------------------------
(* Properties. *)

Found == ToSet(found.top)
Ahead(s, a, b) == a \in ToSet(s) /\ (b \in ToSet(s) => RankIn(s, a) < RankIn(s, b))

\* Someone who works remotely and only remotely is offered nothing else, by any of the
\* three lists and whatever the opt-in filters are.
RemoteOnlyIsKept == IsRemoteOnly(searcher) => \A i \in Found : posting[i].arrangement = "REMOTE"

\* A posting ranked ahead of another in every list that has either is ahead after fusion.
AgreementWins ==
  \A a, b \in ToSet(found.fused) :
    (a # b /\ \A s \in {found.dense, found.sparse, found.local} : {a, b} \cap ToSet(s) = {} \/ Ahead(s, a, b))
      => RankIn(found.fused, a) < RankIn(found.fused, b)

\* Nothing that a list found is lost by fusion, nothing listed twice, and reranking only
\* reorders the head: a posting further down stays where fusion put it.
NothingFallsOut ==
  /\ IsInjective(found.fused) /\ IsInjective(found.top)
  /\ Len(found.top) = Min({TopLimit, Len(found.fused)})
  /\ \A k \in DOMAIN found.top : k > RerankPool => found.top[k] = found.fused[k]

\* A posting is scored with its similarity whichever list found it, as long as there is one; and a
\* list whose order reranking changed says that it was asked for and not skipped, as a measurement
\* of it will be labelled.
WhatWasDoneIsTold ==
  found.made => /\ Found \cap found.measured = CosineForJobs(Found)
                /\ found.top # First(found.fused, TopLimit) => found.asked /\ ~found.skipped

\* A posting near the candidate is retrieved even when no text of theirs meets: as long as
\* the lists are not cut, every one that scores as near is found.
NearbyIsFound ==
  found.made /\ TopLimit >= Cardinality(Posting) /\ PoolSize >= Cardinality(Posting) => Local \subseteq Found

\* The reason given for an empty list is the reason.  The filter is blamed only on someone who
\* set it, whose vector finds nothing with it and would find something of another arrangement
\* without it; and an empty list of someone whose vector is there is called ready only when no
\* posting has a vector to meet it.
ReasonsAreTrue ==
  /\ Readiness = "NO_MATCHES_FOR_CONSTRAINTS" =>
       /\ IsRemoteOnly(searcher) /\ found.dense = <<>>
       /\ \E i \in Posting : posting[i].published /\ posting[i].embedded /\ posting[i].arrangement # "REMOTE"
  /\ Readiness = "READY" /\ found.made /\ TopLimit > 0 /\ found.top = <<>> =>
       \A i \in Posting : ~(posting[i].published /\ posting[i].embedded)

RetrievalIsFair == ReasonsAreTrue /\ WhatWasDoneIsTold /\ RemoteOnlyIsKept /\ AgreementWins /\ NothingFallsOut /\ NearbyIsFound
===================================================================================
