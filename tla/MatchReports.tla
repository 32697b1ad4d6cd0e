------------------------------- MODULE MatchReports -------------------------------
(***************************************************************************)
(* The match reports of one user: generated from the resume a report is about, *)
(* the profile's vector and the posting, stored, and handed out again while     *)
(* nothing it was made from has changed since.                                *)
(*                                                                           *)
(* Whether it has is decided by time stamps: a report created no earlier than  *)
(* the newest stamp of its inputs is reused.  That comes first, with which      *)
(* versions of its inputs a report was made from; what it says follows.         *)
(***************************************************************************)
EXTENDS MatchScoring, SequencesExt

CONSTANTS
  Advert,       \* postings: (source, externalId, descriptionHash), so an edited text is another
  Resume,       \* the user's resumes: numbers, in the order they were uploaded
  Scan,         \* slots for requests in progress
  LastTick,     \* the last millisecond
  MaxEdits,     \* how many times an input is edited
  MaxScans      \* how many reports are asked for

ASSUME ReportsAssumption ==
  /\ Resume \subseteq Nat \ {0} /\ IsFiniteSet(Resume) /\ LastTick \in Nat \ {0} /\ MaxEdits \in Nat /\ MaxScans \in Nat

VARIABLES
  now,       \* the clock
  resume,    \* rows of Resume, with their parse
  profile,   \* the profile: its stamp, and the versions of its content and of its vector
  builder,   \* PAYLOAD_VERSION of the running build
  report,    \* rows of MatchReport
  scan,      \* requests in progress
  served,    \* history: the last report handed out again, and the inputs at that moment
  edits, scans

inputs == <<resume, profile, edits>>
reportVars == <<now, inputs, builder, report, scan, served, scans>>

NoResume == 0
NotUploaded == [status |-> "absent", default |-> FALSE, at |-> 0, text |-> 0]
NoScan == [pc |-> "idle"]

\* A row of match_reports: what it is found by (posting, builder, at) and, of its payload, which
\* inputs it was made from; chosen and overtaken say how it came about.
MatchReport ==
  [posting : Advert, builder : {1, 2}, at : 1 .. LastTick, resume : Resume \cup {NoResume}, text : 0 .. MaxEdits,
   vector : 0 .. MaxEdits, counted : Resume \cup {NoResume}, chosen : BOOLEAN, overtaken : BOOLEAN]
NotServed == [overtaken |-> TRUE]

Open(g) == scan[g] # NoScan
Goes(g, pc) == scan[g].pc = pc

-----------------------------------------------------------------------------
(* The inputs.  An edit stamps its row: the requests it falls into, and the    *)
(* reports created in the very same millisecond, are overtaken by it.          *)

Overtake ==
  /\ scan' = [g \in Scan |-> IF Open(g) THEN [scan[g] EXCEPT !.overtaken = TRUE] ELSE scan[g]]
  /\ report' = {IF r.at = now THEN [r EXCEPT !.overtaken = TRUE] ELSE r : r \in report}

Edit ==
  /\ edits < MaxEdits /\ edits' = edits + 1
  /\ Overtake
  /\ UNCHANGED <<now, builder, served, scans>>

\* Uploaded, parsed; or unread again, while a parse that was delivered twice runs.
Parse(x) ==
  /\ Edit
  /\ resume[x].status # "deleted"
  /\ resume' = [resume EXCEPT ![x] =
       [resume[x] EXCEPT !.status = IF resume[x].status = "unread" THEN "parsed" ELSE "unread", !.at = now,
                         !.text = IF resume[x].status = "unread" THEN edits + 1 ELSE resume[x].text]]
  /\ UNCHANGED profile

\* The rows of the new default and of the old one, both stamped.
SetDefaultTo(x) ==
  /\ Edit
  /\ resume[x].status \in {"unread", "parsed"} /\ ~resume[x].default
  /\ resume' = [y \in Resume |-> IF y = x THEN [resume[y] EXCEPT !.default = TRUE, !.at = now]
                                 ELSE IF resume[y].default THEN [resume[y] EXCEPT !.default = FALSE, !.at = now]
                                 ELSE resume[y]]
  /\ UNCHANGED profile

\* A deletion stamps deletedAt, which no report looks at.
DeleteResume(x) ==
  /\ Edit
  /\ resume[x].status \in {"unread", "parsed"}
  /\ resume' = [resume EXCEPT ![x].status = "deleted"]
  /\ UNCHANGED profile

EditProfile ==
  /\ Edit
  /\ profile' = [profile EXCEPT !.at = now, !.content = edits + 1, !.stamped = edits + 1]
  /\ UNCHANGED resume

\* Skills, experience, education: rows of their own, that change what is embedded.
EditSection ==
  /\ Edit
  /\ profile' = [profile EXCEPT !.content = edits + 1]
  /\ UNCHANGED resume

\* The listener of both, later: a raw UPDATE, which stamps nothing.
Embed ==
  /\ profile.vector # profile.content
  /\ profile' = [profile EXCEPT !.vector = profile.content]
  /\ UNCHANGED <<now, resume, edits, builder, report, scan, served, scans>>

-----------------------------------------------------------------------------
(* Which resume.  Two rules, of two services. *)

Readable == {x \in Resume : resume[x].status = "parsed"}
Listed == {x \in Resume : resume[x].status \in {"unread", "parsed"}}
Chosen == {x \in Listed : resume[x].default}

\* pickResume: the default if it is read, else the newest that is, else the default.
PickResume ==
  IF Chosen \cap Readable # {} THEN Max(Chosen)
  ELSE IF Readable # {} THEN Max(Readable)
  ELSE IF Chosen # {} THEN Max(Chosen) ELSE NoResume

\* findActiveResumeId: the default if it is read, else the last stamped that is.
ActiveResume ==
  IF Chosen \cap Readable # {} THEN Chosen
  ELSE IF Readable = {} THEN {NoResume}
  ELSE {x \in Readable : \A y \in Readable : resume[y].at <= resume[x].at}

-----------------------------------------------------------------------------
(* generate. *)

Pick(g, p) ==
  /\ ~Open(g) /\ scans < MaxScans
  /\ scans' = scans + 1
  /\ LET x == PickResume IN
     scan' = [scan EXCEPT ![g] =
       [pc |-> "look", posting |-> p, resume |-> x, overtaken |-> FALSE,
        text |-> IF x \in Readable THEN resume[x].text ELSE 0,
        resumeAt |-> IF x = NoResume THEN 0 ELSE resume[x].at,
        chosen |-> x \in Chosen \cap Readable]]
  /\ UNCHANGED <<now, inputs, builder, report, served>>

\* inputsChangedAt, then findReusable: the newest report of this posting and this build
\* that is no older than the newest of the stamps.
InputsChangedAt_OfTheResume(q) == q.resumeAt
InputsChangedAt(q) == Max({q.resumeAt, profile.at})
Reusable(q) == {r \in report : r.posting = q.posting /\ r.builder = builder /\ r.at >= InputsChangedAt(q)}

Look(g) ==
  LET q == scan[g]
      newest == {r \in Reusable(q) : \A s \in Reusable(q) : s.at <= r.at}
  IN /\ Goes(g, "look")
     /\ IF newest = {}
        THEN /\ scan' = [scan EXCEPT ![g] = [pc |-> "parts", posting |-> q.posting, resume |-> q.resume,
                           text |-> q.text, chosen |-> q.chosen, overtaken |-> q.overtaken,
                           todo |-> {"score", "match"}, vector |-> 0, counted |-> NoResume]]
             /\ UNCHANGED served
        ELSE /\ scan' = [scan EXCEPT ![g] = NoScan]
             /\ \E r \in newest :
                  served' = [report |-> r, overtaken |-> q.overtaken, resume |-> q.resume, text |-> q.text,
                             stamped |-> profile.stamped, builder |-> builder,
                             superseded |-> /\ r.resume # NoResume
                                            /\ r.resume \in Readable => r.chosen /\ ~resume[r.resume].default]
     /\ UNCHANGED <<now, inputs, builder, report, scans>>

\* Calls that run together, each of which may fail alone; the third, which extracts the
\* requirements, reads nothing that changes.
Part1(g, name) == Goes(g, "parts") /\ name \in scan[g].todo

\* The scores are saved with the whole row, which stamps the resume.
ScoreIt(g) ==
  LET x == scan[g].resume IN
  /\ Part1(g, "score")
  /\ scan' = [scan EXCEPT ![g].todo = @ \ {"score"}]
  /\ resume' = IF x \in Readable THEN [resume EXCEPT ![x].at = now] ELSE resume
  /\ UNCHANGED <<now, profile, edits, builder, report, served, scans>>

\* A vector that lags behind its profile is as bad as an edit in between.
MatchIt(g) ==
  /\ Part1(g, "match")
  /\ \E x \in ActiveResume :
       scan' = [scan EXCEPT ![g].todo = @ \ {"match"}, ![g].vector = profile.vector, ![g].counted = x,
                            ![g].overtaken = @ \/ profile.vector < profile.stamped]
  /\ UNCHANGED <<now, inputs, builder, report, served, scans>>

\* A part that failed is left out of the report, which is stored and reused all the same.
Create(g) ==
  LET q == scan[g] IN
  /\ Goes(g, "parts") /\ q.todo = {}
  /\ report' = report \cup
       {[posting |-> q.posting, builder |-> builder, at |-> now, resume |-> q.resume, text |-> q.text,
         vector |-> q.vector, counted |-> q.counted, chosen |-> q.chosen, overtaken |-> q.overtaken]}
  /\ scan' = [scan EXCEPT ![g] = NoScan]
  /\ UNCHANGED <<now, inputs, builder, served, scans>>

-----------------------------------------------------------------------------
(* A new build of the builder: the process restarts, and its requests are lost. *)
Deploy ==
  /\ builder = 1 /\ builder' = 2
  /\ scan' = [g \in Scan |-> NoScan]
  /\ UNCHANGED <<now, inputs, report, served, scans>>

Elapse ==
  /\ now < LastTick
  /\ now' = now + 1
  /\ UNCHANGED <<inputs, builder, report, scan, served, scans>>

\* A user with one resume, read, which the first one uploaded makes the default.
ReportsInit ==
  /\ now = 1
  /\ resume = [x \in Resume |-> IF x = Min(Resume) THEN [status |-> "parsed", default |-> TRUE, at |-> 1, text |-> 0]
                                ELSE NotUploaded]
  /\ profile = [at |-> 1, content |-> 0, stamped |-> 0, vector |-> 0]
  /\ builder = 1 /\ report = {} /\ scan = [g \in Scan |-> NoScan] /\ served = NotServed
  /\ edits = 0 /\ scans = 0

ReportsNext ==
  \/ \E x \in Resume : Parse(x) \/ SetDefaultTo(x) \/ DeleteResume(x)
  \/ EditProfile \/ EditSection \/ Embed
  \/ \E g \in Scan : \/ \E p \in Advert : Pick(g, p)
                     \/ Look(g) \/ ScoreIt(g) \/ MatchIt(g) \/ Create(g)
  \/ Deploy \/ Elapse

ReportsSpec == ReportsInit /\ [][ReportsNext]_reportVars

-----------------------------------------------------------------------------
(* Properties. *)

\* A report that is handed out again is still about the resume the user would be judged by,
\* as it reads now, and about the profile as last saved.  Three things excuse one that is
\* not: an input edited while the report was being made, or with its vector still to come;
\* an edit that fell into the request itself; a resume deleted, being parsed again or no longer the
\* default since, so that an older one, stamped before the report, takes its place.
ReusedReportsAreCurrent ==
  ~served.overtaken /\ ~served.report.overtaken =>
    /\ served.report.vector >= served.stamped
    /\ served.report.builder = served.builder
    /\ \/ served.report.resume = served.resume /\ served.report.text = served.text
       \/ served.superseded

\* With a default that could be read the two rules agree: no report mixes two resumes.
ReportsSpeakOfOneResume ==
  \A r \in report : r \in MatchReport /\ (r.chosen /\ ~r.overtaken => r.counted = r.resume)

-----------------------------------------------------------------------------
(***************************************************************************)
(* What a match report says: the years of experience a posting asks for        *)
(* against the dates of the resume, the degrees and languages it insists on,    *)
(* the skills it names against what the resume evidences, and the total.        *)
(*                                                                           *)
(* Pure: one posting, one resume, one payload.  A text is a sequence of words,   *)
(* a sentence a record of what the patterns find in it, a date a month; Blend    *)
(* and the scorers are those of MatchScoring.                                  *)
(***************************************************************************)

CONSTANTS
  Notices,   \* postings: see Payload for what is read of one
  Resumes    \* users, by the parse of their resume, or with one that is not parsed

VARIABLES notice, cv, payload
readingVars == <<notice, cv, payload>>

NoPayload == [state |-> "none"]
Generic == {"experience"}     \* words too common to be evidence

-----------------------------------------------------------------------------
(* Years: months are counted, and compared in tenths of a year. *)

\* The highest bar in a text: near a requirement word, and neither an age nor withdrawn.
YearsRequired(mentions) ==
  LET bars == {m.years : m \in {n \in mentions : n.years \in 1..40 /\ n.near /\ ~n.age /\ ~n.negated}}
  IN IF bars = {} THEN NoScore ELSE Max(bars)

\* The number the site publishes wins over any text.
Bar(n) == IF n.months > 0 THEN Round(10 * n.months, 12)
          ELSE IF YearsRequired(n.mentions) = NoScore THEN NoScore ELSE 10 * YearsRequired(n.mentions)

\* Overlapping entries once: sorted by their start, and merged while they touch.
Earlier(s, t) == s.from < t.from \/ (s.from = t.from /\ s.to < t.to)
Merge_Summed(acc, s) == [acc EXCEPT !.total = @ + s.to - s.from]
Merge(acc, s) ==
  IF acc.open /\ s.from <= acc.to THEN [acc EXCEPT !.to = Max({acc.to, s.to})]
  ELSE [open |-> TRUE, from |-> s.from, to |-> s.to,
        total |-> acc.total + IF acc.open THEN acc.to - acc.from ELSE 0]
Dated(jobs) == {s \in jobs : s.from # NoScore /\ s.to > s.from}
MonthsWorked(jobs) ==
  LET merged == FoldLeft(Merge, [open |-> FALSE, from |-> 0, to |-> 0, total |-> 0],
                         SetToSortSeq(Dated(jobs), Earlier))
  IN merged.total + merged.to - merged.from
Experience(jobs) == IF Dated(jobs) = {} THEN NoScore ELSE Round(10 * MonthsWorked(jobs), 12)

ScoreYears(has, asked) == IF asked <= 0 THEN 100 ELSE Clamp(0, Round(100 * has, asked), 100)

BarVerdict == {"met", "unmet", "unknown"}

\* Which question the experience row answers: a bar that was stated, or how long the resume is.
ReportExperience(n, c) ==
  LET has == IF c.parsed THEN Experience(c.jobs) ELSE NoScore
      known == Bar(n) # NoScore /\ has # NoScore
  IN [basis |-> IF known THEN "REQUIREMENT" ELSE "CV_DEPTH", asked |-> Bar(n), has |-> has,
      met |-> IF ~known THEN "unknown" ELSE IF has >= Bar(n) THEN "met" ELSE "unmet",
      statedIn |-> IF Bar(n) = NoScore THEN "nowhere" ELSE IF n.months > 0 THEN "posting-data" ELSE "posting-text"]

\* The blend is the scorers' own, so that the total is the total of the rows under it.  There is
\* none without a profile to match.
NoRate == [total |-> NoScore]
MatchRate(n, c) ==
  LET e == ReportExperience(n, c)
      rows == IF e.basis = "REQUIREMENT" THEN [n.scores EXCEPT !.experience = ScoreYears(e.has, e.asked)] ELSE n.scores
  IN IF ~c.profiled THEN NoRate
     ELSE [experience |-> e, rows |-> rows, semantic |-> n.semantic, total |-> BlendExternal(rows, n.semantic, n.companyData)]

-----------------------------------------------------------------------------
(* Degrees and languages: stated, and neither withdrawn nor merely wished for. *)

Stated(n) ==
  UNION {s.degrees \cup (IF s.proficiency THEN s.languages ELSE {}) :
           s \in {t \in n.sentences : ~t.negated /\ ~t.hedged}}

Evidences(c) == c.parsed /\ (c.text # {} \/ c.educations # {} \/ c.skills # {})
Met(c, label) ==
  IF ~Evidences(c) THEN "unknown"
  ELSE IF label = "degree" THEN IF c.educations # {} \/ "degree" \in c.text THEN "met" ELSE "unmet"
  ELSE IF label \in c.text \/ \E s \in c.skills : label \in ToSet(s) THEN "met" ELSE "unmet"

-----------------------------------------------------------------------------
(* Skills. *)

Words(text) == ToSet(text) \ Generic

\* Words that recur in the requirements are the job's subject, and tell none from another.
ThemeWords_None(reqs) == {}
ThemeWords(reqs) ==
  LET saying(w) == Cardinality({t \in reqs : w \in Words(t)})
  IN {w \in UNION {Words(t) : t \in reqs} : saying(w) >= 2 /\ 10 * saying(w) >= 4 * Cardinality(reqs)}

Exactly(text, skill) == \E i \in 1..(Len(text) - Len(skill) + 1) : SubSeq(text, i, i + Len(skill) - 1) = skill
Partially(text, skill, themes) == Len(skill) > 1 /\ (Words(skill) \ themes) \cap ToSet(text) # {}

\* The skills that evidence a requirement: those it names, else those it names in part.  A name of
\* one letter is no evidence of anything.
TooShort == {<<"r">>}
LongEnough(skills) == skills \ TooShort
Matched(text, skills, themes) ==
  LET exact == {s \in LongEnough(skills) : Exactly(text, s)} IN
  IF exact # {} THEN exact ELSE {s \in LongEnough(skills) : Partially(text, s, themes)}

MatchQuality == {"EXACT", "PARTIAL"}
Quality(text, skills, themes) ==
  IF Matched(text, skills, themes) = {} THEN "none"
  ELSE IF \E x \in LongEnough(skills) : Exactly(text, x) THEN "EXACT" ELSE "PARTIAL"

\* How often its most repeated word of its own occurs in the posting.
Emphasis(n, text, themes) == Max({1} \cup {n.occurrences[w] : w \in Words(text) \ themes})

\* Requirements that quote, or are quoted by, a degree or a language listed already.
Flagged(n) == IF Stated(n) = {} THEN {} ELSE n.quoted

\* Withheld for a script the matcher cannot read, and when nothing was extracted.
SkillsTable(n, c) ==
  LET skills == IF c.parsed THEN c.skills ELSE {}
      themes == ThemeWords(n.requirements)
      hard == {[row |-> t, shown |-> Matched(t, skills, themes) # {}, optional |-> "preferred" \in ToSet(t),
                by |-> Matched(t, skills, themes), quality |-> Quality(t, skills, themes),
                count |-> Emphasis(n, t, themes)] : t \in n.requirements \ Flagged(n)}
      soft == {[row |-> <<l>>, shown |-> c.parsed /\ l \in c.text, optional |-> FALSE, by |-> {}, quality |-> "none",
                count |-> 1] : l \in n.soft}
      counted == {r \in hard \cup soft : ~r.optional}
  IN IF n.khmer THEN [state |-> "LANGUAGE_UNSUPPORTED"]
     ELSE IF ~n.extracted THEN [state |-> "AI_UNAVAILABLE"]
     ELSE [state |-> "available", rows |-> hard \cup soft,
           matched |-> Cardinality({r \in counted : r.shown}), missing |-> Cardinality({r \in counted : ~r.shown})]

\* analyse, for the job page and screening.  Which resume: the one that was submitted, where the
\* caller names it, and never the active one in its stead.
NoneNamed == [parsed |-> FALSE, skills |-> {}]
EvidenceOf(c) == IF c.parsed THEN c.skills ELSE {}
Considered_Substituted(named, active) == EvidenceOf(IF named.parsed THEN named ELSE active)
Considered(named, active) == EvidenceOf(IF named # NoneNamed THEN named ELSE active)

\* The employer's words before the model's; an empty comparison says which side was empty.
Cleaned(texts) == texts \ {<<>>}
Analyse(employer, extracted, considered) ==
  LET source == IF Cleaned(employer) # {} THEN "EMPLOYER" ELSE IF Cleaned(extracted) # {} THEN "AI_EXTRACTED" ELSE "NONE"
      reqs == IF source = "EMPLOYER" THEN Cleaned(employer) ELSE Cleaned(extracted)
      by(t) == Matched(t, considered, ThemeWords(reqs))
      rows == {[text |-> t, matchedSkills |-> by(t), matchQuality |-> Quality(t, considered, ThemeWords(reqs))] : t \in reqs}
  IN [status |-> IF reqs = {} THEN "JOB_HAS_NO_REQUIREMENTS" ELSE IF LongEnough(considered) = {} THEN "NO_PARSED_RESUME" ELSE "OK",
      requirementsSource |-> source, requirements |-> rows,
      missing |-> {x.text : x \in {y \in rows : y.matchedSkills = {}}},
      matchedCount |-> Cardinality({x \in rows : x.matchedSkills # {}}), skillsConsidered |-> LongEnough(considered)]

SkillGapStatus == {"OK", "JOB_HAS_NO_REQUIREMENTS", "NO_PARSED_RESUME"}
RequirementsSource == {"EMPLOYER", "AI_EXTRACTED", "NONE"}
RequirementMatch == [text : Seq(STRING), matchedSkills : SUBSET Seq(STRING), matchQuality : MatchQuality \cup {"none"}]
SkillGapResult ==
  [status : SkillGapStatus, requirementsSource : RequirementsSource, requirements : SUBSET RequirementMatch,
   missing : SUBSET Seq(STRING), matchedCount : Nat, skillsConsidered : SUBSET Seq(STRING)]

\* The role words of a headline: without its bracketed asides and the words that advertise, unless
\* nothing is left.  (A segment of such words alone goes first, and would go with its words.)
Decoration == {"remote", "urgent", "hiring"}
Filler == {"and", "the", "for"}
CoreTitle(title) ==
  LET all == FlattenSeq(title.segments)
      role == SelectSeq(all, LAMBDA w : w \notin Decoration)
  IN IF role = <<>> THEN all \o title.aside ELSE role

\* The share of those words in the resume, and the sections a reader looks for.
CheckStatus == {"pass", "warn", "fail"}
TitleCheck(title, c) ==
  LET words == SelectSeq(CoreTitle(title), LAMBDA w : w \notin Filler)
      present == SelectSeq(words, LAMBDA w : w \in c.text)
  IN IF words = <<>> \/ c.text = {} THEN "warn"
     ELSE IF 10 * Len(present) >= 6 * Len(words) THEN "pass"
     ELSE IF present # <<>> THEN "warn" ELSE "fail"
SectionCheck(rows) == IF rows # {} THEN "pass" ELSE "fail"
Checks(n, c) ==
  [contact |-> CASE Cardinality(c.contact) = 2 -> "pass" [] Cardinality(c.contact) = 1 -> "warn" [] OTHER -> "fail",
   experience |-> SectionCheck(c.jobs), education |-> SectionCheck(c.educations), skills |-> SectionCheck(c.skills),
   summary |-> IF c.summary THEN "pass" ELSE "warn", title |-> TitleCheck(n.title, c),
   length |-> IF c.length \in 1500..6000 THEN "pass" ELSE "warn"]

-----------------------------------------------------------------------------
(* The payload: a published contract, each part of which may be missing. *)

NoChecks == [title |-> "none"]
ReportMatchRate ==
  [total : Points \cup {NoScore}, rows : SubScores, semantic : BOOLEAN,
   experience : [basis : {"REQUIREMENT", "CV_DEPTH"}, asked : Int, has : Int, met : BarVerdict,
                 statedIn : {"posting-data", "posting-text", "nowhere"}]]
ReportSkill ==
  [row : Seq(STRING), shown : BOOLEAN, optional : BOOLEAN, by : SUBSET Seq(STRING),
   quality : MatchQuality \cup {"none"}, count : Nat]
ReportSkills ==
  [state : {"AI_UNAVAILABLE", "LANGUAGE_UNSUPPORTED"}]
  \cup [state : {"available"}, rows : SUBSET ReportSkill, matched : Nat, missing : Nat]
ReportSearchability ==
  [{"contact", "experience", "education", "skills", "summary", "title", "length"} -> CheckStatus]
MatchReportPayload ==
  [state : {"made"}, needsResume : BOOLEAN, matchRate : {NoRate} \cup ReportMatchRate,
   hardRequirements : [Stated(notice) -> BarVerdict], skills : ReportSkills,
   searchability : {NoChecks} \cup ReportSearchability]

Payload(n, c) ==
  [state |-> "made", needsResume |-> ~c.parsed, matchRate |-> MatchRate(n, c),
   hardRequirements |-> [l \in Stated(n) |-> Met(c, l)], skills |-> SkillsTable(n, c),
   searchability |-> IF c.parsed THEN Checks(n, c) ELSE NoChecks]

MakeReport ==
  /\ payload = NoPayload
  /\ payload' = Payload(notice, cv)
  /\ UNCHANGED <<notice, cv>>

ReadingInit == notice \in Notices /\ cv \in Resumes /\ payload = NoPayload
ReadingNext == MakeReport
ReadingSpec == ReadingInit /\ [][ReadingNext]_readingVars

-----------------------------------------------------------------------------
(* Properties. *)

Made == payload # NoPayload

\* The years of a resume are the months it covers, each once, however its entries overlap,
\* contain or touch each other.
MonthsCountOnce ==
  MonthsWorked(cv.jobs) = Cardinality(UNION {s.from..(s.to - 1) : s \in Dated(cv.jobs)})

\* The resume c, which holds all the present one does, is reported no worse: more is its payload.
ReportedNoWorse(c, more) ==
  /\ \A l \in Stated(notice) : payload.hardRequirements[l] = "met" => more.hardRequirements[l] = "met"
  /\ payload.skills.state = "available" => more.skills.matched >= payload.skills.matched
  /\ cv.profiled /\ c.profiled /\ payload.matchRate.experience.basis = "REQUIREMENT" => more.matchRate.total >= payload.matchRate.total
  /\ Analyse({}, notice.requirements, c.skills).missing \subseteq Analyse({}, notice.requirements, cv.skills).missing

\* A line more in a resume never costs a candidate: not a requirement that was met, not a
\* row of the skills table, and not, where a bar is stated and the resume was dated before,
\* a point of the total.
MoreEvidenceNeverHurts ==
  \A c \in Resumes :
    Made /\ cv.parsed /\ c.parsed /\ cv.jobs \subseteq c.jobs /\ cv.skills \subseteq c.skills
         /\ cv.educations \subseteq c.educations /\ cv.text \subseteq c.text => ReportedNoWorse(c, Payload(notice, c))

\* The words that most of the requirements share.
Common(reqs) ==
  {w \in UNION {ToSet(t) : t \in reqs} :
     Cardinality({t \in reqs : w \in ToSet(t)}) >= 2 /\ 2 * Cardinality({t \in reqs : w \in ToSet(t)}) > Cardinality(reqs)}

\* What could not be read is never reported as missing from the resume, a bar mentioned
\* only to be withdrawn or as an age is none, and a subject all requirements share counts
\* for none of them.
SilenceIsNotAbsence ==
  /\ Made /\ ~Evidences(cv) => \A l \in Stated(notice) : payload.hardRequirements[l] = "unknown"
  /\ (\A m \in notice.mentions : m.negated \/ m.age) /\ notice.months <= 0 => Bar(notice) = NoScore
  /\ \A t \in notice.requirements, w \in Common(notice.requirements) :
       Matched(t, {<<w, "experience">>}, ThemeWords(notice.requirements)) # {} => Exactly(t, <<w, "experience">>)

\* The total shown lies between the rows shown under it, and there is none that was not measured.
TheReportAddsUp ==
  Made /\ cv.profiled =>
    LET m == payload.matchRate
        rows == {m.rows[k] : k \in IF notice.companyData THEN DOMAIN m.rows ELSE DOMAIN m.rows \ {"salary"}}
    IN IF notice.semantic THEN m.total \in Min(rows \ {NoScore})..Max(rows) ELSE m.total = NoScore

\* Words that advertise the posting, in its title or beside it, change no verdict about a resume.
AdvertisingIsIgnored ==
  \A noise \in {<<"urgent", "hiring">>, <<"remote">>} :
    LET decorated == [segments |-> notice.title.segments \o <<noise>>, aside |-> noise]
        role == SelectSeq(FlattenSeq(notice.title.segments), LAMBDA w : w \notin Decoration)
    IN role # <<>> => TitleCheck(decorated, cv) = TitleCheck(notice.title, cv)

\* What the page is promised.  A part is missing exactly when there was nothing to make it from; a
\* bar is said to be met exactly when both sides are known, and the row for it agrees, up to the
\* rounding of a bar of twenty years; every row that counts is counted once; and a match that may
\* be overruled names the skills it rests on.
PayloadKeepsItsContract ==
  Made =>
    LET e == payload.matchRate.experience
        skills == payload.skills
    IN /\ payload \in MatchReportPayload
       /\ (payload.searchability = NoChecks) = payload.needsResume
       /\ cv.profiled =>
            /\ (e.met = "unknown") = (e.basis = "CV_DEPTH")
            /\ e.met = "met" => payload.matchRate.rows.experience = 100
            /\ e.met = "unmet" /\ e.asked < 200 => payload.matchRate.rows.experience < 100
       /\ skills.state = "available" =>
            /\ skills.matched + skills.missing = Cardinality({x \in skills.rows : ~x.optional})
            /\ \A x \in skills.rows : x.quality # "none" => x.shown /\ x.by # {} /\ x.by \subseteq cv.skills

\* The job page and the report are two readings of one resume and do not disagree: a row the
\* report counts as evidenced is missing from no gap list, nor the reverse, and what the employer
\* wrote silences the model.  Every requirement is listed, covered or missing; an empty list of gaps
\* comes with a status that says whether it is good news; and a resume that was submitted is judged
\* alike whichever one is active now, even when nothing could be read out of it.
GapAndReportAgree ==
  /\ \A active \in Resumes : Considered(cv, active) = EvidenceOf(cv)
  /\ \A employer \in {{}, {<<>>}, {<<"degree">>, <<"welding">>}} :
    LET g == Analyse(employer, notice.requirements, Considered(cv, cv))
        rows == payload.skills.rows
    IN /\ g \in SkillGapResult /\ (g.status = "OK") = (g.requirements # {} /\ g.skillsConsidered # {})
       /\ Cardinality(g.requirements) = g.matchedCount + Cardinality(g.missing)
       /\ g.requirementsSource = "EMPLOYER" => {x.text : x \in g.requirements} \subseteq employer
       /\ Cleaned(employer) # {} <=> g.requirementsSource = "EMPLOYER"
       /\ \A x \in g.requirements : x.matchedSkills \subseteq g.skillsConsidered
       /\ Made /\ payload.skills.state = "available" /\ g.requirementsSource = "AI_EXTRACTED" =>
            \A r \in rows : r.row \in notice.requirements => r.shown = (r.row \notin g.missing)

ReportsReadFairly ==
  /\ GapAndReportAgree /\ PayloadKeepsItsContract /\ AdvertisingIsIgnored /\ MonthsCountOnce /\ MoreEvidenceNeverHurts
  /\ SilenceIsNotAbsence /\ TheReportAddsUp
===================================================================================
