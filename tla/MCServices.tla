-------------------------------- MODULE MCServices --------------------------------
(***************************************************************************)
(* Small instances of the services for TLC.  x1 and x2 are requests in         *)
(* progress, of whichever part.                                              *)
(***************************************************************************)
EXTENDS Services

CONSTANTS x1, x2, s1, c1

Two == {x1, x2}
Symmetry == Permutations(Two)

-----------------------------------------------------------------------------
(* Candidates and jobs at every rung of the ladders. *)

P(city, province, country) == [city |-> city, province |-> province, country |-> country]
pp == P("pp", "pp", "kh")   sr == P("sr", "sr", "kh")   bk == P("bk", Unsaid, "th")

MCCandidates == [place: {NoPlace, pp}, remoteTypes: {{}, {"REMOTE"}}, types: {{}, {"CONTRACT"}},
                 levels: {{}, {"MID", "LEAD"}}, floor: {NoAmount, 100}, ceiling: {NoAmount}, rows: {0}, listed: {1}]
MCJobs == [place: {NoPlace, pp, bk}, office: {NoPlace}, arrangement: {Unsaid, "REMOTE", "ON_SITE"},
           type: {Unsaid, "CONTRACT", "FULL_TIME"}, level: {Unsaid, "INTERN", "LEAD"}, titleRung: {3},
           min: {NoAmount}, max: {NoAmount, 90}]
          \cup [place: {NoPlace, pp}, office: {NoPlace, sr}, arrangement: {Unsaid, "ON_SITE"}, type: {Unsaid},
                level: {Unsaid, "SENIOR"}, titleRung: {NoScore, 0}, min: {NoAmount, 80}, max: {NoAmount, 80, 120}]

-----------------------------------------------------------------------------
(* Postings of every kind, and who looks for them. *)

Kind(published, embedded, matches, arrangement, place) ==
  [published |-> published, embedded |-> embedded, matches |-> matches, arrangement |-> arrangement, place |-> place]
MCPostingKinds == {Kind(TRUE, TRUE, FALSE, "ON_SITE", bk), Kind(TRUE, TRUE, TRUE, "REMOTE", NoPlace),
                   Kind(TRUE, FALSE, FALSE, "ON_SITE", pp), Kind(TRUE, TRUE, TRUE, "ON_SITE", sr),
                   Kind(FALSE, TRUE, TRUE, "REMOTE", pp)}
MCSearchers == [place: {NoPlace, pp}, remoteTypes: {{}, {"REMOTE"}, {"ON_SITE"}}, hasProfile: {TRUE}, embedded: {TRUE},
                status: {"SUCCESS"}, says: {{}, {"headline"}}]
               \cup [place: {pp}, remoteTypes: {{"REMOTE"}}, hasProfile: {TRUE}, embedded: {FALSE}, status: {"PENDING", "FAILED"},
                     says: {{"headline"}}]
               \cup [place: {NoPlace}, remoteTypes: {{}}, hasProfile: {FALSE}, embedded: {FALSE}, status: {Unsaid}, says: {{"skills"}}]

-----------------------------------------------------------------------------
(* Postings and resumes for a report to read. *)

Mention(years, near, age, negated) == [years |-> years, near |-> near, age |-> age, negated |-> negated]
Sentence(degrees, languages, hedged) ==
  [degrees |-> degrees, languages |-> languages, proficiency |-> TRUE, negated |-> FALSE, hedged |-> hedged]
Headline(segments, aside) == [segments |-> segments, aside |-> aside]
Entry(from, to) == [from |-> from, to |-> to]
Twice == [w \in {"welding", "rigs", "degree", "project", "management", "preferred"} |-> 2]

MCNotices ==
  [mentions: {{Mention(2, TRUE, FALSE, FALSE), Mention(1, TRUE, FALSE, FALSE)},
              {Mention(20, TRUE, FALSE, FALSE)}, {Mention(30, TRUE, TRUE, FALSE), Mention(3, TRUE, FALSE, TRUE)}},
   months: {0, 18}, sentences: {{Sentence({"degree"}, {}, FALSE), Sentence({}, {"english"}, FALSE), Sentence({}, {"thai"}, TRUE)}},
   requirements: {{<<"welding", "rigs">>, <<"welding", "degree">>, <<"project", "management", "preferred">>}},
   quoted: {{<<"welding", "degree">>}}, khmer: {FALSE}, extracted: {TRUE}, soft: {{"teamwork"}}, occurrences: {Twice},
   title: {Headline(<<<<"senior", "welding">>, <<"remote", "rigs">>>>, <<"urgent">>)}, semantic: {TRUE}, companyData: {TRUE},
   scores: {[skills |-> 80, experience |-> 55, location |-> NoScore, salary |-> 100]}]
  \cup
  [mentions: {{}}, months: {18}, sentences: {{}}, requirements: {{<<"welding", "rigs">>}}, quoted: {{}}, khmer: BOOLEAN,
   extracted: BOOLEAN, soft: {{}}, occurrences: {Twice}, title: {Headline(<<<<"hiring">>, <<"and">>>>, <<>>)}, semantic: BOOLEAN, companyData: {FALSE},
   scores: {[skills |-> 50, experience |-> NoScore, location |-> 30, salary |-> 50]}]
MCResumes ==
  [parsed: {TRUE}, profiled: {TRUE}, jobs: {{}, {Entry(0, 12)}, {Entry(0, 12), Entry(6, 18), Entry(18, 24)}, {Entry(0, 24), Entry(6, 12), Entry(30, 32)}},
   skills: {{}, {<<"r">>, <<"welding", "techniques">>}, {<<"r">>, <<"welding", "techniques">>, <<"project", "management">>, <<"english">>}},
   educations: {{}, {"school"}}, text: {{}, {"teamwork", "welding"}}, contact: {{"email"}}, summary: {TRUE}, length: {1500}]
  \cup [parsed: {TRUE}, profiled: BOOLEAN, jobs: {{Entry(0, 239)}}, skills: {{}}, educations: {{}}, text: {{"rigs"}},
        contact: {{}, {"email", "phone"}}, summary: {FALSE}, length: {1499, 6001}]
  \cup [parsed: {FALSE}, profiled: BOOLEAN, jobs: {{}}, skills: {{}}, educations: {{}}, text: {{}}, contact: {{}}, summary: {FALSE}, length: {0}]

-----------------------------------------------------------------------------
(* What boards state of a posting, and companies as people and boards write them. *)

Text(titled, employer, body, terms) == [titled |-> titled, employer |-> employer, body |-> body, terms |-> terms]
MCTexts == {Text(TRUE, "acme", "v1", "500"), Text(TRUE, "acme", "v2", Unstated), Text(TRUE, Unstated, "v1", Unstated)}

Name(words, style) == [words |-> words, style |-> style]
MCNames == {Name("acme", "plain"), Name("acme", "dotted")}
MCSites == {NoSite, [host |-> "acme.kh", decor |-> "www"]}
MCContacts == {[host |-> "acme.kh", public |-> FALSE], [host |-> "gmail.com", public |-> TRUE]}

\* Each employer has a company of its own.
MCHirerFirm == [u \in {1, 2} |-> u]

\* Every error has one cause.
MCCause == [e \in Two |-> c1]
-----------------------------------------------------------------------------
(* An employer with a job, one with none; two resumes of one candidate, none of the other. *)

MCRecruiterOf == [v \in {5} |-> 3]
MCPaperOf == [p \in {7, 8} |-> 1]

\* An application of one of two accounts.
MCGenerated == {[questions |-> q, feedback |-> f, failed |-> FALSE] : f \in BOOLEAN,
                 q \in {<<>>, <<"a", "b", "c">>, <<"a", "a", "b", "c", "c", "d", "e">>}}
MCLetterOf == [l \in {1} |-> 1]

-----------------------------------------------------------------------------
(* Labelled pairs and what a model may answer; files of labels, one with a line that corrects *)
(* another, one with a line that does not read.                                             *)

Pair(who, grade, known) == [who |-> who, grade |-> grade, known |-> known, hasText |-> TRUE]
MCLabelLists == {<<>>, <<Pair(1, 2, TRUE), Pair(1, 0, TRUE), Pair(2, 2, TRUE), Pair(2, 1, TRUE), Pair(1, 1, TRUE)>>,
                 <<Pair(1, 0, TRUE), Pair(1, 1, FALSE), Pair(2, 0, TRUE)>>}

Quote(verbatim, words, hits, blank) == [verbatim |-> verbatim, words |-> words, hits |-> hits, blank |-> blank]
MCModelAnswers == {[fit |-> 3, degraded |-> FALSE, quotes |-> <<Quote(TRUE, 4, 4, FALSE), Quote(FALSE, 5, 4, FALSE)>>],
                   [fit |-> 1, degraded |-> FALSE, quotes |-> <<Quote(FALSE, 5, 1, FALSE), Quote(FALSE, 0, 0, TRUE)>>],
                   [fit |-> 1, degraded |-> TRUE, quotes |-> <<Quote(TRUE, 1, 1, FALSE)>>]}

LabelLine(who, at, grade, slice) == [who |-> who, job |-> at, grade |-> grade, slice |-> slice]
MCLabelFiles == {<<LabelLine(1, 1, 0, 1), LabelLine(1, 2, 1, 1), Garbled, LabelLine(1, 3, 2, 2), LabelLine(2, 1, 2, 1), LabelLine(1, 1, 2, 1)>>,
                 <<LabelLine(1, 1, 0, 1), LabelLine(1, 2, 1, 2)>>}

-----------------------------------------------------------------------------
(* Pages of three items, among them one with two columns, one that slopes and one with a blank; *)
(* entries with labels; and what a parse may hold.                                             *)

Item(x, y, h, blank) == [x |-> x, y |-> y, h |-> h, w |-> 3, blank |-> blank]
MCSheets == {<<Item(a, b, 4, FALSE), Item(0, c, 4, FALSE), Item(9, d, 4, FALSE)>> : a \in {0, 12}, b, c, d \in {0, 2, 3, 4}}
            \cup {<<Item(0, 4, 9, TRUE), Item(5, 4, 9, FALSE)>>, <<>>}

SkillPart(tagged, named) == [labels |-> tagged, name |-> named]
MCSkillLists == {<<>>, <<<<SkillPart(1, "c"), SkillPart(0, "git")>>, <<SkillPart(0, "git")>>>>,
                 <<<<SkillPart(0, "c"), SkillPart(1, "git")>>, <<SkillPart(0, "git")>>>>, <<<<SkillPart(2, "c")>>, <<SkillPart(1, "c")>>>>}

MCFields == [has : {{}, {"email", "experiences"}}, hits : {0, 11}, verbs : {0, 6}, skills : {0, 7},
             len : {0, 1500, 6001, 40000}, marks : {{}, {"bullets", "lines", "gaps"}}, slips : {0, 30}]
Plain == [has |-> {}, hits |-> 0, verbs |-> 7, skills |-> 9, len |-> 0, marks |-> {}, slips |-> 0]
MCResumeFiles == [sheet : MCSheets, entries : {<<>>}, fields : {Plain}] \cup [sheet : {<<>>}, entries : MCSkillLists, fields : {Plain}]
                 \cup [sheet : {<<>>}, entries : {<<>>}, fields : MCFields]
-----------------------------------------------------------------------------
(* Places: rows of GeoNames, chosen as the resolver's own tests choose them. *)

Town(name, keys, country, province, people) ==
  [name |-> name, keys |-> {name} \cup keys, country |-> country, province |-> province, people |-> people]
MCPlaces == <<
  Town("phnom penh", {"pnh"}, "KH", {"22", "phnom penh"}, 8), Town("dangkao", {}, "KH", {"22", "phnom penh"}, 0),
  Town("san francisco", {"sf"}, "US", {"ca", "california"}, 4), Town("london", {}, "GB", {"eng", "england"}, 45),
  Town("london", {}, "CA", {"08", "ontario"}, 2), Town("springfield", {}, "US", {"mo", "missouri"}, 1),
  Town("springfield", {}, "US", {"ma", "massachusetts"}, 0), Town("singapore", {}, "SG", {}, 20),
  Town("atlanta", {}, "US", {"ga", "georgia"}, 2), Town("tbilisi", {}, "GE", {"51", "tbilisi"}, 5)>>
MCCountryName == [c \in {"KH", "US", "GB", "CA", "SG", "GE"} |->
  CASE c = "KH" -> "cambodia" [] c = "US" -> "united states" [] c = "GB" -> "united kingdom" [] c = "CA" -> "canada"
    [] c = "SG" -> "singapore" [] c = "GE" -> "georgia"]
MCCountryCode == [c \in {"KH", "US", "GB", "CA", "SG", "GE"} |->
  CASE c = "KH" -> "kh" [] c = "US" -> "us" [] c = "GB" -> "gb" [] c = "CA" -> "ca" [] c = "SG" -> "sg" [] c = "GE" -> "ge"]
MCPlaceNames == {"phnom penh", "dangkao", "cambodia", "san francisco", "ca", "california", "london", "canada",
                 "springfield", "ma", "atlanta", "georgia", "singapore", "remote"}
MCTyped == [t \in {"s", "phnom penh", "london", "p"} |->
  CASE t = "s" -> {"san francisco", "sf", "springfield", "singapore"} [] t = "phnom penh" -> {"phnom penh"}
    [] t = "london" -> {"london"} [] t = "p" -> {"phnom penh", "pnh"}]

-----------------------------------------------------------------------------
(* Requirements, and the skills of the resumes they are compared with. *)

MCAskLists == {<<<<"pid", "control">>, <<"welding", "rigs">>>>, <<<<"pid", "control">>, <<"excel">>, <<"excel">>>>,
           <<<<"welding", "rigs">>, <<"pid", "control">>, <<"excel">>>>, <<>>}
MCNewsScore == [n \in {1, 2} |-> IF n = 1 THEN 90 ELSE 60]
MCTextOrder == [t \in {<<"pid", "control">>, <<"welding", "rigs">>, <<"excel">>} |->
                  CASE t = <<"excel">> -> 1 [] t = <<"pid", "control">> -> 2 [] OTHER -> 3]
MCTitles == {<<"senior", "backend", "engineer">>, <<"the", "lead", "ios">>, <<>>,
             <<"welder", "rigs", "offshore", "marine", "pipeline", "coded", "backend">>}
Role(title, skills, published) == [title |-> title, skills |-> skills, published |-> published]
MCRoles == {Role({"senior", "backend"}, {"go", "sql", "k8s"}, TRUE), Role({"engineer"}, {"go", "sql", "aws", "git", "ci"}, TRUE),
            Role({"lead", "welder"}, {"tig"}, TRUE), Role({"backend"}, {"cobol"}, FALSE), Role({"senior", "ios"}, {"swift"}, TRUE),
            Role({"backend", "engineer"}, {"go", "aws"}, TRUE)}
MCSkillRows == {{}, {[skill |-> "go", deleted |-> FALSE]}, {[skill |-> "sql", deleted |-> TRUE]}}
MCParses == {{}, {<<"pid", "control">>}, {<<"pid", "loops">>, <<"excel">>}}
MCSelves == {[bio |-> 0, headline |-> 0, name |-> 0, place |-> <<0, 0, 0>>], [bio |-> 2, headline |-> 1, name |-> 1, place |-> <<1, 0, 3>>]}

=============================================================================
