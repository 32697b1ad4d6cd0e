--------------------------------- MODULE Services ---------------------------------
(***************************************************************************)
(* The services of the backend that keep a state of their own, side by side.   *)
(*                                                                           *)
(* They share no table: a sign-in touches no report, a report no delta.  So a   *)
(* behaviour exercises one of them, the part it starts with, and the others     *)
(* rest; their interleavings would multiply the states and show nothing more.   *)
(***************************************************************************)
EXTENDS DeltaSync, MatchReports, ResumeDocuments, Ingestion,
        Companies, AiAvailability, Alerting, RequestEdge, ApplicationDesk, Generation,
        Evaluation, ResumeText, Places, Discovery

CONSTANT Parts   \* the services exercised

VARIABLE part    \* the one this behaviour exercises

Off == 0   \* the state of a part that rests

SyncRests ==
  /\ clock = Off /\ row = Off /\ writing = Off /\ changes = Off /\ request = Off /\ local = Off
  /\ watermark = Off /\ cursor = Off /\ passed = Off /\ late = Off
ScoringRests == candidate = Off /\ job = Off /\ cosine = Off
RetrievalRests == searcher = Off /\ posting = Off /\ found = Off
ReportsRests ==
  /\ now = Off /\ resume = Off /\ profile = Off /\ builder = Off /\ report = Off /\ scan = Off
  /\ served = Off /\ edits = Off /\ scans = Off
ReadingRests == notice = Off /\ cv = Off /\ payload = Off
DocumentsRests ==
  /\ document = Off /\ section = Off /\ picker = Off /\ editor = Off /\ puts = Off /\ mixed = Off
  /\ crossed = Off
IngestionRests ==
  /\ pullClock = Off /\ board = Off /\ stored = Off /\ pull = Off /\ lastRequest = Off /\ pulls = Off
  /\ ledgerOf = Off /\ inserted = Off /\ crowded = Off
CompaniesRest == directory = Off /\ proposal = Off /\ hiredBy = Off /\ resited = Off
AiRests ==
  /\ aiClock = Off /\ aiCall = Off /\ outcomes = Off /\ probe = Off /\ probing = Off /\ flights = Off
  /\ health = Off /\ heard = Off
AlertsRest ==
  /\ alertClock = Off /\ bootedAt = Off /\ redisUp = Off /\ muted = Off /\ alertFaults = Off
  /\ incidents = Off /\ slacked = Off /\ dedupUntil = Off /\ errorCount = Off /\ handling = Off
  /\ claims = Off /\ silenced = Off /\ counted = Off /\ excused = Off
PostsRest ==
  /\ filed = Off /\ kept = Off /\ post = Off /\ posts = Off /\ edgeFaults = Off /\ excusedKeys = Off
  /\ answers = Off
GetsRest == edgeClock = Off /\ opened = Off /\ firmText = Off /\ browser = Off
DeskRests ==
  /\ paper = Off /\ filing = Off /\ contacts = Off /\ errand = Off /\ errands = Off
  /\ links = Off /\ choosing = Off /\ deleting = Off
LimitsRest == hour = Off /\ meter = Off /\ restarts = Off /\ made = Off /\ refused = Off
LettersRest ==
  /\ tier = Off /\ readable = Off /\ letter = Off /\ asking = Off /\ told = Off /\ muddled = Off
JudgingRests == pairs = Off /\ nextPair = Off /\ inFlight = Off /\ evalRows = Off /\ outcome = Off
RankingRests == file = Off /\ labels = Off /\ rerank = Off /\ retrieved = Off /\ skipped = Off
OcrRests ==
  /\ workerPromise = Off /\ ocrWorker = Off /\ reader = Off /\ closing = Off /\ lateWorkers = Off
  /\ sentShort = Off
TextRests == sheet = Off /\ entries = Off /\ fields = Off /\ readout = Off
PlacesRest == table = Off /\ wording = Off /\ home = Off
VectorsRest ==
  /\ itemText = Off /\ vectorRow = Off /\ embedding = Off /\ lastEmbedError = Off
  /\ visited = Off /\ unrecorded = Off /\ embeds = Off /\ rewordings = Off
ScoutRests ==
  /\ scoutClock = Off /\ news = Off /\ waved = Off /\ poll = Off /\ lastPoll = Off /\ knownNews = Off
  /\ scouted = Off
ExtractionRests ==
  /\ bare = Off /\ extraction = Off /\ retells = Off /\ paid = Off /\ doubled = Off /\ retold = Off
VacanciesRest == draft = Off /\ revising = Off /\ revised = Off /\ toldOf = Off /\ overlapped = Off
ImportRests ==
  /\ fact = Off /\ self = Off /\ leaf = Off /\ importing = Off /\ factEdits = Off /\ stood = Off
  /\ standing = Off
BellRests ==
  /\ poster = Off /\ stage = Off /\ deal = Off /\ deals = Off /\ bell = Off /\ seen = Off
  /\ happened = Off /\ ownRead = Off
GapsRest == asks = Off /\ activeCv = Off /\ compared = Off /\ gapPage = Off /\ switches = Off

Init ==
  /\ part \in Parts
  /\ IF part = "sync" THEN SyncInit ELSE SyncRests
  /\ IF part = "scoring" THEN ScoringInit ELSE ScoringRests
  /\ IF part = "retrieval" THEN RetrievalInit ELSE RetrievalRests
  /\ IF part = "reports" THEN ReportsInit ELSE ReportsRests
  /\ IF part = "reading" THEN ReadingInit ELSE ReadingRests
  /\ IF part = "documents" THEN DocumentsInit ELSE DocumentsRests
  /\ IF part = "ingestion" THEN IngestInit ELSE IngestionRests
  /\ IF part = "companies" THEN CompaniesInit ELSE CompaniesRest
  /\ IF part = "ai" THEN AiInit ELSE AiRests
  /\ IF part = "alerts" THEN AlertInit ELSE AlertsRest
  /\ IF part = "posts" THEN PostsInit ELSE PostsRest
  /\ IF part = "gets" THEN GetsInit ELSE GetsRest
  /\ IF part = "desk" THEN DeskInit ELSE DeskRests
  /\ IF part = "limits" THEN LimitsInit ELSE LimitsRest
  /\ IF part = "letters" THEN LettersInit ELSE LettersRest
  /\ IF part = "judging" THEN JudgingInit ELSE JudgingRests
  /\ IF part = "ranking" THEN RankingInit ELSE RankingRests
  /\ IF part = "ocr" THEN OcrInit ELSE OcrRests
  /\ IF part = "text" THEN TextInit ELSE TextRests
  /\ IF part = "places" THEN PlacesInit ELSE PlacesRest
  /\ IF part = "vectors" THEN VectorsInit ELSE VectorsRest
  /\ IF part = "scout" THEN ScoutInit ELSE ScoutRests
  /\ IF part = "gaps" THEN GapsInit ELSE GapsRest
  /\ IF part = "bell" THEN BellInit ELSE BellRests
  /\ IF part = "vacancies" THEN VacanciesInit ELSE VacanciesRest
  /\ IF part = "import" THEN ImportInit ELSE ImportRests
  /\ IF part = "extraction" THEN ExtractInit ELSE ExtractionRests

\* The part exercised takes a step, the others none.
Next ==
  /\ part' = part
  /\ IF part = "sync" THEN SyncNext ELSE UNCHANGED syncVars
  /\ IF part = "scoring" THEN ScoringNext ELSE UNCHANGED scoringVars
  /\ IF part = "retrieval" THEN RetrievalNext ELSE UNCHANGED retrievalVars
  /\ IF part = "reports" THEN ReportsNext ELSE UNCHANGED reportVars
  /\ IF part = "reading" THEN ReadingNext ELSE UNCHANGED readingVars
  /\ IF part = "documents" THEN DocumentsNext ELSE UNCHANGED documentVars
  /\ IF part = "ingestion" THEN IngestNext ELSE UNCHANGED ingestVars
  /\ IF part = "companies" THEN CompaniesNext ELSE UNCHANGED companyVars
  /\ IF part = "ai" THEN AiNext ELSE UNCHANGED aiVars
  /\ IF part = "alerts" THEN AlertNext ELSE UNCHANGED alertVars
  /\ IF part = "posts" THEN PostsNext ELSE UNCHANGED postVars
  /\ IF part = "gets" THEN GetsNext ELSE UNCHANGED getVars
  /\ IF part = "desk" THEN DeskNext ELSE UNCHANGED deskVars
  /\ IF part = "limits" THEN LimitsNext ELSE UNCHANGED limitVars
  /\ IF part = "letters" THEN LettersNext ELSE UNCHANGED letterVars
  /\ IF part = "judging" THEN JudgingNext ELSE UNCHANGED judgeVars
  /\ IF part = "ranking" THEN RankingNext ELSE UNCHANGED rankVars
  /\ IF part = "ocr" THEN OcrNext ELSE UNCHANGED ocrVars
  /\ IF part = "text" THEN TextNext ELSE UNCHANGED textVars
  /\ IF part = "places" THEN PlacesNext ELSE UNCHANGED placeVars
  /\ IF part = "vectors" THEN VectorsNext ELSE UNCHANGED vectorVars
  /\ IF part = "scout" THEN ScoutNext ELSE UNCHANGED scoutVars
  /\ IF part = "gaps" THEN GapsNext ELSE UNCHANGED gapVars
  /\ IF part = "bell" THEN BellNext ELSE UNCHANGED bellVars
  /\ IF part = "vacancies" THEN VacanciesNext ELSE UNCHANGED vacancyVars
  /\ IF part = "import" THEN ImportNext ELSE UNCHANGED importVars
  /\ IF part = "extraction" THEN ExtractNext ELSE UNCHANGED extractVars

vars == <<part, syncVars, scoringVars, retrievalVars, reportVars, readingVars, documentVars, ingestVars,
          companyVars, aiVars, alertVars, postVars, getVars, deskVars, limitVars, letterVars, judgeVars, rankVars, ocrVars, textVars, placeVars, vectorVars, scoutVars, gapVars,
          bellVars, vacancyVars, extractVars, importVars>>
Spec == Init /\ [][Next]_vars

-----------------------------------------------------------------------------
(* Properties: those of the parts, each where its part is exercised. *)

\* What a client keeps is what the server holds: a drained delta has every change behind its
\* watermark, a repeated POST is answered from its receipt, and a copy that is still valid is
\* the posting as it is.
ClientsKeepUp ==
  /\ part = "sync" => EveryChangeArrives
  /\ part = "posts" => AnswersAreTheCallers /\ RetriesAreQuiet
  /\ part = "gets" => CopiesFollowThePosting
  /\ part = "scout" => NewsArrives

\* The numbers of a match are honest, and the places behind them; so is the list they put in
\* order, and so are the evaluations of both; a report reads posting and resume fairly, and the
\* gaps it shows follow the role.  A file is read as it stands and scored within bounds, more never
\* below less, and what is prepared for an interview is what was asked for.
MatchesHold ==
  /\ [](part = "scoring" => ScoresAreHonest)
  /\ [](part = "retrieval" => RetrievalIsFair)
  /\ [](part = "reading" => ReportsReadFairly)
  /\ [](part = "gaps" => GapsAreHonest /\ (gapPage = NoPage => ExternalGapsFollowTheRole))
  /\ [](part = "judging" => JudgementIsHonest)
  /\ [](part = "ranking" => RetrievalIsMeasured)
  /\ [](part = "places" => PlacesAreFound)
  /\ [](part = "vectors" => VectorsAreOwn /\ NoRowIsSkipped)
  /\ [](part = "text" => PagesAreReadInOrder /\ SkillsAreKept /\ ScoresStayInBounds)
  /\ [](part = "letters" => (told = [l \in Letter |-> NoLetter] => PreparationIsUsable))
  /\ [][part = "text" => MoreNeverScoresLess]_vars

\* A stored report is handed out only while it is current.
ReportsHold == part = "reports" => ReusedReportsAreCurrent /\ ReportsSpeakOfOneResume

\* Sections, copies and exports of the builder's documents are whole; an application keeps the
\* resume it was sent with and the letter its candidate was shown, which cost what they may;
\* neither side's list loses what the other tidies away; no vector is lost, and a document that is
\* filled from the profile says what it said.
DocumentsHold ==
  /\ [](part = "documents" => SectionsAreWhole /\ PickerFollowsTheDocuments)
  /\ [](part = "desk" => DeskIsTrue)
  /\ [](part = "bell" => BellIsTrue)
  /\ [](part = "limits" => CostIsBounded /\ RefusalsAreEarned)
  /\ [](part = "letters" => LettersAreAsShown)
  /\ [](part = "ocr" => OneOcrWorker /\ NothingEmptyIsSent)
  /\ [][(part = "desk" => ListsAreSeparate) /\ (part = "vectors" => VectorsAreNotLost)
        /\ (part = "import" => ImportsTellTheProfile)]_vars

\* What comes in from the boards: the sums of a run are right, nothing that was stated is erased,
\* the host is asked at its pace; one company has one row, and its postings are as it was told.
ImportsHold ==
  /\ [](part = "ingestion" => SummariesAddUp)
  /\ [](part = "companies" => OneRowPerCompany)
  /\ [](part = "vacancies" => PostingsAreAsTold)
  /\ [](part = "extraction" => ListsAreRead)
  /\ [][(part = "ingestion" => SilenceErasesNothing /\ RequestsArePaced) /\ (part = "vacancies" => PostersStay)
        /\ (part = "extraction" => EmployersListStays)]_vars

\* What the backend says of the AI service is what its calls said, and an error that is silenced
\* is covered by an alert.
MonitoringHolds ==
  /\ [](part = "ai" => OneProbeAtATime /\ CallsCountOnce)
  /\ [](part = "alerts" => OneAlertPerWindow /\ SilenceIsCovered /\ RateAlarmsAreReal)
  /\ [][part = "ai" => VerdictsAreEarned]_vars
=============================================================================
