SPECIFICATION Spec
CONSTANTS
  x1 = x1
  x2 = x2
  s1 = s1
  c1 = c1
  Parts = {"sync", "scoring", "retrieval", "reports", "reading", "documents", "ingestion", "companies", "ai", "alerts", "posts", "gets", "desk", "limits", "letters", "judging", "ranking", "ocr", "text", "places", "vectors", "scout", "gaps", "bell", "vacancies", "extraction", "import"}
  Id = {1, 2}
  PageLimit = 1
  MaxTime = 2
  MaxChanges = 3
  Candidates <- MCCandidates
  Jobs <- MCJobs
  Cosines = {20, 90}
  Posting = {1, 2, 3}
  PostingKinds <- MCPostingKinds
  Searchers <- MCSearchers
  Pool = 4
  RerankPool = 2
  TopLimit = 3
  Advert = {1}
  Resume = {1, 2}
  Scan <- Two
  LastTick = 2
  MaxEdits = 2
  MaxScans = 2
  Notices <- MCNotices
  Resumes <- MCResumes
  Document = {1, 2}
  Section = {s1}
  ExportFile = {1}
  Editor <- Two
  MaxPuts = 2
  Fact = {1, 2}
  FactSections = {"experience", "skills"}
  Selves <- MCSelves
  MaxFactEdits = 1
  IngestRun <- Two
  Ad = {1, 2}
  AdTexts <- MCTexts
  BoardKinds = {"feed", "pages", "details"}
  MinInterval = 1
  LastPull = 5
  MaxPulls = 2
  Bare = {1, 2}
  BareLimit = 1
  MaxRetells = 1
  Firm = {1, 2, 3}
  Names <- MCNames
  Sites <- MCSites
  Contacts <- MCContacts
  Admin <- Two
  MaxResites = 1
  Draft = {1}
  Hirer = {1, 2}
  HirerFirm <- MCHirerFirm
  Revision <- Two
  MaxRevised = 4
  AiCall <- Two
  HealthRead = {1, 2}
  EvidenceSpan = 2
  Cooldown = 1
  LastAiTick = 3
  ServerError <- Two
  DatabaseErrors <- Two
  Cause <- MCCause
  DedupSpan = 1
  RateSpan = 1
  RateThreshold = 2
  GraceSpan = 1
  LastAlertTick = 1
  MaxAlertFaults = 1
  Caller = {1, 2}
  Call <- Two
  Opening = {1, 2}
  IdemKey = {1, 2}
  LastEdgeMs = 2
  MaxPosts = 3
  MaxEdgeFaults = 1
  MaxTexts = 3
  Applicant = {1, 2}
  Recruiter = {3, 4}
  Vacancy = {5}
  RecruiterOf <- MCRecruiterOf
  Paper = {7, 8}
  PaperOf <- MCPaperOf
  Errand <- Two
  MaxErrands = 3
  PageOfBoard = 1
  Deal <- Two
  MaxDeals = 2
  Writer = {1, 2}
  Address = {3, 4}
  Letter = {1}
  LetterOf <- MCLetterOf
  Generated <- MCGenerated
  Server = {1}
  Request <- Two
  HourlyLimit = 2
  Metered = {1}
  Hour = 2
  LastHalfHour = 3
  MaxRestarts = 1
  LabelLists <- MCLabelLists
  PairLimit = 4
  Slot <- Two
  ModelAnswers <- MCModelAnswers
  LabelFiles <- MCLabelFiles
  RankedJob = {1, 2, 3, 4}
  Cutoff = 3
  Reader <- Two
  WorkerId = {1, 2, 3}
  MaxImages = 2
  ResumeFiles <- MCResumeFiles
  Place <- MCPlaces
  CountryName <- MCCountryName
  CountryCode <- MCCountryCode
  PlaceName <- MCPlaceNames
  Typed <- MCTyped
  MaxPlaceNames = 3
  EmbedRow = {1, 2, 3}
  Batch = 2
  Embedder <- Two
  MaxEmbeds = 2
  MaxRewordings = 1
  News = {1, 2}
  NewsScore <- MCNewsScore
  MinScore = 50
  ScoutCap = 2
  ScoutLimit = 1
  ScoutWindow = 1
  LastScoutTick = 1
  AppliedTo = {1, 2, 3}
  AskLists <- MCAskLists
  Extracted = {3}
  TextOrder <- MCTextOrder
  Titles <- MCTitles
  SimilarRoles <- MCRoles
  SkillRows <- MCSkillRows
  MaxSimilar = 2
  Parses <- MCParses
  MaxSwitches = 1
INVARIANTS ClientsKeepUp ReportsHold
PROPERTIES MatchesHold DocumentsHold ImportsHold MonitoringHolds
SYMMETRY Symmetry
CHECK_DEADLOCK FALSE
