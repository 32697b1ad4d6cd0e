SPECIFICATION Spec
CONSTANTS
  u1 = u1
  u2 = u2
  a1 = a1
  s1 = s1
  x1 = x1
  x2 = x2
  Parts = {"accounts", "sessions", "lockout", "blacklist", "sections", "profile", "bookmarks", "tracker", "admin"}
  Account = {u1, u2}
  Address = {a1}
  Subject = {s1}
  Request <- Two
  MaxRequests = 4
  Approved = {u2}
  Kinds = {"register", "resend", "verify", "login", "google", "askReset", "checkReset", "resetPassword", "me", "suspend", "reopen", "softDelete", "activate"}
  Device <- Two
  Tab <- Two
  MaxTokens = 3
  Process <- Two
  Threshold = 2
  MaxGuesses = 9
  MaxOutages = 1
  Instance <- Two
  Jti = {1, 2, 3, 4}
  MirrorCap = 3
  ScanLimit = 2
  Piece = {"work"}
  Skill = {"welding"}
  Editing <- Two
  LastMoment = 2
  MaxWritings = 3
  MaxRevisions = 4
  Keeper = {1, 2}
  Ad = {1, 2}
  Elsewhere = {1}
  Mark = {1, 2, 3}
  Tap <- Two
  MaxTaps = 3
  BoardTab <- Two
  Card = {1, 2, 3}
  Stage = {"SAVED", "APPLIED"}
  MaxDrags = 3
  Administrator = {1, 2}
  Mailbox = {"box"}
  Writing = {"lower", "upper"}
  Task <- Two
  Mailing = {1}
  Notice = {1}
  MaxTasks = 2
INVARIANTS CacheTellsTheTruth AccountsHold SessionsAreSound BarsHold OwnRowsHold AdministrationHolds
PROPERTY BoardHolds
SYMMETRY Symmetry
CHECK_DEADLOCK FALSE
