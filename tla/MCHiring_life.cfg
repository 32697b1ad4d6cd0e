\* One application from the moment it is applied for: submission, screening and both
\* sides' direct moves against the offer endpoints.
CONSTANTS
  a1 = a1
  r1 = r1
  r2 = r2
  r3 = r3
  t1 = t1
  Apps = {a1}
  Candidate <- OneCandidate
  Opened = {}
  Req = {r1, r2, r3}
  Traffic = {"submit", "updateStatus", "boardMove", "extendOffer", "updateOffer", "withdrawOffer", "accept", "decline"}
  BoardTargets = {"SCREENING", "INTERVIEW", "OFFER", "REJECTED", "ACCEPTED"}
  PatchTargets = {"WITHDRAWN", "OFFER"}
  Terms = {t1}
  NoTerms = NoTerms
  MaxTrail = 4
  MaxMessages = 0
SPECIFICATION Spec
SYMMETRY Symmetry
CHECK_DEADLOCK FALSE
INVARIANT TypeOK
INVARIANT TrailOK
INVARIANT AnswersAgree
PROPERTY FinishedIsFinal
