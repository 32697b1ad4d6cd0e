\* Two offers to one candidate, read and talked over by both sides and accepted, by any two requests at a time.
CONSTANTS
  a1 = a1
  a2 = a2
  r1 = r1
  r2 = r2
  t1 = t1
  t2 = t2
  Apps = {a1, a2}
  Candidate <- OneCandidate
  Opened = {a1, a2}
  Req = {r1, r2}
  Traffic = {"getMyOffer", "getOfferForEmployer", "postCandidateMessage", "postEmployerMessage", "accept"}
  BoardTargets = {}
  PatchTargets = {}
  Terms = {t1}
  NoTerms = NoTerms
  MaxTrail = 3
  MaxMessages = 1
SPECIFICATION FairSpec
CHECK_DEADLOCK FALSE
PROPERTY ThreadOnlyGrows
PROPERTY ReadByTheOtherSide
PROPERTY ImplementsLedger
PROPERTY RequestsEnd
