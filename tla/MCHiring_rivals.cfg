\* Two offers to one candidate on the table: accepts that sweep each other against declines, rescissions, rejections and negotiations.
CONSTANTS
  a1 = a1
  a2 = a2
  r1 = r1
  r2 = r2
  r3 = r3
  t1 = t1
  Apps = {a1, a2}
  Candidate <- OneCandidate
  Opened = {a1, a2}
  Req = {r1, r2, r3}
  Traffic = {"accept", "decline", "withdrawOffer", "boardMove", "postCandidateMessage"}
  BoardTargets = {"REJECTED"}
  PatchTargets = {}
  Terms = {t1}
  NoTerms = NoTerms
  MaxTrail = 4
  MaxMessages = 1
SPECIFICATION Spec
CHECK_DEADLOCK FALSE
SYMMETRY Symmetry
INVARIANT HireClosesTheRest
PROPERTY DecisionsAreRecorded
