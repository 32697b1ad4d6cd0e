\* An employer rejects an application while it is being screened.
CONSTANTS
  a1 = a1
  a2 = a2
  r1 = r1
  r2 = r2
  t1 = t1
  t2 = t2
  Apps = {a1}
  Candidate <- OneCandidate
  Opened = {}
  Req = {r1, r2}
  Traffic = {"submit", "boardMove"}
  BoardTargets = {"REJECTED"}
  PatchTargets = {}
  Terms = {t1}
  NoTerms = NoTerms
  MaxTrail = 3
  MaxMessages = 0
SPECIFICATION Spec
CHECK_DEADLOCK FALSE
INVARIANT ScreeningOnlyFromSubmitted
