\* Two resumes under any two requests at a time, parsed by one worker that may try twice.
CONSTANTS
  x1 = x1
  x2 = x2
  r1 = r1
  r2 = r2
  w1 = w1
  NoResume = NoResume
  Resume = {x1, x2}
  Request = {r1, r2}
  Worker = {w1}
  MaxAttempts = 2
  MaxFaults = 2
  MaxCalls = 4
SPECIFICATION Spec
SYMMETRY Symmetry
CHECK_DEADLOCK FALSE
INVARIANTS SuccessIsReadable PendingMeansScheduled ListedResumesHaveFiles SecondDefaultTakesAnOverlap
