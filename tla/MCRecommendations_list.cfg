\* Two requests at a time over two postings.
CONSTANTS
  ann = ann
  j1 = j1
  j2 = j2
  r1 = r1
  r2 = r2
  User = {ann}
  Request = {r1, r2}
  Job = {j1, j2}
  Managed = {j1}
  Limit = 1
  MaxEdits = 1
  MaxJobEdits = 1
SYMMETRY Symmetry
SPECIFICATION Spec
CHECK_DEADLOCK FALSE
INVARIANTS EditsReachTheList JobEditsReachTheList
PROPERTIES DismissalsSurvive NothingIsLostToAFailure
