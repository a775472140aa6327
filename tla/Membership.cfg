SPECIFICATION Spec
CONSTANTS
  p1 = p1
  r1 = r1
  r2 = r2
  Persons = {p1}
  Permanent = {p1}
  Requests = {r1, r2}
  MaxUsers = 2
  MaxTokens = 2
  MaxRounds = 2
  MaxOverlaps = 1
SYMMETRY Overlapping
INVARIANTS
  LinksWork
  MembersHaveSavings
  MembershipInOrder
CHECK_DEADLOCK FALSE
