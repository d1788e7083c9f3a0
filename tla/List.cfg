\* Three cells; positions before, in and past the list.
SPECIFICATION FairSpec
CONSTANTS
  Cells = {c1, c2, c3}
  Header = header
  Null = null
  Items = {a, b}
  Positions <- MCPositions
  Limit = 4
INVARIANTS
  ListTypeOK
  Whole
  Accounted
PROPERTIES
  Positional
  CallsReturn
