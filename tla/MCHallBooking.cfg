\* Two calls at a time, two events of one day, two halls.
SPECIFICATION Spec
CONSTANTS
  Calls = {c1, c2}
  Events = {x1, x2}
  Halls = {h1, h2}
  Slots <- OneDay
  NULL = NULL
SYMMETRY Symmetry
INVARIANTS
  TypeOK
  ClashExplained
