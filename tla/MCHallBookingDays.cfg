\* One call at a time, two events that may be on two days.
SPECIFICATION Spec
CONSTANTS
  Calls = {c1}
  Events = {x1, x2}
  Halls = {h1}
  Slots <- TwoDays
  NULL = NULL
PROPERTY
  RefusedForCause
