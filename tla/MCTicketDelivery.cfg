\* Two concurrent calls for an order of two, with a fault and an attendee
\* deleted or re-addressed meanwhile.
SPECIFICATION FairSpec
CONSTANTS
  Callers = {p1, p2}
  Recipients = {r1, r2}
  NULL = NULL
  MaxFaults = 1
  MaxEdits = 1
INVARIANTS
  NoNeedlessDuplicate
  RecordedIsDelivered
PROPERTIES
  GivenUpIsLeftAlone
  HolderServed
