\* Two transactions at a time, two orders, two tiers, two statements outside.
SPECIFICATION LockSpec
CONSTANTS
  Transactions = {x1, x2}
  Orders = {o1, o2}
  t1 = t1
  t2 = t2
  e1 = e1
  e2 = e2
  Tiers = {t1, t2}
  Emails = {e1, e2}
  Quantities = {2}
  Requests <- Crossing
  NULL = NULL
  MaxStatements = 2
SYMMETRY Symmetry
INVARIANTS
  LockTypeOK
  DeadlockExplained
PROPERTIES
  TransactionsAtomic
\* Once the instance's orders are settled and the statements are used
\* up nothing is left to do.
CHECK_DEADLOCK FALSE
