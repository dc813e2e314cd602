\* Every token carries a stable id.
SPECIFICATION Spec
CONSTANTS
  Logins = {l1, l2}
  Browsers = {b1}
  Callbacks = {c1, c2}
  Subjects = {s1}
  Stables = {u1, u2}
  None = None
INVARIANT LockedHasNoSession
CHECK_DEADLOCK FALSE
