\* One person, a preview and one confirm: the smallest instance in which the
\* acknowledgement of COMMIT is lost.
SPECIFICATION Spec
CONSTANTS
  Principals = {p1}
  Instances = {i1}
  Calls = {c1, c2}
  Languages = {en}
  Absent = Absent
  None = None
INVARIANT ReceiptFailedMeansNothingHappened
CHECK_DEADLOCK FALSE
