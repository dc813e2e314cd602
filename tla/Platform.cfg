CONSTANTS
  Requests = {d1, d2, d3, d4}
  d1 = d1 d2 = d2 d3 = d3 d4 = d4 a = a b = b
  Types = {cv}
  Contents = {a, b}
  Capacity = 3
  op0 = op0 c1 = c1 n1 = n1 n2 = n2 s1 = s1 s2 = s2 k1 = k1 k2 = k2 adm = adm mem = mem
  Request = {q1, q2}
  Operator = op0
  Company = {c1}
  SubOrg = {n1, n2}
  Name = {"x"}
  Store = {s1, s2}
  Contract = {k1, k2}
  Period <- MCPeriod
  Person = {adm, mem}
  Unused = Unused Removed = Removed None = None
  StartGrants <- MCStartGrants
SPECIFICATION AllSpec
ACTION_CONSTRAINT MCBound
SYMMETRY MCSymmetry
CHECK_DEADLOCK FALSE
INVARIANTS
  DeletedIsEmpty NoOverlap AuditTellsTheStory
  KeyActsOnce ReferencedIsStored NothingIsLost OkIsDurable
PROPERTIES ActsWithAuthority ReplacesWhatItSaw
