\* One person, one process that restarts, four calls, no symmetry: for example
\* two previews and a confirm of each, or a preview and three confirms.
SPECIFICATION FairSpec
CONSTANTS
  Principals = {p1}
  Instances = {i1}
  Calls = {c1, c2, c3, c4}
  Languages = {en}
  Absent = Absent
  None = None
INVARIANTS
  SingleUse
  AppliedAsShown
  RecordIsAudited
  AnswerIsTrue
PROPERTIES
  ImplementsAuditedRecord
  EveryCallEnds
CHECK_DEADLOCK FALSE
