CONSTANTS
  Threes = {r1, r2, r3} Pairs = {q1, q2}
  Browsers = {b1, b2} Subjects = {u1, u2} Stables = {i1, i2, None}
  Sessions = {s1}
  Ordinary = {"objective"} Offered = {} MaxReceipts = 2
  Countries = {KW, jo} Kuwait = KW
  Texts = {a} Imports = {m1}
  Runs = {q1, q2}
  Null = Null None = None
SPECIFICATION AllSpec
ACTION_CONSTRAINT MCBound
SYMMETRY MCSymmetry
CHECK_DEADLOCK FALSE
INVARIANTS
  SessionsAreEarned NoOrphans OnlyTheRecordedId AliasIsComplete
  FormSavesOnce AnswerIsTrue LateNeverSaves MotherRule SupersededFails
