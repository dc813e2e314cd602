\* Two attempts that want one branch, and two crashes; two keys, of which
\* one may retire, and two calls that resolve.
CONSTANTS
  Attempts = {a1, a2} Branches = {b1} MaxCrashes = 2
  None = None
  Keys = {k1, k2} Calls = {c1, c2}
SPECIFICATION BothSpec
INVARIANTS OneProcess OneWriterPerBranch DisownedNeverRuns SettledHasReceipt
PROPERTIES AwaitedLaunches RetiredKeysGo
CHECK_DEADLOCK FALSE
