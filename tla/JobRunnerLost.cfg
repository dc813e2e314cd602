\* Two runs suffice for a run recorded as succeeded beside the one that took its
\* lease over.
SPECIFICATION Spec
CONSTANTS
  Runs = {r1, r2}
  None = None
INVARIANT SucceededHeldTheLease
CHECK_DEADLOCK FALSE
