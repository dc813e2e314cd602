SPECIFICATION FairSpec
CONSTANTS
  Attempts = {a1, a2}
  Branches = {b1}
  None = None
  MaxCrashes = 1
PROPERTY AcceptedResumes
CHECK_DEADLOCK FALSE
