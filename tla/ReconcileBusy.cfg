\* A review that finds its sandbox busy twice.
SPECIFICATION Spec
CONSTANTS
  Issues = {i1, i2}
  MaxEpisodes = 2
  MaxDispatch = 1
  MaxRevise = 1
  MaxFailed = 2
  MaxFails = 2
  None = None
CHECK_DEADLOCK FALSE
INVARIANT EachFailureIsARun
