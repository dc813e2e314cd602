\* A launch that an episode leaves behind.
SPECIFICATION Spec
CONSTANTS
  Issues = {i1, i2}
  MaxEpisodes = 2
  MaxDispatch = 1
  MaxRevise = 1
  MaxFailed = 2
  MaxFails = 1
  None = None
CHECK_DEADLOCK FALSE
PROPERTY EndedEpisodesLaunchNothing
