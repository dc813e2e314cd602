CONSTANTS
  p1 = p1 p2 = p2
  Clerk = {p1, p2}
  Order <- MCOrder
  GlobalLimit = 2 ReviewReserve = 1 HostLimit = 2 AccountLimit = 2 RuntimeLimit = 2
  Budget = 2
  Moves = {"dispatching", "completed"}
  Cost = {0, 2}
  MaxCrashes = 1
  None = None
  Issues = {p1, p2}
  MaxEpisodes = 2 MaxDispatch = 2 MaxRevise = 1 MaxFailed = 2 MaxFails = 1
  Cards = {c1, c2, c3}
  Workers = 2 BaseRounds = 2 MaxPeople = 1 MaxDeaths = 1
SPECIFICATION AllSpec
ACTION_CONSTRAINT MCBound
SYMMETRY MCSymmetry
CHECK_DEADLOCK FALSE
INVARIANTS WorkersHaveRoom SpendingIsBounded NobodyWorksUnseen StepsFollow LandsAsReviewed OneMergeStep
PROPERTY NothingIsUndone
