\* Two messages and two workers with one fault; three requests of one session.
CONSTANTS
  Messages = {m1, m2}
  Workers = {w1, w2}
  MaxAttempts = 2
  MaxFaults = 1
  None = None
  Requests = {r1, r2, r3}
  Sessions = {s1}
  Null = Null
SPECIFICATION EndingsSpec
INVARIANTS BoundedSends
PROPERTIES EveryMessageEnds EveryRequestEnds
CHECK_DEADLOCK FALSE
