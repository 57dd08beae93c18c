SPECIFICATION Spec
CONSTANTS
  Topics = {"a", "b"}
  None = None
  ChanIds = {1, 2, 3}
  Supported = {"a", "b"}
  Refused = {}
  Worlds <- MCWorlds
  Asks = {{"b"}, {"a", "b"}}
  Hosts = {TRUE, FALSE}
  Ticks = 2
  MaxSets = 2
  MaxDeltas = 1
  MaxLosses = 1
  MaxFailures = 1
  MaxStarts = 2
  MaxFrames = 1
  Races = {}
CHECK_DEADLOCK FALSE
INVARIANTS
  IngestedAsSent
  AtRestAgree
PROPERTIES
  LossIsRetried
