SPECIFICATION ClaimsSpec
CONSTANTS
  Topics = {"a", "b"}
  None = None
  ChanIds = {1, 2}
  Supported = {"a", "b"}
  Refused = {}
  Worlds <- MCWorlds
  Asks = {{"b"}, {"a", "b"}}
  Hosts = {TRUE}
  Ticks = 1
  MaxSets = 2
  MaxDeltas = 1
  MaxLosses = 3
  MaxFailures = 0
  MaxStarts = 2
  MaxFrames = 1
  Races = {"burst", "loss", "leftovers", "ghosts"}
CHECK_DEADLOCK FALSE
INVARIANT FoxgloveClaimStands
