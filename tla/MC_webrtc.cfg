CONSTANTS
  MinBackoff = 1
  MaxBackoff = 4
  StablePolls = 5
  EscalateAfter = 5
  MaxFrames = 2
  None = None
SPECIFICATION Spec
INVARIANTS NothingOutlivesClose FramesWhole RetryIffAllowed
PROPERTIES ClearedAfterCalm LossRecovers
