SPECIFICATION ClaimsSpec
CONSTANTS
  MinBackoff = 1
  MaxBackoff = 4
  StablePolls = 5
  EscalateAfter = 5
  MaxFrames = 2
  None = None
  Keys = {"claude", "codex"}
  DefaultKey = "claude"
  Ids = {"i"}
  NoId = NoId
  Kinds = {}
  Versions = {}
  Empty = Empty
  RecordsUnanswered = FALSE
  Unreadable = {}
  Nameable = {}
INVARIANT PanelOrCameraClaimStands
CHECK_DEADLOCK FALSE
