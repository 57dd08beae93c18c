SPECIFICATION MCSpec
CONSTANTS
  claude = claude
  codex = codex
  i1 = i1
  i2 = i2
  i3 = i3
  catalog = catalog
  features = features
  v1 = v1
  v2 = v2
  DefaultKey = claude
  NoId = NoId
  Empty = Empty
  Keys <- MCKeys
  Ids <- MCIds
  Kinds <- MCKinds
  Versions <- MCVersions
  RecordsUnanswered = FALSE
  Unreadable <- MCOneId
  Nameable <- MCOneId
SYMMETRY MCSymmetry
INVARIANTS ResumeTarget NoCrossTalk ModelIsCurrent
PROPERTY NamesKept
CONSTRAINT Within
