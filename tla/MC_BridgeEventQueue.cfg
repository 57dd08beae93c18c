SPECIFICATION Spec
CONSTANTS
  MaxBytes = 5
  kFrameOverheadBytes = 1
  PayloadSizes <- MCPayloadSizes
  MaxPushes = 6
INVARIANTS BudgetRespected OverflowLoss
