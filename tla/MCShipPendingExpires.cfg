CONSTANTS
  Roles = {"server"}
  Frames <- PendingFrames
  Capacity = 6
  InputRoom = 1
  MaxInputs = 2
  InputCost = 1
  WriteResults = {TRUE}
  KeepOutput = FALSE
SPECIFICATION FairSpec
PROPERTY PendingExpires
CHECK_DEADLOCK FALSE
