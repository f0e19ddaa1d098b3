CONSTANTS
  Roles = {"server"}
  Frames <- PeerFrames
  Capacity = 6
  InputRoom = 1
  MaxInputs = 5
  InputCost = 1
  WriteResults = {TRUE, FALSE}
  KeepOutput = FALSE
SPECIFICATION FairSpec
PROPERTY ConnectionSettles
CHECK_DEADLOCK FALSE
