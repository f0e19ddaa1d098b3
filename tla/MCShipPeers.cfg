CONSTANTS
  Roles = {"client", "server"}
  Frames <- EitherFrames
  Capacity = 1
  InputRoom = 2
  MaxInputs = 1
  InputCost = 0
  WriteResults = {TRUE, FALSE}
  KeepOutput = FALSE
SPECIFICATION MCSpec
INVARIANTS TrustedBeforeReady MilestonesMet ClosedIffReported TimersQuietAfterClose WaitIsBounded
ACTION_CONSTRAINT PeerKeepsItsKind
CHECK_DEADLOCK FALSE
