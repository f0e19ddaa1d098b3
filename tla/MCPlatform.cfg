CONSTANTS
  Msgs = {m1, m2, m3, m4}
  NoMsg = NoMsg
  MaxMsg = 2
  Senders = {s1, s2}
  Receivers = {r1, r2}
  Backends = {"bonjour", "avahi", "freertos"}
  Services <- MCServices
  OwnSki = "own"
  Requests = {req1}
  NoRequest = NoRequest
  MaxChanges = 1
  MaxFaults = 1
  Messages = {w1, w2}
  QueueSize = 1
  MaxInput = 2
  Bytes = {1, 2, 3, 4}
  Scripts <- MCScripts
  Identities <- MCIdentities
  NoId = "none"
  TimerBuilds = {"pthread", "freertos", "apple", "windows"}
  ThreadBuilds = {"pthread", "freertos"}
  MaxStarts = 2
  Horizon = 3
  MaxSent = 4
  QueueLength = 2
SPECIFICATION MCSpec
INVARIANTS BufferInv NoneStranded StreamIntact CallbacksSafe PrimitivesSafe
PROPERTIES ImplementsFifo 
CHECK_DEADLOCK FALSE
