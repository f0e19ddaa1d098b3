CONSTANTS
  Skis = {a, b}
  None = None
  Ptrs = {p1, p2, p3}
  Reuse = FALSE
  QueueSize = 1
  Contents = {"full", "cut"}
  Parts = {TRUE, FALSE}
  Pairs <- SomePairs
  MaxConnects = 3
  MaxCalls = 3
  MaxTicks = 2
  MaxEvents = 4
  Entities = {e1, e2}
  controllable = controllable
  limit1 = limit1
  limit2 = limit2
  UseCases <- Cases
  Handlers = {h}
  Nothing = Nothing
  NoMemoryForZero = FALSE
  MaxChanges = 2
  MaxDials = 2
  MaxExpiries = 1
SPECIFICATION MCSpec
SYMMETRY Names
INVARIANTS LinksAlive OneWriterAsked PeersAsked DirectoryAgrees
PROPERTIES KnownLinksKept
CHECK_DEADLOCK FALSE
