SPECIFICATION FairSpec
CONSTANTS
  None = None Empty = Empty Garbled = Garbled
  i1 = i1 i2 = i2 i3 = i3 f1 = f1
  p1 = p1 p2 = p2 p3 = p3 w1 = w1 w2 = w2 w3 = w3 d1 = d1 d2 = d2 g1 = g1 h1 = h1
  Absent = Absent Terminated = Terminated
  Id = {i1}
  Foreign = {}
  Req = {p1, w1, w2, d1}
  Method <- MethodOf
  Lengths = {0, 2}
  Offsets = {0, 1, 2}
  Chunks = {1, 2}
  PartLists <- NoParts
  Extensions <- NoConcatenation
  InfoKind = "file"
  AllowEmpty = TRUE
  MaxFileSize = None
  RemoveParts = FALSE
  ActiveHooks <- FinishHook
  Env <- Parallel
PROPERTIES EveryRequestAnswered FinishNotified OrphanReclaimed
