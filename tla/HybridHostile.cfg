SPECIFICATION HybridSpec
CONSTANTS
  None = None Empty = Empty Garbled = Garbled
  i1 = i1 i2 = i2
  p1 = p1 p2 = p2 w1 = w1 w2 = w2 d1 = d1 g1 = g1
  Absent = Absent Terminated = Terminated
  Id = {i1, i2}
  Foreign = {}
  Req = {p1, p2, w1, d1}
  Method <- MethodOf
  Lengths = {1}
  Offsets = {0, 1}
  Chunks = {1}
  PartLists <- SinglePart
  Extensions <- NoDeferredLength
  InfoKind = "file"
  AllowEmpty = FALSE
  MaxFileSize = None
  RemoveParts = TRUE
  ActiveHooks <- SomeHooks
  Env <- AnyEnv
SYMMETRY Ids
INVARIANTS HybridTypeOK CompleteHasObject
