SPECIFICATION Spec
CONSTANTS
  None = None Empty = Empty Garbled = Garbled
  i1 = i1 i2 = i2 i3 = i3 f1 = f1
  p1 = p1 p2 = p2 p3 = p3 w1 = w1 w2 = w2 w3 = w3 d1 = d1 d2 = d2 g1 = g1 h1 = h1
  Absent = Absent Terminated = Terminated
  Id = {i1, i2, i3}
  Foreign = {}
  Req = {p1, p2, p3}
  Method <- MethodOf
  Lengths = {1, 2}
  Offsets = {0, 1}
  Chunks = {1, 2}
  PartLists <- DistinctParts
  Extensions <- NoDeferredLength
  InfoKind = "file"
  AllowEmpty = FALSE
  MaxFileSize = None
  RemoveParts = TRUE
  ActiveHooks <- NoHooks
  Env <- NoEnv
SYMMETRY ConcatSymmetry
INVARIANTS TypeOK FinalIsConcatenation PartsSurviveFailure
