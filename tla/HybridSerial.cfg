SPECIFICATION HybridSpec
CONSTANTS
  None = None Empty = Empty Garbled = Garbled
  i1 = i1 i2 = i2
  p1 = p1 p2 = p2 w1 = w1 w2 = w2 d1 = d1 g1 = g1
  Absent = Absent Terminated = Terminated
  Id = {i1}
  Foreign = {}
  Req = {p1, w1, w2, d1, g1}
  Method <- MethodOf
  Lengths = {0, 2}
  Offsets = {0, 1, 2}
  Chunks = {0, 1, 2}
  PartLists <- NoParts
  Extensions <- NoConcatenation
  InfoKind = "file"
  AllowEmpty = TRUE
  MaxFileSize = None
  RemoveParts = FALSE
  ActiveHooks <- FinishHook
  Env <- NoEnv
INVARIANTS HybridStored DownloadIsUpload
PROPERTIES HybridImplementsTusUpload HybridImplementsUploadServer
