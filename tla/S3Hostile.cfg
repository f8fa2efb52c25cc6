SPECIFICATION ScenarioSpec
CONSTANTS
  None = None Empty = Empty Garbled = Garbled
  i1 = i1 i2 = i2
  p1 = p1 p2 = p2 w1 = w1 w2 = w2 d1 = d1 g1 = g1
  Absent = Absent Terminated = Terminated
  Id = {i1, i2}
  Foreign = {}
  Req = {p1, p2, w1, w2, d1, g1}
  Method <- MethodOf
  Lengths = {2}
  Offsets = {0, 1}
  Chunks = {1, 2}
  PartLists <- SinglePart
  Extensions <- NoUpload
  InfoKind = "redis"
  AllowEmpty = FALSE
  MaxFileSize = None
  RemoveParts = TRUE
  ActiveHooks <- SomeHooks
  Env <- AnyEnv
SYMMETRY Symmetric
INVARIANTS S3TypeOK ListedPartsExact CompleteIsExact DownloadIsWhole DeletedObjectGone
