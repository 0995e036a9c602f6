CONSTANTS
  ChunkLen = 2
  Lengths = {0, 1, 2, 3, 4, 5}
  Unix = {TRUE, FALSE}
  NoResult = NoResult
  InvalidParams = InvalidParams
  Guesses = {"correct", "other"}
  Releases <- MCReleases
  MaxPasswordRows = 2
  MaxRowEdits = 1
  CounterSize = 16
  StreamStarts = {0, 1, 13}
  StreamCalls = {1, 16, 17, 63, 64, 65, 127, 128, 129, 205}
  MaxStreamCalls = 2
  AeadTextLens = {0, 1, 16, 17, 65, 335}
  AeadAdLens = {0, 3}
  KdfBlock = 3
  KdfHash = 2
  KdfSpan = 4
  KdfSaltLens = {0, 1, 2, 3, 4}
  KdfInfoLens = {0, 1}
  KdfOutputLens = {0, 1, 2, 3, 4, 5, 6, 7, 8, 9}
  ShaAlgorithms = {"sha256", "sha512"}
  ShaBlockLens <- BlockLens
  ShaFieldLens <- FieldLens
  ShaLengthMod = 65536
  ShaMaxLen = 17
  PolyByteOf = 16
  PolyKeys <- MCPolyKeys
  PolyPatterns <- MCPolyPatterns
  PolyMaxLen <- PolyLen
  BlakeBlock = 4
  BlakeOutputLens = {32, 64}
  BlakeMaxLen = 10
SPECIFICATION BenchSpec
CHECK_DEADLOCK FALSE
INVARIANTS
  OnlyFreshBytes FastPathsAreExact OpensWhatWasSealed DerivationsAreStable
PROPERTIES
  HashersImplementOneShot ArgonWalksItsMemory KeystreamRepeatsByTurns CallsReturn
