CONSTANTS
  W = 8
  L = 521
  Wides <- MCWides
  Encodings <- MCEncodings
  MaxOps = 2
  Nothing = Nothing
  Radix = 64  Fold = 3  A24 = 77  LimbWord = 8192  Wide = 1048576  Slack = 48
  Loads <- MCLoads
  MaxFieldOps = 3
  KeyBits = 8
  PeerOrders = {2, 4, 8, 131, 262, 524, 1048}
  MulWordBits = 6  MulWords = 2
  MulKeyWidths = {3, 4}
  MulBaseWidth = 4
  MulAs <- MCMulAs
  MulBs <- MCMulBs
  Order = 5
  Signed = {0, 1}
  SecondHalves <- MCSecondHalves
  Nonces <- MCNonces
  Challenges <- MCChallenges
  Ciphers = {"aes256gcm", "chacha20poly1305"}
  HpkeSecrets = {"a", "b"}
  HpkeEphemerals <- MCHpkeEphemerals
  HpkeInputs <- MCHpkeInputs
  DeviceIds = {"", "alice", "bob"}
  DeviceEpochs = {0, 1, 2}
  DeviceSecrets = {"one", "two"}
  ServerSecret = "server"
  RecordContexts = {"c1", "c2"}
  MaxKeypairs = 2
  MaxRecords = 2
  MCTexts <- HttpTexts
  MCTokens <- HttpTokens
SPECIFICATION BenchSpec
CHECK_DEADLOCK FALSE
INVARIANTS
  StandsForNumber ArithmeticIsExact PointsAreExact OneVerdictPerSignature OpensForItsPartiesOnly
PROPERTIES
  RoutesTellTheEffect
