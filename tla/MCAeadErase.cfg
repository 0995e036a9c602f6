CONSTANTS
  CounterSize = 64
  Suites = {"aes256gcm", "chacha20poly1305", "xchacha20poly1305"}
  Builds = {"portable"}
  TextLens = {0, 5}
  AdLens = {0, 3}
  Changes = {"carried", "altered", "short_nonce"}
  NoResult = NoResult
SPECIFICATION Spec
CHECK_DEADLOCK FALSE
INVARIANTS ErasedOnFailure
