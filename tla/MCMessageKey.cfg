CONSTANTS
  Machines = {arm, x86}
  HasAes = {arm}
  Contexts = {ctx1, ctx2}
  Plaintexts = {yes, no}
  Bytes = {0, 1, 2, 3}
  Lengths = {0, 13, 14, 25, 28, 29, 41}
  MaxMessages = 1
  NoAnswer = NoAnswer
SPECIFICATION Spec
INVARIANTS OpensOnlyGenuine OpensUnlessNonceClashes
