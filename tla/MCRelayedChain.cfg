CONSTANTS
  phone = phone  tablet = tablet  bob = bob
  owner = owner
  note = note
  NoHead = NoHead
  NoRecord = NoRecord
  Clients = {phone, tablet, bob}
  Devices = {phone, tablet}
  Readers = {bob}
  SignerOf <- MCSignerOf
  Signers = {owner}
  Pinned = owner
  Contexts <- MCContexts
  RecipientSets <- MCRecipientSets
  MaxRecipients = 3
  MaxU64 = 4
  MaxRecords = 3
  MaxSeals = 2
SPECIFICATION RelayedSpec
CHECK_DEADLOCK FALSE
PROPERTIES ImplementsChain GrantsExtendTheSlot RetriesAreHarmless StrandedUntilRekeyed
