CONSTANTS
  phone = phone  bob = bob
  owner = owner  stranger = stranger
  note = note  photo = photo
  NoHead = NoHead
  Clients = {phone, bob}
  Devices = {phone, bob}
  SignerOf <- MCSignerOf
  Signers = {owner, stranger}
  Pinned = owner
  Contexts <- MCContexts
  RecipientSets <- MCRecipientSets
  MaxRecipients = 2
  MaxU64 = 3
  MaxRecords = 4
  MaxSeals = 2
SPECIFICATION Spec
CHECK_DEADLOCK FALSE
INVARIANTS RevisionCountsLinks SuccessorsFollow ForksNeverJoin RevokedStayOut
PROPERTIES OpensForward
