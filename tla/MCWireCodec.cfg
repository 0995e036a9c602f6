CONSTANTS
  Nothing = Nothing
  FormatVersion = 1
  NonceLen <- MCNonceLen
  TagLen = 1  KeyLen = 1  WrappedLen = 1  SignatureLen = 1
  DefaultPolicy <- MCDefaultPolicy
  NoHash = 0
  RecordDomain <- MCRecordDomain
  ContextDomain <- MCContextDomain
  Suites = {1, 2}
  NotUtf8 = {9}
  LengthFloor = 14
  Signers = {21, 22}
  Drafts <- MCDrafts
  Inputs <- MCInputs
  Readers <- MCReaders
  Policies <- MCPolicies
  EditAtoms = {1}
  MaxEdits = 2
  Damaged <- MCDamaged
  MaxGrants = 1
SPECIFICATION Spec
CHECK_DEADLOCK FALSE
INVARIANTS
  ReencodingAgrees
  AcceptedIsSigned ValidSurvives AcceptedIsUnambiguous RefusesOnlyInputs PathsAgree
