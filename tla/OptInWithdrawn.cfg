SPECIFICATION RegistrySpec
CONSTANTS
  w1 = w1
  w2 = w2
  s1 = s1
  NoSigner = NoSigner
  HolderWallets <- MCWallets
  SwitchWallets <- MCSwitchWallets
  LiveModes = {TRUE, FALSE}
  Signers <- MCSigners
  Scopes <- MCScopes
  Expiries <- MCExpiries
  MaxNow = 1
  MaxNonce = 3
PROPERTY WithdrawnNeverConsumed
CHECK_DEADLOCK FALSE
