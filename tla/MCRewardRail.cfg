SPECIFICATION RailSpec
CONSTANTS
  w1 = w1
  w2 = w2
  t1 = t1
  t2 = t2
  s1 = s1
  buyer = buyer
  dist = dist
  None = None
  NoSigner = NoSigner
  Wallets <- TwoWallets
  HolderWallets <- TwoWallets
  SwitchWallets <- NoWallets
  Tokens <- TwoTokens
  ProtectedTokens <- NoTokens
  StrayTokens <- NoTokens
  Accounts <- MCAccounts
  Buyer = buyer
  Distributor = dist
  Signers <- MCSigners
  Scopes <- MCScopes
  Expiries <- MCExpiries
  MaxDeposit = 3
  MaxTogether = 2
  ChallengeDelay = 1
  MaxRewardTokens = 8
  MaxEpochs = 3
  MaxNow = 2
  LiveModes = {FALSE}
  MaxNonce = 0
SYMMETRY MCSymmetry
INVARIANTS Solvent StableListNeverStrands StableListKeepsTotals
PROPERTY ImplementsPayout
CHECK_DEADLOCK FALSE
