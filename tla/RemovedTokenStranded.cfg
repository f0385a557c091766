SPECIFICATION RailSpec
CONSTANTS
  w1 = w1
  w2 = w2
  t1 = t1
  t2 = t2
  s1 = s1
  buyer = buyer
  dist = dist
  None = None
  NoSigner = NoSigner
  Wallets <- OneWallet
  HolderWallets <- OneWallet
  SwitchWallets <- NoWallets
  Tokens <- TwoTokens
  ProtectedTokens <- NoTokens
  StrayTokens <- NoTokens
  Accounts <- MCAccounts
  Buyer = buyer
  Distributor = dist
  Signers <- MCSigners
  Scopes <- MCScopes
  Expiries <- MCExpiries
  MaxDeposit = 2
  MaxTogether = 2
  ChallengeDelay = 1
  MaxRewardTokens = 8
  MaxEpochs = 2
  MaxNow = 1
  LiveModes = {FALSE}
  MaxNonce = 0
SYMMETRY MCSymmetry
INVARIANT NeverStranded
CHECK_DEADLOCK FALSE
