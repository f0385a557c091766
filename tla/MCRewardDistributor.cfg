SPECIFICATION Spec
CONSTANTS
  w1 = w1
  w2 = w2
  t1 = t1
  t2 = t2
  s1 = s1
  buyer = buyer
  dist = dist
  None = None
  NoSigner = NoSigner
  Wallets <- TwoWallets
  HolderWallets <- TwoWallets
  SwitchWallets <- TwoWallets
  Tokens <- OneToken
  ProtectedTokens <- NoTokens
  StrayTokens <- OneToken
  Accounts <- MCAccounts
  Buyer = buyer
  Distributor = dist
  Signers <- MCSigners
  Scopes <- MCScopes
  Expiries <- MCExpiries
  MaxDeposit = 1
  ChallengeDelay = 1
  MaxRewardTokens = 8
  MaxEpochs = 2
  MaxNow = 1
  LiveModes = {FALSE}
  MaxNonce = 0
SYMMETRY MCSymmetry
INVARIANTS TypeOK PaidIsClaimed ClaimedRestsOnActiveRoot TotalsOrderedAndFunded
PROPERTIES ActiveRootsAreFinal ProgressIsKept
CHECK_DEADLOCK FALSE
