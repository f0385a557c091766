SPECIFICATION StandaloneSpec
CONSTANTS
  w1 = w1
  w2 = w2
  stock = stock
  weth9 = weth9
  buyer = buyer
  dist = dist
  stranger = stranger
  s1 = s1
  a = a
  b = b
  c = c
  d = d
  None = None
  Wallets <- MCWallets
  Tokens <- MCTokens
  StrayTokens <- MCTokens
  ProtectedTokens <- MCProtected
  Accounts <- MCAccounts
  MaxDeposit = 3
  NoSigner = NoSigner
  HolderWallets <- MCWallets
  SwitchWallets <- MCSwitchWallets
  LiveModes = {TRUE, FALSE}
  Signers <- MCSigners
  Scopes <- MCScopes
  Expiries <- MCExpiries
  MaxNow = 1
  MaxNonce = 3
  Stocks <- MCStocks
  Founding <- MCFounding
  MaxConstituents = 3
  TimelockDelay = 2
  LastTimestamp = 11
  Puts = {p1, p2}
  Allocations = {n1, n2}
  Client = shared
  Jobs = {propose, activate}
  MaxCycles = 4
  Places = 4
  MaxWeight = 5
  MaxAmount = 9
  Leaves = {l1, l2, l3, l4, l5, l6, l7}
  Outputs <- MCOutputs
  WadDecimals = 1
  Bps = 20
  MaxDeviationBps = 1
  MaxSlippageBps = 2
SYMMETRY MCSymmetry
INVARIANTS CustodyCoversRecord ConsumedIsSpent OneMessagePerNonce
  BasketIsActiveSet BasketWithinBounds PendingNeverStuck
  ReportedIsDurable CycleIdsUnique IdsAreFresh
  BuyerSplitsExactly IndexerSplitsExactly SplitsAgree ProofsVerify GatedQuoteMeetsMinimum
PROPERTIES RewardAssetsLeaveByRedeem OnlyTimelockedRotation
CHECK_DEADLOCK FALSE
