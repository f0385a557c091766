SPECIFICATION KeeperSpec
CONSTANTS
  w1 = w1
  w2 = w2
  Wallets <- MCWallets
  Deposits = {1, 2, 3}
  MaxBlock = 3
  MaxFaults = 2
  LosesPublish = TRUE
  TornTails = FALSE
  UnseenRecords = {}
  ReorgsAfterFunding = FALSE
INVARIANTS LumpedOnce
