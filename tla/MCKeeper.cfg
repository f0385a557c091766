SPECIFICATION FairKeeperSpec
CONSTANTS
  w1 = w1
  w2 = w2
  Wallets <- MCWallets
  Deposits = {1, 2, 3}
  MaxBlock = 4
  MaxFaults = 2
  LosesPublish = FALSE
  TornTails = FALSE
  UnseenRecords = {"root-activate"}
  ReorgsAfterFunding = FALSE
INVARIANTS KeeperTypeOK LumpedOnce WatermarkDivides FrontierExplained
PROPERTIES ImplementsLog EveryDepositIsShared
