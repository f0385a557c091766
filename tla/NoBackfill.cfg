SPECIFICATION IndexerSpec
CONSTANTS
  treasury = treasury
  holder = holder
  Zero = zero
  Treasury = treasury
  Holders <- MCHolders
  Excluded <- MCExcluded
  Supply = 2
  Threshold = 1
  ConfirmationDepth = 1
  RescanWindow = 2
  MaxHeight = 4
  MaxForks = 2
INVARIANTS BalancesSumToSupply
CHECK_DEADLOCK FALSE
