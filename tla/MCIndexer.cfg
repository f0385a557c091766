SPECIFICATION IndexerSpec
CONSTANTS
  treasury = treasury
  holder = holder
  Zero = zero
  Treasury = treasury
  Holders <- MCHolders
  Excluded <- MCExcluded
  Supply = 2
  Threshold = 1
  ConfirmationDepth = 2
  RescanWindow = 2
  MaxHeight = 4
  MaxForks = 2
INVARIANTS StoreMirrorsChain SnapshotsAreFinal
CHECK_DEADLOCK FALSE
