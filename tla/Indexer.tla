------------------------------ MODULE Indexer ------------------------------
(***************************************************************************)
(* The indexer (services/indexer) under the keeper's ingest and snapshot   *)
(* jobs: a window of blocks below the tip is read in several calls while   *)
(* the chain grows and reorganises, forks found in the store are rolled    *)
(* back, and balances at a confirmed block are replayed from the transfer  *)
(* rows.                                                                   *)
(*                                                                         *)
(* A block hash is its height and the number of the fork that mined it:    *)
(* an abandoned block never comes back.  A block holds at most one PENNY   *)
(* transfer, so a row's key is its height.  Block 0 mints the supply.      *)
(* Every read of the source is a chain (isContiguous holds of it), and     *)
(* the store is the only one there is, MemoryStore: a restart empties it.  *)
(***************************************************************************)
EXTENDS Integers, FiniteSets, FiniteSetsExt

CONSTANTS
  Holders, Treasury, Zero,  \* addresses; the zero address is no holder
  Excluded,                 \* protocol addresses that never count as holders
  Supply, Threshold,        \* minted in block 0; PENNY needed to be eligible
  ConfirmationDepth,        \* blocks after which the chain does not reorganise
  RescanWindow,             \* blocks below the tip that ingest reads
  MaxHeight, MaxForks       \* bounds: chain height, reorganisations

ASSUME IndexerAssumption ==
  /\ Treasury \in Holders /\ Zero \notin Holders /\ Excluded \subseteq Holders
  /\ {Supply, ConfirmationDepth, RescanWindow, MaxHeight, MaxForks} \subseteq Nat
  /\ Threshold \in Nat \ {0}

VARIABLES
  chain, forks, \* the canonical chain, by height; reorganisations so far
  blocks, rows, \* the store: hashes (forks) and transfer rows, by height
  step, read,   \* the ingest in progress and what it has read
  unread,       \* history: heights whose block changed since they were last ingested
  snap          \* the last SnapshotResult

storeVars == <<blocks, rows>>
indexerVars == <<chain, forks, storeVars, step, read, unread, snap>>

Heights == 0 .. MaxHeight
Transfer == [from : Holders \cup {Zero}, to : Holders \cup {Zero}, amount : {1}]
NoTransfer == [from |-> Zero, to |-> Zero, amount |-> 0]
Mint == [from |-> Zero, to |-> Treasury, amount |-> Supply]
Absent == -1
NoRead == [from |-> 0, to |-> 0, blocks |-> <<>>, logs |-> <<>>, since |-> {}]
NoSnapshot == [block |-> Absent, fork |-> Absent, complete |-> FALSE]

Tip == Cardinality(DOMAIN chain) - 1

\* balancesAt: the replay of the rows up to a block.
RowsUpTo(log, n) == [h \in {h \in DOMAIN log : h <= n} |-> log[h]]

Replay(log) ==
  [w \in Holders |->
     MapThenSumSet(LAMBDA h : (IF log[h].to = w THEN log[h].amount ELSE 0)
                            - (IF log[h].from = w THEN log[h].amount ELSE 0), DOMAIN log)]

BalancesAt(log, n) == Replay(RowsUpTo(log, n))

Eligible(balances) == {w \in Holders \ Excluded : balances[w] >= Threshold}

Logs == [h \in DOMAIN chain |-> chain[h].log]

IndexerInit ==
  /\ chain = [h \in {0} |-> [fork |-> 0, log |-> Mint]] /\ forks = 0
  /\ blocks = [h \in Heights |-> Absent] /\ rows = [h \in Heights |-> NoTransfer]
  /\ step = "idle" /\ read = NoRead
  /\ unread = {0} /\ snap = NoSnapshot

-----------------------------------------------------------------------------
\* The chain

\* What may be in a block on top of the given chain: nothing or a transfer (or
\* burn) of one unit that its sender has.
LogsAfter(log, n) ==
  LET balances == BalancesAt(log, n)
  IN  {NoTransfer} \cup
      {l \in Transfer : l.from # l.to /\ l.from # Zero /\ balances[l.from] > 0}

Change(heights) ==
  /\ unread' = unread \cup heights
  /\ read' = [read EXCEPT !.since = @ \cup heights]

NewBlock ==
  /\ Tip < MaxHeight \* bound
  /\ \E log \in LogsAfter(Logs, Tip) :
       chain' = [h \in 0 .. Tip + 1 |->
                   IF h \in DOMAIN chain THEN chain[h] ELSE [fork |-> forks, log |-> log]]
  /\ Change({Tip + 1})
  /\ UNCHANGED <<forks, storeVars, step, snap>>

\* The last k blocks are replaced by as many, with or without their transfers.
Reorganise(k) ==
  /\ k <= Tip
  /\ forks < MaxForks \* bound
  /\ forks' = forks + 1
  /\ \E kept \in SUBSET (Tip - k + 1 .. Tip) :
       LET log == [h \in DOMAIN chain |->
                     IF h <= Tip - k \/ h \in kept THEN chain[h].log ELSE NoTransfer]
       IN  /\ \A h \in DOMAIN chain, w \in Holders : BalancesAt(log, h)[w] >= 0
           /\ chain' = [h \in DOMAIN chain |->
                          [fork |-> IF h <= Tip - k THEN chain[h].fork ELSE forks', log |-> log[h]]]
  /\ Change(Tip - k + 1 .. Tip)
  /\ UNCHANGED <<storeVars, step, snap>>

-----------------------------------------------------------------------------
\* ingest

\* ingestBatch: the window ends at the tip of this moment.
Window ==
  [NoRead EXCEPT !.from = IF Tip > RescanWindow THEN Tip - RescanWindow ELSE 0, !.to = Tip]

\* runIngest
StartIngest ==
  /\ step = "idle" /\ step' = "blocks"
  /\ read' = Window
  /\ UNCHANGED <<chain, forks, storeVars, unread, snap>>

GetBlocks ==
  /\ step = "blocks" /\ step' = "transfers"
  /\ read' = [read EXCEPT !.blocks = [h \in read.from .. read.to |-> chain[h].fork],
                          !.since = {}]
  /\ UNCHANGED <<chain, forks, storeVars, unread, snap>>

GetTransfers ==
  /\ step = "transfers" /\ step' = "commit"
  /\ read' = [read EXCEPT !.logs = [h \in read.from .. read.to |-> chain[h].log]]
  /\ UNCHANGED <<chain, forks, storeVars, unread, snap>>

\* forkAt: heights at which the store disagrees with the batch.
Disagrees == {h \in DOMAIN read.blocks : blocks[h] \notin {Absent, read.blocks[h]}}

\* Mutant: the block at the fork itself is not deleted.
KeptAbove == {h \in Heights : \A f \in Disagrees : h <= f}

\* deleteFromBlock for every block that disagrees.
Kept == {h \in Heights : \A f \in Disagrees : h < f}

\* upsertBlock for the batch, over what was kept.
UpsertedBlocks ==
  [h \in Heights |-> IF h \in DOMAIN read.blocks THEN read.blocks[h]
                     ELSE IF h \in Kept THEN blocks[h] ELSE Absent]

\* upsertTransfers: a block without a transfer leaves the row of its height alone.
UpsertedRows ==
  [h \in Heights |-> IF h \in DOMAIN read.logs /\ read.logs[h] # NoTransfer THEN read.logs[h]
                     ELSE IF h \in Kept THEN rows[h] ELSE NoTransfer]

\* ingestRange once everything is read: roll back, then upsert.
Commit ==
  /\ step = "commit" /\ step' = "idle" /\ read' = NoRead
  /\ blocks' = UpsertedBlocks /\ rows' = UpsertedRows
  /\ unread' = (unread \ DOMAIN read.blocks) \cup read.since
  /\ UNCHANGED <<chain, forks, snap>>

\* A call to the source fails: the cycle ends.
IngestFails ==
  /\ step # "idle" /\ step' = "idle" /\ read' = NoRead
  /\ UNCHANGED <<chain, forks, storeVars, unread, snap>>

Restart ==
  /\ blocks' = [h \in Heights |-> Absent] /\ rows' = [h \in Heights |-> NoTransfer]
  /\ step' = "idle" /\ read' = NoRead
  /\ unread' = DOMAIN chain
  /\ snap' = NoSnapshot
  /\ UNCHANGED <<chain, forks>>

-----------------------------------------------------------------------------
\* snapshot

Stored == {h \in Heights : blocks[h] # Absent}

\* Mutant: the tip counts as confirmed.
ConfirmedAtOnce(tip) == tip

ConfirmedTip(tip) == IF tip > ConfirmationDepth THEN tip - ConfirmationDepth ELSE 0

\* snapshot() at the confirmed cursor, which must be a stored block.
TakeSnapshot ==
  /\ step = "idle" /\ Stored # {}
  /\ LET n == ConfirmedTip(Max(Stored))
         balances == BalancesAt(rows, n)
     IN  /\ n \in Stored
         /\ snap' = [block |-> n, fork |-> blocks[n],
                     balances |-> balances, holders |-> Eligible(balances),
                     complete |-> unread \cap 0 .. n = {}]
  /\ UNCHANGED <<chain, forks, storeVars, step, read, unread>>

IndexerNext ==
  \/ NewBlock \/ \E k \in 1 .. ConfirmationDepth : Reorganise(k)
  \/ StartIngest \/ GetBlocks \/ GetTransfers \/ Commit \/ IngestFails \/ Restart
  \/ TakeSnapshot

IndexerSpec == IndexerInit /\ [][IndexerNext]_indexerVars

-----------------------------------------------------------------------------
\* "The whole subtree from that height is rolled back atomically and replayed"
\* (D028): whatever reorganised between the calls of an ingest, at every height
\* that was ingested since its block last changed the store is the chain, with
\* no row of an abandoned fork left.
StoreMirrorsChain ==
  \A h \in (DOMAIN chain) \ unread : blocks[h] = chain[h].fork /\ rows[h] = chain[h].log

\* A snapshot is final: when no block up to it was missed, its block and the
\* balances and holders derived from the rows are those of the chain, for good.
SnapshotsAreFinal ==
  snap.complete =>
    /\ snap.fork = chain[snap.block].fork
    /\ snap.balances = BalancesAt(Logs, snap.block)
    /\ snap.holders = Eligible(BalancesAt(Logs, snap.block))

\* "The sum of all non-zero balances at any block equals the circulating
\* supply" (snapshot.ts:15); nothing is burned below the snapshot.
BalancesSumToSupply ==
  snap.block # Absent /\ (\A h \in 0 .. snap.block : chain[h].log.to # Zero \/ chain[h].log = NoTransfer) =>
    MapThenSumSet(LAMBDA w : snap.balances[w], Holders) = Supply
=============================================================================
