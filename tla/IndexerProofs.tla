---------------------------- MODULE IndexerProofs ----------------------------
(***************************************************************************)
(* Theorems of Indexer, for any holders, window, confirmation depth and    *)
(* bounds: whatever grows or reorganises between the calls of an ingest,   *)
(* the store is the chain where it was ingested since, and a complete      *)
(* snapshot is final.                                                      *)
(*                                                                         *)
(* What carries both is that a fork number never comes back: a stored      *)
(* block that is on the chain was read from it and did not change since.   *)
(***************************************************************************)
EXTENDS Indexer, FiniteSetTheorems, WellFoundedInduction, TLAPS

ChainHolds ==
  /\ Tip \in Nat /\ DOMAIN chain = 0 .. Tip /\ Tip <= MaxHeight
  /\ forks \in Nat
  /\ \A h \in DOMAIN chain : /\ chain[h] = [fork |-> chain[h].fork, log |-> chain[h].log]
                            /\ chain[h].fork \in 0 .. forks

\* Only heights of the chain are stored, and no row is without its block.
StoreHolds ==
  /\ DOMAIN blocks = Heights /\ DOMAIN rows = Heights
  /\ \A h \in Heights : /\ blocks[h] \in {Absent} \cup 0 .. forks
                        /\ blocks[h] # Absent => h \in DOMAIN chain
                        /\ blocks[h] = Absent => rows[h] = NoTransfer

\* A stored block of the chain has the row of the chain.
RowsMatch == \A h \in DOMAIN chain : blocks[h] = chain[h].fork => rows[h] = chain[h].log

BlocksMatch == \A h \in DOMAIN chain : h \notin unread => blocks[h] = chain[h].fork

\* Blocks above the window came after it and are not ingested.
WindowHolds ==
  /\ step \in {"idle", "blocks", "transfers", "commit"}
  /\ read = [from |-> read.from, to |-> read.to, blocks |-> read.blocks,
             logs |-> read.logs, since |-> read.since]
  /\ step # "idle" =>
       /\ read.from \in Nat /\ read.to \in Nat /\ read.to <= Tip
       /\ \A h \in DOMAIN chain : h > read.to => h \in unread

\* What was read and did not change since is the chain.
ReadHolds ==
  step \in {"transfers", "commit"} =>
    /\ DOMAIN read.blocks = read.from .. read.to
    /\ \A h \in DOMAIN read.blocks :
         read.blocks[h] \in 0 .. forks /\ (h \notin read.since => read.blocks[h] = chain[h].fork)

LogsHold ==
  step = "commit" =>
    /\ DOMAIN read.logs = read.from .. read.to
    /\ \A h \in DOMAIN read.blocks : read.blocks[h] = chain[h].fork => read.logs[h] = chain[h].log

\* The snapshot is below what can reorganise.
SnapHolds ==
  snap.complete =>
    /\ snap.block \in DOMAIN chain /\ (snap.block = 0 \/ snap.block <= Tip - ConfirmationDepth)
    /\ snap.fork = chain[snap.block].fork
    /\ snap.balances = BalancesAt(Logs, snap.block)
    /\ snap.holders = Eligible(BalancesAt(Logs, snap.block))

IndexerInv ==
  /\ ChainHolds /\ StoreHolds /\ RowsMatch /\ BlocksMatch
  /\ WindowHolds /\ ReadHolds /\ LogsHold /\ SnapHolds

LEMMA Bounds ==
  /\ Supply \in Nat /\ ConfirmationDepth \in Nat /\ RescanWindow \in Nat
  /\ MaxHeight \in Nat /\ MaxForks \in Nat /\ Absent = -1
  BY IndexerAssumption DEF IndexerAssumption, Absent

LEMMA TipOf == ASSUME NEW n \in Nat, NEW f, DOMAIN f = 0 .. n PROVE Cardinality(DOMAIN f) - 1 = n
  BY FS_Interval, 0 \in Int, n \in Int

LEMMA IndexerInitInv == IndexerInit => IndexerInv
<1> SUFFICES ASSUME IndexerInit PROVE IndexerInv
  OBVIOUS
<1>1. DOMAIN chain = {0} /\ {0} = 0 .. 0 /\ chain[0].fork = 0
  BY DEF IndexerInit
<1>2. Tip = 0
  BY <1>1, TipOf DEF Tip
<1>3. ChainHolds
  BY <1>1, <1>2, Bounds DEF ChainHolds, IndexerInit
<1>4. StoreHolds /\ RowsMatch /\ BlocksMatch
  BY <1>1, Bounds DEF IndexerInit, StoreHolds, RowsMatch, BlocksMatch, Heights
<1>5. WindowHolds /\ ReadHolds /\ LogsHold
  BY DEF IndexerInit, WindowHolds, ReadHolds, LogsHold, NoRead
<1>6. SnapHolds
  BY DEF IndexerInit, SnapHolds, NoSnapshot
<1>7. QED
  BY <1>3, <1>4, <1>5, <1>6 DEF IndexerInv

-----------------------------------------------------------------------------
(* The chain changes. *)

\* Rows that agree up to n replay to the same balances at n.
LEMMA SameRowsSameBalances ==
  ASSUME NEW n, NEW f, NEW g, RowsUpTo(f, n) = RowsUpTo(g, n)
  PROVE  BalancesAt(f, n) = BalancesAt(g, n)
  BY DEF BalancesAt

\* The heights that changed are unread, and their blocks have a fork number
\* that nothing stored or read has; the others keep their blocks.
LEMMA ChangeKeepsInv ==
  ASSUME IndexerInv, NEW low \in Nat, NEW top \in Nat, top >= Tip, top <= MaxHeight,
         DOMAIN chain' = 0 .. top, forks' \in Nat, forks' >= forks,
         \A h \in DOMAIN chain : h < low => chain'[h] = chain[h],
         \A h \in DOMAIN chain' : h >= low =>
           /\ chain'[h] = [fork |-> forks', log |-> chain'[h].log]
           /\ h \in DOMAIN chain => forks' > forks,
         low <= Tip + 1, low > 0, low = Tip + 1 \/ low > Tip - ConfirmationDepth,
         Change(low .. top), UNCHANGED <<storeVars, step, snap>>
  PROVE  IndexerInv'
<1>0. /\ Tip \in Nat /\ DOMAIN chain = 0 .. Tip /\ forks \in Nat
      /\ \A h \in DOMAIN chain : chain[h].fork \in 0 .. forks
      /\ MaxHeight \in Nat /\ Heights = 0 .. MaxHeight /\ ConfirmationDepth \in Nat
  BY Bounds DEF IndexerInv, ChainHolds, Heights
<1>1. Tip' = top
  BY TipOf DEF Tip
<1>2. ChainHolds'
  <2>1. ASSUME NEW h \in DOMAIN chain'
        PROVE  /\ chain'[h] = [fork |-> chain'[h].fork, log |-> chain'[h].log]
               /\ chain'[h].fork \in 0 .. forks'
    <3>1. CASE h >= low
      <4>1. chain'[h] = [fork |-> forks', log |-> chain'[h].log]
        BY <3>1
      <4>2. chain'[h].fork = forks'
        BY <4>1
      <4>3. QED
        BY <4>1, <4>2
    <3>2. CASE h < low
      <4>1. h \in DOMAIN chain /\ chain'[h] = chain[h]
        BY <1>0, <3>2
      <4>2. QED
        BY <4>1 DEF IndexerInv, ChainHolds
    <3>3. QED
      BY <1>0, <3>1, <3>2
  <2>2. QED
    BY <1>0, <1>1, <2>1 DEF ChainHolds
<1>3. blocks' = blocks /\ rows' = rows /\ step' = step /\ snap' = snap
  BY DEF storeVars
<1>4. /\ unread' = unread \cup (low .. top)
      /\ read' = [read EXCEPT !.since = @ \cup (low .. top)]
  BY DEF Change
<1>5. StoreHolds'
  BY <1>0, <1>3, Bounds DEF IndexerInv, StoreHolds
<1>6. ASSUME NEW h \in DOMAIN chain', h >= low, h \in DOMAIN chain \/ blocks[h] # Absent
      PROVE  blocks[h] # chain'[h].fork
  BY <1>0, <1>6, Bounds DEF IndexerInv, StoreHolds
<1>7. \A h \in DOMAIN chain' : h < low => h \in DOMAIN chain /\ chain'[h] = chain[h]
  BY <1>0
<1>8. RowsMatch'
  <2>1. SUFFICES ASSUME NEW h \in DOMAIN chain', blocks[h] = chain'[h].fork
                 PROVE  rows[h] = chain'[h].log
    BY <1>3 DEF RowsMatch
  <2>2. CASE h < low
    BY <1>7, <2>1, <2>2 DEF IndexerInv, RowsMatch
  <2>3. CASE h >= low
    BY <1>0, <1>6, <2>1, <2>3, Bounds
  <2>4. QED
    BY <1>0, <2>2, <2>3
<1>9. BlocksMatch'
  BY <1>0, <1>3, <1>4, <1>7 DEF IndexerInv, BlocksMatch
<1>11. /\ read'.from = read.from /\ read'.to = read.to /\ read'.blocks = read.blocks
       /\ read'.logs = read.logs /\ read'.since = read.since \cup (low .. top)
  BY <1>4 DEF IndexerInv, WindowHolds
<1>10. WindowHolds'
  <2>1. ASSUME step # "idle", NEW h \in DOMAIN chain', h > read.to PROVE h \in unread'
    BY <1>0, <1>4, <2>1, SMTT(30) DEF IndexerInv, WindowHolds
  <2>2. read' = [from |-> read.from, to |-> read.to, blocks |-> read.blocks,
                 logs |-> read.logs, since |-> read.since \cup (low .. top)]
    BY <1>4 DEF IndexerInv, WindowHolds
  <2>3. QED
    BY <1>0, <1>1, <1>3, <1>11, <2>1, <2>2 DEF IndexerInv, WindowHolds
<1>12. ASSUME step \in {"transfers", "commit"}, NEW h \in DOMAIN read.blocks
       PROVE  /\ h \in DOMAIN chain /\ read.blocks[h] \in 0 .. forks
              /\ h >= low => read.blocks[h] # chain'[h].fork
  BY <1>0, <1>12, SMTT(30) DEF IndexerInv, ReadHolds, WindowHolds
<1>13. ReadHolds'
  BY <1>0, <1>3, <1>11, <1>12, SMTT(30) DEF IndexerInv, ReadHolds
<1>14. LogsHold'
  BY <1>0, <1>3, <1>11, <1>12, SMTT(30) DEF IndexerInv, LogsHold
<1>15. SnapHolds'
  <2>1. SUFFICES ASSUME snap.complete
                 PROVE  /\ snap.block \in DOMAIN chain'
                        /\ snap.block = 0 \/ snap.block <= top - ConfirmationDepth
                        /\ snap.fork = chain'[snap.block].fork
                        /\ snap.balances = BalancesAt(Logs', snap.block)
                        /\ snap.holders = Eligible(BalancesAt(Logs', snap.block))
    BY <1>1, <1>3 DEF SnapHolds
  <2>2. /\ snap.block \in DOMAIN chain /\ (snap.block = 0 \/ snap.block <= Tip - ConfirmationDepth)
        /\ snap.fork = chain[snap.block].fork
        /\ snap.balances = BalancesAt(Logs, snap.block)
        /\ snap.holders = Eligible(BalancesAt(Logs, snap.block))
    BY <2>1 DEF IndexerInv, SnapHolds
  <2>3. snap.block \in Nat /\ snap.block <= Tip /\ snap.block < low
    BY <1>0, <2>2
  <2>4. \A h \in 0 .. snap.block : Logs[h] = Logs'[h]
    BY <1>0, <2>3 DEF Logs
  <2>5. /\ {h \in DOMAIN Logs : h <= snap.block} = 0 .. snap.block
        /\ {h \in DOMAIN Logs' : h <= snap.block} = 0 .. snap.block
    BY <1>0, <2>3 DEF Logs
  <2>6. RowsUpTo(Logs, snap.block) = RowsUpTo(Logs', snap.block)
    BY <2>4, <2>5 DEF RowsUpTo
  <2>7. BalancesAt(Logs, snap.block) = BalancesAt(Logs', snap.block)
    BY <2>6, SameRowsSameBalances
  <2>8. QED
    BY <1>0, <2>2, <2>3, <2>7, SMTT(30)
<1>16. QED
  BY <1>2, <1>5, <1>8, <1>9, <1>10, <1>13, <1>14, <1>15 DEF IndexerInv

LEMMA NewBlockKeepsInv == ASSUME IndexerInv, NewBlock PROVE IndexerInv'
<1>1. Tip \in Nat /\ DOMAIN chain = 0 .. Tip /\ forks \in Nat /\ MaxHeight \in Nat /\ Tip < MaxHeight
  BY Bounds DEF IndexerInv, ChainHolds, NewBlock
<1>2. PICK log : chain' = [h \in 0 .. Tip + 1 |->
                   IF h \in DOMAIN chain THEN chain[h] ELSE [fork |-> forks, log |-> log]]
  BY DEF NewBlock
<1>3. Change(Tip + 1 .. Tip + 1) /\ forks' = forks /\ UNCHANGED <<storeVars, step, snap>>
  <2>1. {Tip + 1} = Tip + 1 .. Tip + 1
    BY <1>1
  <2>2. QED
    BY <2>1 DEF NewBlock
<1>4. \A h \in DOMAIN chain' : h >= Tip + 1 =>
        chain'[h] = [fork |-> forks', log |-> chain'[h].log] /\ h \notin DOMAIN chain
  BY <1>1, <1>2, <1>3
<1>5. \A h \in DOMAIN chain : chain'[h] = chain[h]
  BY <1>1, <1>2
<1>6. DOMAIN chain' = 0 .. Tip + 1
  BY <1>2
<1> DEFINE top == Tip + 1
<1>7. /\ top \in Nat /\ top > 0 /\ top >= Tip /\ top <= MaxHeight
      /\ top <= Tip + 1 /\ (top = Tip + 1 \/ top > Tip - ConfirmationDepth)
  BY <1>1
<1>8. /\ DOMAIN chain' = 0 .. top /\ Change(top .. top)
      /\ \A h \in DOMAIN chain' : h >= top =>
           /\ chain'[h] = [fork |-> forks', log |-> chain'[h].log]
           /\ h \in DOMAIN chain => forks' > forks
      /\ forks' \in Nat /\ forks' >= forks
      /\ \A h \in DOMAIN chain : h < top => chain'[h] = chain[h]
  BY <1>1, <1>3, <1>4, <1>5, <1>6
<1> HIDE DEF top
<1>9. QED
  BY <1>3, <1>7, <1>8, ChangeKeepsInv

LEMMA ReorganiseKeepsInv ==
  ASSUME IndexerInv, NEW k \in 1 .. ConfirmationDepth, Reorganise(k)
  PROVE  IndexerInv'
<1>1. /\ Tip \in Nat /\ DOMAIN chain = 0 .. Tip /\ forks \in Nat /\ Tip <= MaxHeight
      /\ ConfirmationDepth \in Nat /\ k <= Tip /\ k \in Nat /\ k > 0 /\ k <= ConfirmationDepth
  BY Bounds DEF IndexerInv, ChainHolds, Reorganise
<1>2. PICK kept \in SUBSET (Tip - k + 1 .. Tip) :
        LET log == [h \in DOMAIN chain |->
                      IF h <= Tip - k \/ h \in kept THEN chain[h].log ELSE NoTransfer]
        IN  chain' = [h \in DOMAIN chain |->
                       [fork |-> IF h <= Tip - k THEN chain[h].fork ELSE forks', log |-> log[h]]]
  BY DEF Reorganise
<1>3. forks' = forks + 1 /\ Change(Tip - k + 1 .. Tip) /\ UNCHANGED <<storeVars, step, snap>>
  BY DEF Reorganise
<1>4. DOMAIN chain' = 0 .. Tip
  BY <1>1, <1>2
<1>5. ASSUME NEW h \in DOMAIN chain, h < Tip - k + 1 PROVE chain'[h] = chain[h]
  <2>1. h <= Tip - k
    BY <1>1, <1>5
  <2>2. chain'[h] = [fork |-> chain[h].fork, log |-> chain[h].log]
    BY <1>2, <2>1
  <2>3. chain[h] = [fork |-> chain[h].fork, log |-> chain[h].log]
    BY DEF IndexerInv, ChainHolds
  <2>4. QED
    BY <2>2, <2>3
<1>6. \A h \in DOMAIN chain' : h >= Tip - k + 1 =>
        chain'[h] = [fork |-> forks', log |-> chain'[h].log] /\ forks' > forks
  BY <1>1, <1>2, <1>3, <1>4
<1>7. Tip - k + 1 \in Nat /\ Tip - k + 1 > 0 /\ Tip - k + 1 <= Tip + 1
      /\ Tip - k + 1 > Tip - ConfirmationDepth
  BY <1>1
<1>8. QED
  BY <1>1, <1>3, <1>4, <1>5, <1>6, <1>7, ChangeKeepsInv

-----------------------------------------------------------------------------
(* The process ingests and takes snapshots; the chain stays. *)

LEMMA WindowIsBelowTip ==
  ASSUME ChainHolds
  PROVE  /\ Window.from \in Nat /\ Window.to = Tip /\ Window.from <= Tip
         /\ Window = [from |-> Window.from, to |-> Tip, blocks |-> NoRead.blocks,
                      logs |-> NoRead.logs, since |-> NoRead.since]
  BY Bounds DEF ChainHolds, Window, NoRead

\* Steps of the ingest that only read.
LEMMA ReadingKeepsInv ==
  ASSUME IndexerInv, StartIngest \/ GetBlocks \/ GetTransfers \/ IngestFails
  PROVE  IndexerInv'
<1>0. Tip \in Nat /\ DOMAIN chain = 0 .. Tip /\ \A h \in DOMAIN chain : chain[h].fork \in 0 .. forks
  BY DEF IndexerInv, ChainHolds
<1>1. /\ UNCHANGED <<chain, forks, blocks, rows, unread, snap>> /\ Tip' = Tip /\ Logs' = Logs
  BY DEF StartIngest, GetBlocks, GetTransfers, IngestFails, storeVars, Tip, Logs
<1>2. ChainHolds' /\ StoreHolds' /\ RowsMatch' /\ BlocksMatch' /\ SnapHolds'
  BY <1>1 DEF IndexerInv, ChainHolds, StoreHolds, RowsMatch, BlocksMatch, SnapHolds
<1>3. WindowHolds' /\ ReadHolds' /\ LogsHold'
  <2>1. CASE StartIngest
    BY <1>0, <1>1, <2>1, WindowIsBelowTip
       DEF IndexerInv, StartIngest, WindowHolds, ReadHolds, LogsHold
  <2>2. CASE GetBlocks
    <3>1. /\ step = "blocks" /\ step' = "transfers"
          /\ read.from \in Nat /\ read.to \in Nat /\ read.to <= Tip
          /\ read' = [from |-> read.from, to |-> read.to,
                      blocks |-> [h \in read.from .. read.to |-> chain[h].fork],
                      logs |-> read.logs, since |-> {}]
      BY <2>2 DEF IndexerInv, WindowHolds, GetBlocks
    <3>2. WindowHolds'
      BY <1>1, <3>1 DEF IndexerInv, WindowHolds
    <3>3. QED
      BY <1>0, <1>1, <3>1, <3>2 DEF ReadHolds, LogsHold
  <2>3. CASE GetTransfers
    <3>1. /\ step = "transfers" /\ step' = "commit"
          /\ read.from \in Nat /\ read.to \in Nat /\ read.to <= Tip
          /\ read' = [from |-> read.from, to |-> read.to, blocks |-> read.blocks,
                      logs |-> [h \in read.from .. read.to |-> chain[h].log],
                      since |-> read.since]
      BY <2>3 DEF IndexerInv, WindowHolds, GetTransfers
    <3>2. WindowHolds'
      BY <1>1, <3>1 DEF IndexerInv, WindowHolds
    <3>3. ReadHolds'
      BY <1>1, <3>1 DEF IndexerInv, ReadHolds
    <3>4. LogsHold'
      BY <1>1, <3>1 DEF IndexerInv, ReadHolds, LogsHold
    <3>5. QED
      BY <3>2, <3>3, <3>4
  <2>4. CASE IngestFails
    BY <2>4 DEF IngestFails, WindowHolds, ReadHolds, LogsHold, NoRead
  <2>5. QED
    BY <2>1, <2>2, <2>3, <2>4
<1>4. QED
  BY <1>2, <1>3 DEF IndexerInv

\* The commit of an ingest.  Heights above the window are unread, so rolling
\* back to a fork in the window takes nothing that was ingested since.
LEMMA CommitKeepsInv == ASSUME IndexerInv, Commit PROVE IndexerInv'
<1>0. /\ Tip \in Nat /\ DOMAIN chain = 0 .. Tip /\ Tip <= MaxHeight
      /\ forks \in Nat /\ \A h \in DOMAIN chain : chain[h].fork \in 0 .. forks
      /\ MaxHeight \in Nat /\ Heights = 0 .. MaxHeight
  BY Bounds DEF IndexerInv, ChainHolds, Heights
<1>1. /\ step = "commit" /\ step' = "idle" /\ read' = NoRead
      /\ blocks' = UpsertedBlocks /\ rows' = UpsertedRows
      /\ unread' = (unread \ DOMAIN read.blocks) \cup read.since
      /\ UNCHANGED <<chain, forks, snap>> /\ Tip' = Tip /\ Logs' = Logs
  BY DEF Commit, Tip, Logs
<1>2. /\ read.from \in Nat /\ read.to \in Nat /\ read.to <= Tip
      /\ \A h \in DOMAIN chain : h > read.to => h \in unread
      /\ DOMAIN read.blocks = read.from .. read.to /\ DOMAIN read.logs = read.from .. read.to
  BY <1>1 DEF IndexerInv, WindowHolds, ReadHolds, LogsHold
<1>3. \A h \in DOMAIN read.blocks :
        /\ h \in DOMAIN chain /\ h \in Heights /\ read.blocks[h] \in 0 .. forks
        /\ h \notin read.since => read.blocks[h] = chain[h].fork
        /\ read.blocks[h] = chain[h].fork => read.logs[h] = chain[h].log
  BY <1>0, <1>1, <1>2 DEF IndexerInv, ReadHolds, LogsHold
<1>4. \A h \in Heights :
        /\ blocks[h] \in {Absent} \cup 0 .. forks
        /\ blocks[h] # Absent => h \in DOMAIN chain
        /\ blocks[h] = Absent => rows[h] = NoTransfer
  BY DEF IndexerInv, StoreHolds
<1>5. /\ DOMAIN blocks' = Heights /\ DOMAIN rows' = Heights
      /\ \A h \in Heights :
           /\ blocks'[h] = IF h \in DOMAIN read.blocks THEN read.blocks[h]
                           ELSE IF h \in Kept THEN blocks[h] ELSE Absent
           /\ rows'[h] = IF h \in DOMAIN read.logs /\ read.logs[h] # NoTransfer THEN read.logs[h]
                         ELSE IF h \in Kept THEN rows[h] ELSE NoTransfer
  BY <1>1 DEF UpsertedBlocks, UpsertedRows
<1>6. StoreHolds'
  <2>1. SUFFICES ASSUME NEW h \in Heights
                 PROVE  /\ blocks'[h] \in {Absent} \cup 0 .. forks
                        /\ blocks'[h] # Absent => h \in DOMAIN chain
                        /\ blocks'[h] = Absent => rows'[h] = NoTransfer
    BY <1>1, <1>5 DEF StoreHolds
  <2>2. CASE h \in DOMAIN read.blocks
    BY <1>3, <1>5, <2>2, Bounds
  <2>3. CASE h \notin DOMAIN read.blocks /\ h \in Kept
    <3>1. h \notin DOMAIN read.logs
      BY <1>2, <2>3
    <3>2. blocks'[h] = blocks[h] /\ rows'[h] = rows[h]
      BY <1>5, <2>3, <3>1
    <3>3. QED
      BY <1>4, <3>2
  <2>4. CASE h \notin DOMAIN read.blocks /\ h \notin Kept
    BY <1>2, <1>5, <2>4
  <2>5. QED
    BY <2>2, <2>3, <2>4
<1>7. \A h \in Heights \cap DOMAIN read.blocks : h \in Kept => blocks[h] \in {Absent, read.blocks[h]}
  BY <1>0 DEF Kept, Disagrees
<1>8. RowsMatch'
  <2>1. SUFFICES ASSUME NEW h \in DOMAIN chain, blocks'[h] = chain[h].fork
                 PROVE  rows'[h] = chain[h].log
    BY <1>1 DEF RowsMatch
  <2>2. h \in Heights /\ (blocks[h] = chain[h].fork => rows[h] = chain[h].log)
    BY <1>0, <2>1 DEF IndexerInv, RowsMatch
  <2>3. CASE h \in DOMAIN read.blocks
    <3>1. read.blocks[h] = chain[h].fork /\ read.logs[h] = chain[h].log
      BY <1>3, <1>5, <2>1, <2>2, <2>3
    <3>2. h \in Kept => blocks[h] = Absent \/ blocks[h] = chain[h].fork
      BY <1>7, <2>2, <2>3, <3>1
    <3>3. CASE read.logs[h] # NoTransfer
      BY <1>2, <1>5, <2>2, <2>3, <3>1, <3>3
    <3>4. CASE read.logs[h] = NoTransfer /\ h \in Kept
      <4>1. rows'[h] = rows[h]
        BY <1>5, <2>2, <3>4
      <4>2. rows[h] = NoTransfer
        <5>1. CASE blocks[h] = Absent
          BY <1>4, <2>2, <5>1
        <5>2. CASE blocks[h] = chain[h].fork
          BY <2>2, <3>1, <3>4, <5>2
        <5>3. QED
          BY <3>2, <3>4, <5>1, <5>2
      <4>3. QED
        BY <3>1, <3>4, <4>1, <4>2
    <3>5. CASE read.logs[h] = NoTransfer /\ h \notin Kept
      BY <1>5, <2>2, <3>1, <3>5
    <3>6. QED
      BY <3>3, <3>4, <3>5
  <2>4. CASE h \notin DOMAIN read.blocks
    <3>1. h \in Kept /\ blocks'[h] = blocks[h]
      BY <1>0, <1>5, <2>1, <2>2, <2>4, Bounds
    <3>2. QED
      BY <1>2, <1>5, <2>1, <2>2, <2>4, <3>1
  <2>5. QED
    BY <2>3, <2>4
<1>9. BlocksMatch'
  <2>1. SUFFICES ASSUME NEW h \in DOMAIN chain, h \notin unread'
                 PROVE  blocks'[h] = chain[h].fork
    BY <1>1 DEF BlocksMatch
  <2>2. CASE h \in DOMAIN read.blocks
    BY <1>1, <1>3, <1>5, <2>1, <2>2
  <2>3. CASE h \notin DOMAIN read.blocks
    <3>1. h \notin unread /\ h \in Heights /\ blocks[h] = chain[h].fork
      BY <1>0, <1>1, <2>1, <2>3 DEF IndexerInv, BlocksMatch
    <3>2. h < read.from
      BY <1>0, <1>2, <2>1, <2>3, <3>1
    <3>3. \A f \in Disagrees : h < f
      BY <1>0, <1>2, <3>2 DEF Disagrees
    <3>4. h \in Kept
      BY <3>1, <3>3 DEF Kept
    <3>5. QED
      BY <1>5, <2>3, <3>1, <3>4
  <2>4. QED
    BY <2>2, <2>3
<1>10. ChainHolds' /\ SnapHolds'
  BY <1>1 DEF IndexerInv, ChainHolds, SnapHolds
<1>11. WindowHolds' /\ ReadHolds' /\ LogsHold'
  BY <1>1 DEF WindowHolds, ReadHolds, LogsHold, NoRead
<1>12. QED
  BY <1>6, <1>8, <1>9, <1>10, <1>11 DEF IndexerInv

\* A restart empties the store, and everything is unread.
LEMMA RestartKeepsInv == ASSUME IndexerInv, Restart PROVE IndexerInv'
<1>1. /\ UNCHANGED <<chain, forks>> /\ Tip' = Tip /\ unread' = DOMAIN chain
      /\ blocks' = [h \in Heights |-> Absent] /\ rows' = [h \in Heights |-> NoTransfer]
      /\ step' = "idle" /\ read' = NoRead /\ snap' = NoSnapshot
  BY DEF Restart, Tip
<1>2. ChainHolds' /\ \A h \in DOMAIN chain : chain[h].fork # Absent
  BY <1>1, Bounds DEF IndexerInv, ChainHolds
<1>3. StoreHolds'
  BY <1>1 DEF StoreHolds
<1>4. RowsMatch' /\ BlocksMatch'
  BY <1>1, <1>2, Bounds DEF RowsMatch, BlocksMatch, Heights, IndexerInv, ChainHolds
<1>5. WindowHolds' /\ ReadHolds' /\ LogsHold' /\ SnapHolds'
  BY <1>1 DEF WindowHolds, ReadHolds, LogsHold, SnapHolds, NoRead, NoSnapshot
<1>6. QED
  BY <1>2, <1>3, <1>4, <1>5 DEF IndexerInv

-----------------------------------------------------------------------------
\* A non-empty set of heights has a greatest one.
LEMMA GreatestHeight ==
  ASSUME NEW n \in Nat, NEW S \in SUBSET (0 .. n), S # {}
  PROVE  Max(S) \in S
<1> DEFINE Depths == {n - g : g \in S}
<1>1. \A g \in S : g \in Int /\ n - g \in Nat
  OBVIOUS
<1>2. Depths \subseteq Nat /\ Depths # {}
  BY <1>1
<1>3. PICK least \in Depths : \A y \in Depths : <<y, least>> \notin OpToRel(<, Nat)
  <2> HIDE DEF Depths
  <2>1. QED
    BY <1>2, NatLessThanWellFounded, WFMin
<1>4. PICK top \in S : least = n - top
  OBVIOUS
<1>5. \A g \in S : ~(n - g < n - top)
  BY <1>2, <1>3, <1>4 DEF OpToRel
<1>6. \A g \in S : top >= g
  BY <1>1, <1>5
<1>7. QED
  BY <1>6 DEF Max

LEMMA SnapshotKeepsInv == ASSUME IndexerInv, TakeSnapshot PROVE IndexerInv'
<1> DEFINE n == ConfirmedTip(Max(Stored))
<1>0. /\ Tip \in Nat /\ DOMAIN chain = 0 .. Tip /\ Tip <= MaxHeight
      /\ MaxHeight \in Nat /\ Heights = 0 .. MaxHeight /\ ConfirmationDepth \in Nat
      /\ DOMAIN rows = Heights
  BY Bounds DEF IndexerInv, ChainHolds, StoreHolds, Heights
<1>1. /\ UNCHANGED <<chain, forks, blocks, rows, step, read, unread>>
      /\ Tip' = Tip /\ Logs' = Logs
  BY DEF TakeSnapshot, storeVars, Tip, Logs
<1>2. /\ Stored # {} /\ n \in Stored
      /\ snap' = [block |-> n, fork |-> blocks[n],
                  balances |-> BalancesAt(rows, n), holders |-> Eligible(BalancesAt(rows, n)),
                  complete |-> unread \cap 0 .. n = {}]
  BY DEF TakeSnapshot
<1>3. Stored \subseteq DOMAIN chain
  BY DEF IndexerInv, StoreHolds, Stored
<1>4. Max(Stored) \in 0 .. Tip
  BY <1>0, <1>2, <1>3, GreatestHeight
<1>5. n \in DOMAIN chain /\ (n = 0 \/ n <= Tip - ConfirmationDepth)
  BY <1>0, <1>2, <1>3, <1>4 DEF ConfirmedTip
<1> HIDE DEF n
<1>6. ASSUME unread \cap 0 .. n = {}
      PROVE  blocks[n] = chain[n].fork /\ BalancesAt(rows, n) = BalancesAt(Logs, n)
  <2>1. \A h \in 0 .. n : h \in DOMAIN chain /\ h \notin unread
    BY <1>0, <1>5, <1>6
  <2>2. \A h \in 0 .. n : blocks[h] = chain[h].fork /\ rows[h] = chain[h].log
    BY <2>1 DEF IndexerInv, BlocksMatch, RowsMatch
  <2>3. /\ {h \in DOMAIN rows : h <= n} = 0 .. n
        /\ {h \in DOMAIN Logs : h <= n} = 0 .. n
        /\ \A h \in 0 .. n : rows[h] = Logs[h]
    BY <1>0, <1>5, <2>2 DEF Logs
  <2>4. RowsUpTo(rows, n) = RowsUpTo(Logs, n)
    BY <2>3 DEF RowsUpTo
  <2>5. n \in 0 .. n
    BY <1>0, <1>5
  <2>6. QED
    BY <2>2, <2>4, <2>5, SameRowsSameBalances
<1>7. SnapHolds'
  BY <1>1, <1>2, <1>5, <1>6 DEF SnapHolds
<1>8. ChainHolds' /\ StoreHolds' /\ RowsMatch' /\ BlocksMatch' /\ WindowHolds' /\ ReadHolds' /\ LogsHold'
  BY <1>1 DEF IndexerInv, ChainHolds, StoreHolds, RowsMatch, BlocksMatch, WindowHolds, ReadHolds, LogsHold
<1>9. QED
  BY <1>7, <1>8 DEF IndexerInv

LEMMA StutterKeepsIndexerInv == ASSUME IndexerInv, UNCHANGED indexerVars PROVE IndexerInv'
<1>1. /\ UNCHANGED <<chain, forks, blocks, rows, step, read, unread, snap>>
      /\ Tip' = Tip /\ Logs' = Logs
  BY DEF indexerVars, storeVars, Tip, Logs
<1>2. QED
  BY <1>1 DEF IndexerInv, ChainHolds, StoreHolds, RowsMatch, BlocksMatch, WindowHolds, ReadHolds,
              LogsHold, SnapHolds

LEMMA IndexerInvariant == IndexerSpec => []IndexerInv
<1>1. IndexerInv /\ [IndexerNext]_indexerVars => IndexerInv'
  BY NewBlockKeepsInv, ReorganiseKeepsInv, ReadingKeepsInv, CommitKeepsInv, RestartKeepsInv,
     SnapshotKeepsInv, StutterKeepsIndexerInv DEF IndexerNext
<1>2. QED
  BY <1>1, IndexerInitInv, PTL DEF IndexerSpec

\* Reorganisations between the calls of an ingest leave nothing of an abandoned
\* fork at a height that was ingested since it changed.
THEOREM StoreIsTheChain == IndexerSpec => []StoreMirrorsChain
<1>1. IndexerInv => StoreMirrorsChain
  BY DEF IndexerInv, RowsMatch, BlocksMatch, StoreMirrorsChain
<1>2. QED
  BY <1>1, IndexerInvariant, PTL

\* A snapshot that missed no block holds for good, however deep the chain
\* reorganises within the confirmation depth.
THEOREM SnapshotsStayFinal == IndexerSpec => []SnapshotsAreFinal
<1>1. IndexerInv => SnapshotsAreFinal
  BY DEF IndexerInv, SnapHolds, SnapshotsAreFinal
<1>2. QED
  BY <1>1, IndexerInvariant, PTL
=============================================================================
