---------------------------- MODULE KeeperProofs ----------------------------
(***************************************************************************)
(* Theorems of Keeper: for any wallets, deposits, heights and numbers of   *)
(* faults a deposit is lumped once, the watermark divides the deposits,    *)
(* the ledger explains the frontier, and the keeper implements EpochLog.   *)
(*                                                                         *)
(* All of it holds under Contained, which excludes exactly what the runs   *)
(* expected to fail let happen, and a write-ahead intent that goes unseen: *)
(* recovery would then take an older intent with the same root for it.     *)
(***************************************************************************)
EXTENDS Keeper, TLAPS

\* Neither a death nor a failing job loses sight of a publish that is pending,
\* lines are whole, the intent is seen, and a deposit that was read stays.
Contained ==
  /\ LosesPublish = FALSE /\ TornTails = FALSE /\ ReorgsAfterFunding = FALSE
  /\ "root-propose" \notin UnseenRecords

Once(a) == \A d \in Deposits : Len(a[d]) <= 1

\* The deposits shared in a are those made up to block w.
Divides(a, w) == \A d \in Deposits : a[d] # <<>> <=> minedIn[d] \in 1 .. w

Covers(cursor) ==
  cursor.watermark <= tip /\ Once(cursor.alloc) /\ Divides(cursor.alloc, cursor.watermark)

DiskHolds == onDisk.intent = intent /\ onDisk.activation = activation /\ onDisk.torn = FALSE

\* The recorded cursor is that of an epoch on chain, or the empty one.
CursorHolds ==
  /\ Covers(activation)
  /\ activation.index <= Len(published)
  /\ activation.index > 0 => published[activation.index].alloc = activation.alloc
  /\ activation.index = 0 => activation.watermark = 0

\* An epoch beyond the recorded cursor is that of the intent.
FrontierHolds ==
  Len(published) > activation.index =>
    /\ Len(published) = activation.index + 1
    /\ intent.next.index = Len(published)
    /\ intent.root = published[Len(published)]
    /\ intent.next.alloc = intent.root.alloc
    /\ Covers(intent.next)

Afterwards == {"snapshot", "drift-check", "build", "validate", "propose", "probe", "send",
               "await", "record"}
Built == {"validate", "propose", "probe", "send", "await", "record"}
Intended == {"probe", "send", "await", "record"}

\* What the cycle funded is what was made after the cursor and up to its tip.
FundingHolds ==
  pc \in Afterwards =>
    /\ activation.watermark <= ctx.fundingTip /\ ctx.fundingTip <= tip
    /\ \A d \in Deposits :
         d \in ctx.funded <=> minedIn[d] \in activation.watermark + 1 .. ctx.fundingTip

BuiltHolds ==
  pc \in Built =>
    /\ ctx.funded # {} /\ ctx.root.holders # {}
    /\ ctx.index = activation.index + 1
    /\ ctx.root.alloc = [d \in Deposits |->
         IF d \in ctx.funded THEN activation.alloc[d] \o <<ctx.root.holders>>
                             ELSE activation.alloc[d]]

\* Where the process stands: what it waits for is the one transaction sent,
\* and only the epoch it is about to record is beyond its cursor.
CycleHolds ==
  /\ mempool = IF pc = "await" THEN <<ctx.root>> ELSE <<>>
  /\ pc # "idle" => ctx.cursor = activation
  /\ pc \notin {"idle", "record"} => Len(published) = activation.index
  /\ pc \in Intended => intent.root = ctx.root /\ intent.next = NextCursor
  /\ pc = "record" => Len(published) = ctx.index /\ published[ctx.index] = ctx.root

ContextHolds == FundingHolds /\ BuiltHolds /\ CycleHolds

KeeperInv ==
  KeeperTypeOK /\ DiskHolds /\ LumpedOnce /\ CursorHolds /\ FrontierHolds /\ ContextHolds

LEMMA EmptySharing ==
  /\ Unshared \in Sharing /\ NoRoot \in Root /\ EmptyCursor \in Cursor
  /\ NoIntent \in [root : Root, next : Cursor]
  /\ NoContext \in [cursor : Cursor, fundingTip : 0 .. MaxBlock, funded : SUBSET Deposits,
                    root : Root, index : Nat]
<1>0. MaxBlock \in Nat
  BY KeeperAssumption DEF KeeperAssumption
<1>1. Unshared \in Sharing
  BY DEF Unshared, Sharing
<1>2. NoRoot \in Root /\ EmptyCursor \in Cursor
  BY <1>0, <1>1 DEF NoRoot, Root, EmptyCursor, Cursor
<1>3. QED
  BY <1>0, <1>1, <1>2 DEF NoIntent, NoContext

LEMMA KeeperInitInv == KeeperInit => KeeperInv
<1> SUFFICES ASSUME KeeperInit PROVE KeeperInv
  OBVIOUS
<1>0. MaxBlock \in Nat /\ MaxFaults \in Nat
  BY KeeperAssumption DEF KeeperAssumption
<1>1. onDisk \in [intent : [root : Root, next : Cursor], activation : Cursor, torn : BOOLEAN]
  BY EmptySharing DEF KeeperInit
<1>2. KeeperTypeOK
  BY <1>0, <1>1, EmptySharing DEF KeeperInit, KeeperTypeOK, Jobs
<1>3. DiskHolds
  BY DEF KeeperInit, DiskHolds
<1>4. LumpedOnce
  BY DEF KeeperInit, LumpedOnce
<1>5. Covers(activation)
  BY DEF KeeperInit, Covers, Once, Divides, EmptyCursor, Unshared
<1>6. CursorHolds /\ FrontierHolds
  BY <1>5 DEF KeeperInit, CursorHolds, FrontierHolds, EmptyCursor
<1>7. ContextHolds
  BY DEF KeeperInit, ContextHolds, FundingHolds, BuiltHolds, CycleHolds, Afterwards, Built, Intended
<1>8. QED
  BY <1>2, <1>3, <1>4, <1>6, <1>7 DEF KeeperInv

-----------------------------------------------------------------------------
(* The chain grows under the process. *)

\* A block above w adds nothing to what is made up to w.
LEMMA GrowthDivides ==
  ASSUME KeeperTypeOK, NEW made \in SUBSET Deposits, Extend(made),
         NEW a, NEW w \in Nat, w <= tip, Divides(a, w),
         \A d \in made : minedIn[d] \notin 1 .. w
  PROVE  \A d \in Deposits : a[d] # <<>> <=> minedIn'[d] \in 1 .. w
<1>1. tip \in Nat
  BY KeeperAssumption DEF KeeperTypeOK, KeeperAssumption
<1> SUFFICES ASSUME NEW d \in Deposits PROVE a[d] # <<>> <=> minedIn'[d] \in 1 .. w
  OBVIOUS
<1>2. CASE d \in made
  BY <1>1, <1>2 DEF Extend, Divides
<1>3. CASE d \notin made
  BY <1>1, <1>3 DEF Extend, Divides
<1>4. QED
  BY <1>2, <1>3

\* What may move or arrive while the process runs: new deposits, and deposits
\* of the last block that no epoch shares and the cycle has not read.
Movable(made) ==
  \A d \in made :
    \/ minedIn[d] = 0
    \/ /\ minedIn[d] > ctx.fundingTip
       /\ \A e \in DOMAIN published : published[e].alloc[d] = <<>>

LEMMA CursorTypes ==
  ASSUME KeeperTypeOK
  PROVE  /\ tip \in Nat /\ MaxBlock \in Nat /\ MaxFaults \in Nat
         /\ activation.index \in Nat /\ activation.watermark \in Nat /\ activation.alloc \in Sharing
         /\ intent.next.index \in Nat /\ intent.next.watermark \in Nat
         /\ intent.next.alloc \in Sharing /\ intent.root.alloc \in Sharing
         /\ ctx.index \in Nat /\ ctx.fundingTip \in Nat /\ ctx.root.alloc \in Sharing
         /\ ctx.root.holders \in SUBSET Wallets /\ ctx.funded \in SUBSET Deposits
         /\ ctx.root \in Root /\ ctx.cursor \in Cursor /\ activation \in Cursor
         /\ intent.next \in Cursor /\ intent.root \in Root
         /\ \A d \in Deposits : minedIn[d] \in 0 .. tip
         /\ \A e \in DOMAIN published : published[e] \in Root /\ published[e].alloc \in Sharing
         /\ Len(published) \in Nat /\ DOMAIN published = 1 .. Len(published)
<1>1. MaxBlock \in Nat /\ MaxFaults \in Nat
  BY KeeperAssumption DEF KeeperAssumption
<1>2. tip \in Nat /\ \A d \in Deposits : minedIn[d] \in 0 .. tip
  BY <1>1 DEF KeeperTypeOK
<1>3. activation \in Cursor /\ intent.next \in Cursor /\ intent.root \in Root
  BY DEF KeeperTypeOK
<1>4. ctx.cursor \in Cursor /\ ctx.root \in Root /\ ctx.funded \in SUBSET Deposits
      /\ ctx.index \in Nat /\ ctx.fundingTip \in Nat
  BY <1>1 DEF KeeperTypeOK
<1>5. Len(published) \in Nat /\ DOMAIN published = 1 .. Len(published)
      /\ \A e \in DOMAIN published : published[e] \in Root
  BY DEF KeeperTypeOK
<1>6. \A c \in Cursor : c.index \in Nat /\ c.watermark \in Nat /\ c.alloc \in Sharing
  BY <1>1 DEF Cursor
<1>7. \A r \in Root : r.holders \in SUBSET Wallets /\ r.alloc \in Sharing
  BY DEF Root
<1>8. QED
  BY <1>1, <1>2, <1>3, <1>4, <1>5, <1>6, <1>7

\* Growth keeps everything the invariant says of ledger, chain and context.
LEMMA GrowthKeeps ==
  ASSUME KeeperInv, NEW made \in SUBSET Deposits, Extend(made), Movable(made),
         UNCHANGED <<published, mempool, intent, activation>>
  PROVE  /\ tip' \in 0 .. MaxBlock /\ minedIn' \in [Deposits -> 0 .. tip']
         /\ tip <= tip' /\ CursorHolds' /\ FrontierHolds'
         /\ (UNCHANGED <<pc, ctx>> => FundingHolds')
<1>0. KeeperTypeOK /\ CursorHolds /\ FrontierHolds /\ FundingHolds
  BY DEF KeeperInv, ContextHolds
<1>1. /\ tip \in Nat /\ MaxBlock \in Nat /\ activation.watermark \in Nat
      /\ intent.next.watermark \in Nat /\ ctx.fundingTip \in Nat
      /\ activation.index \in Nat /\ Len(published) \in Nat /\ DOMAIN published = 1 .. Len(published)
      /\ \A d \in Deposits : minedIn[d] \in 0 .. tip
  BY <1>0, CursorTypes
<1>2. tip' = tip + 1 /\ tip + 1 <= MaxBlock
      /\ \A d \in Deposits : minedIn'[d] = IF d \in made THEN tip + 1 ELSE minedIn[d]
  BY <1>1 DEF Extend
<1>3. tip' \in 0 .. MaxBlock /\ tip <= tip'
  BY <1>1, <1>2
<1>4. minedIn' \in [Deposits -> 0 .. tip']
  BY <1>1, <1>2 DEF Extend
<1>5. CursorHolds'
  <2>1. \A d \in made : minedIn[d] \notin 1 .. activation.watermark
    BY <1>0, <1>1 DEF CursorHolds, Covers, Divides, Movable
  <2>2. \A d \in Deposits : activation.alloc[d] # <<>> <=> minedIn'[d] \in 1 .. activation.watermark
    BY <1>0, <1>1, <2>1, GrowthDivides DEF CursorHolds, Covers
  <2>3. Covers(activation)'
    BY <1>0, <1>1, <1>2, <2>2 DEF CursorHolds, Covers, Divides, Once
  <2>4. QED
    BY <1>0, <2>3 DEF CursorHolds
<1>6. FrontierHolds'
  <2> SUFFICES ASSUME Len(published) > activation.index PROVE FrontierHolds'
    BY DEF FrontierHolds
  <2>1. \A d \in made : minedIn[d] \notin 1 .. intent.next.watermark
    BY <1>0, <1>1, SMTT(30) DEF FrontierHolds, Covers, Divides, Movable
  <2>2. \A d \in Deposits : intent.next.alloc[d] # <<>> <=> minedIn'[d] \in 1 .. intent.next.watermark
    BY <1>0, <1>1, <2>1, GrowthDivides DEF FrontierHolds, Covers
  <2>3. Covers(intent.next)'
    BY <1>0, <1>1, <1>2, <2>2 DEF FrontierHolds, Covers, Divides, Once
  <2>4. QED
    BY <1>0, <2>3 DEF FrontierHolds
<1>7. ASSUME UNCHANGED <<pc, ctx>> PROVE FundingHolds'
  <2> SUFFICES ASSUME pc \in Afterwards PROVE FundingHolds'
    BY <1>7 DEF FundingHolds
  <2>1. \A d \in made : minedIn[d] = 0 \/ minedIn[d] > ctx.fundingTip
    BY DEF Movable
  <2>2. \A d \in Deposits :
          d \in ctx.funded <=> minedIn'[d] \in activation.watermark + 1 .. ctx.fundingTip
    BY <1>0, <1>1, <1>2, <2>1, SMTT(30) DEF FundingHolds
  <2>3. activation.watermark <= ctx.fundingTip /\ ctx.fundingTip <= tip'
    BY <1>0, <1>1, <1>2 DEF FundingHolds
  <2>4. QED
    BY <1>7, <2>2, <2>3 DEF FundingHolds
<1>8. QED
  BY <1>3, <1>4, <1>5, <1>6, <1>7

\* Nothing but the chain's growth: the process and the ledger stay.
LEMMA BlocksKeep ==
  ASSUME KeeperInv, NEW made \in SUBSET Deposits, Extend(made), Movable(made),
         UNCHANGED <<published, mempool, ledgerVars, pc, ctx, faults>>
  PROVE  KeeperInv'
<1>1. /\ tip' \in 0 .. MaxBlock /\ minedIn' \in [Deposits -> 0 .. tip']
      /\ CursorHolds' /\ FrontierHolds' /\ FundingHolds'
  BY GrowthKeeps DEF ledgerVars
<1>2. KeeperTypeOK'
  BY <1>1 DEF KeeperInv, KeeperTypeOK, ledgerVars
<1>3. LumpedOnce' /\ DiskHolds'
  BY DEF KeeperInv, LumpedOnce, DiskHolds, ledgerVars
<1>4. BuiltHolds' /\ CycleHolds'
  BY DEF KeeperInv, ContextHolds, BuiltHolds, CycleHolds, NextCursor, ledgerVars
<1>5. QED
  BY <1>1, <1>2, <1>3, <1>4 DEF KeeperInv, ContextHolds

LEMMA NextDepositIsNew ==
  ASSUME HasNext, KeeperTypeOK
  PROVE  NextDeposit \in SUBSET Deposits /\ Movable(NextDeposit)
         /\ \E d \in Deposits : NextDeposit = {d} /\ minedIn[d] = 0
<1>1. PICK d \in Deposits \ Made : TRUE
  BY DEF HasNext, Made
<1>2. (CHOOSE x \in Deposits \ Made : TRUE) \in Deposits \ Made
  BY <1>1
<1>3. \A x \in Deposits \ Made : minedIn[x] = 0
  BY CursorTypes, SMTT(30) DEF Made
<1>4. QED
  BY <1>2, <1>3 DEF NextDeposit, Movable

LEMMA NewBlockKeeps == ASSUME KeeperInv, NewBlock PROVE KeeperInv'
<1>1. CASE Extend({})
  BY <1>1, BlocksKeep DEF NewBlock, Movable
<1>2. CASE HasNext /\ Extend(NextDeposit)
  BY <1>2, BlocksKeep, NextDepositIsNew DEF NewBlock, KeeperInv
<1>3. QED
  BY <1>1, <1>2 DEF NewBlock

LEMMA ReorganiseKeeps ==
  ASSUME KeeperInv, Contained, NEW d \in Deposits, Reorganise(d) PROVE KeeperInv'
<1>1. Movable({d})
  BY CursorTypes DEF KeeperInv, Movable, Reorganise, Contained, SharedIn
<1>2. QED
  BY <1>1, BlocksKeep DEF Reorganise

-----------------------------------------------------------------------------
(* The process: one lemma per job. *)

\* A step that leaves chain and ledger alone keeps all but the context.
LEMMA ContextStep ==
  ASSUME KeeperInv, UNCHANGED <<chainVars, ledgerVars>>, ContextHolds',
         pc' \in Jobs, faults' \in 0 .. MaxFaults,
         ctx' \in [cursor : Cursor, fundingTip : 0 .. MaxBlock, funded : SUBSET Deposits,
                   root : Root, index : Nat]
  PROVE  KeeperInv'
<1>1. KeeperTypeOK'
  BY DEF KeeperInv, KeeperTypeOK, chainVars, ledgerVars
<1>2. LumpedOnce' /\ DiskHolds'
  BY DEF KeeperInv, LumpedOnce, DiskHolds, chainVars, ledgerVars
<1>3. CursorHolds'
  BY DEF KeeperInv, CursorHolds, Covers, Divides, Once, chainVars, ledgerVars
<1>4. FrontierHolds'
  BY DEF KeeperInv, FrontierHolds, Covers, Divides, Once, chainVars, ledgerVars
<1>5. QED
  BY <1>1, <1>2, <1>3, <1>4 DEF KeeperInv

\* A job that halts the cycle, when nothing is in flight.
LEMMA HaltKeeps ==
  ASSUME KeeperInv, Halt, mempool = <<>>, UNCHANGED <<chainVars, ledgerVars>>,
         faults' \in 0 .. MaxFaults
  PROVE  KeeperInv'
<1>1. ContextHolds'
  BY DEF Halt, ContextHolds, FundingHolds, BuiltHolds, CycleHolds, Afterwards, Built, Intended,
     chainVars
<1>2. QED
  BY <1>1, ContextStep, EmptySharing DEF Halt, Jobs

\* A record put over an intact file is what memory and file then both hold.
LEMMA PutsKeepDisk ==
  ASSUME KeeperInv
  PROVE  /\ AppendOther => onDisk' = onDisk
         /\ \A x : AppendRecord("activation", x) =>
              onDisk' = [onDisk EXCEPT !.activation = x]
         /\ \A x : AppendRecord("intent", x) => onDisk' = [onDisk EXCEPT !.intent = x]
BY DEF KeeperInv, DiskHolds, KeeperTypeOK, AppendOther, AppendRecord

\* reconcileCursor takes up whatever the frontier has beyond the cursor.
LEMMA StartCycleKeeps == ASSUME KeeperInv, StartCycle PROVE KeeperInv'
<1>0. /\ KeeperTypeOK /\ DiskHolds /\ LumpedOnce /\ CursorHolds /\ FrontierHolds /\ ContextHolds
      /\ pc = "idle" /\ pc' = "purchase" /\ ctx' = [NoContext EXCEPT !.cursor = activation']
      /\ UNCHANGED <<chainVars, intent, faults>> /\ mempool = <<>>
  BY DEF KeeperInv, StartCycle, At, ContextHolds, CycleHolds
<1>1. activation' \in Cursor /\ DiskHolds'
      /\ onDisk' \in [intent : [root : Root, next : Cursor], activation : Cursor, torn : BOOLEAN]
  BY <1>0, PutsKeepDisk DEF StartCycle, DiskHolds, KeeperTypeOK
<1>2. ctx' \in [cursor : Cursor, fundingTip : 0 .. MaxBlock, funded : SUBSET Deposits,
                root : Root, index : Nat]
  BY <1>0, <1>1, EmptySharing
<1>3. KeeperTypeOK'
  BY <1>0, <1>1, <1>2 DEF KeeperTypeOK, chainVars, Jobs
<1>4. CursorHolds' /\ Len(published') = activation'.index
  <2>1. CASE Recoverable
    <3>1. activation' = intent.next
      BY <2>1 DEF StartCycle
    <3>2. Len(published) > activation.index
      BY <2>1, <1>0, CursorTypes, SMTT(30) DEF Recoverable
    <3>3. /\ intent.next.index = Len(published) /\ Covers(intent.next)
          /\ published[intent.next.index].alloc = intent.next.alloc /\ intent.next.index > 0
      BY <3>2, <1>0, CursorTypes, SMTT(30) DEF FrontierHolds
    <3>4. QED
      BY <3>1, <3>3, <1>0 DEF CursorHolds, Covers, Divides, Once, chainVars
  <2>2. CASE ~ Recoverable
    <3>1. activation' = activation
      BY <2>2 DEF StartCycle
    <3>2. Len(published) = activation.index
      BY <2>2, <1>0, CursorTypes, SMTT(30) DEF FrontierHolds, CursorHolds, Recoverable
    <3>3. QED
      BY <3>1, <3>2, <1>0 DEF CursorHolds, Covers, Divides, Once, chainVars
  <2>3. QED
    BY <2>1, <2>2
<1>5. LumpedOnce'
  BY <1>0 DEF LumpedOnce, chainVars
<1>6. FrontierHolds'
  <2>1. Len(published') \in Nat
    BY <1>3, CursorTypes DEF KeeperTypeOK
  <2>2. QED
    BY <1>4, <2>1 DEF FrontierHolds
<1>7. ContextHolds'
  BY <1>0, <1>4 DEF ContextHolds, FundingHolds, BuiltHolds, CycleHolds, Afterwards, Built, Intended,
     chainVars, NoContext
<1>8. QED
  BY <1>1, <1>3, <1>4, <1>5, <1>6, <1>7 DEF KeeperInv

\* A purchase may deposit; it goes on, or halts and deposits nothing.
LEMMA BasketPurchaseKeeps == ASSUME KeeperInv, BasketPurchase PROVE KeeperInv'
<1>0. pc = "purchase" /\ pc' = "funding"
      /\ UNCHANGED <<published, mempool, intent, activation, onDisk, ctx, faults>>
  BY PutsKeepDisk DEF BasketPurchase, At
<1>1. CASE UNCHANGED <<tip, minedIn>>
  <2>1. ContextHolds'
    BY <1>0, <1>1 DEF KeeperInv, ContextHolds, FundingHolds, BuiltHolds, CycleHolds, Afterwards,
       Built, Intended
  <2>2. QED
    BY <1>0, <1>1, <2>1, ContextStep DEF KeeperInv, KeeperTypeOK, chainVars, ledgerVars, Jobs
<1>2. CASE HasNext /\ Extend(NextDeposit)
  <2>1. NextDeposit \in SUBSET Deposits /\ Movable(NextDeposit)
    BY <1>2, NextDepositIsNew DEF KeeperInv
  <2>2. /\ tip' \in 0 .. MaxBlock /\ minedIn' \in [Deposits -> 0 .. tip']
        /\ CursorHolds' /\ FrontierHolds'
    BY <1>0, <1>2, <2>1, GrowthKeeps
  <2>3. KeeperTypeOK'
    BY <1>0, <2>2 DEF KeeperInv, KeeperTypeOK, Jobs
  <2>4. LumpedOnce' /\ DiskHolds'
    BY <1>0 DEF KeeperInv, LumpedOnce, DiskHolds
  <2>5. ContextHolds'
    BY <1>0 DEF KeeperInv, ContextHolds, FundingHolds, BuiltHolds, CycleHolds, Afterwards,
       Built, Intended
  <2>6. QED
    BY <2>2, <2>3, <2>4, <2>5 DEF KeeperInv
<1>3. QED
  BY <1>1, <1>2 DEF BasketPurchase, Purchase

LEMMA PurchaseFailsKeeps == ASSUME KeeperInv, PurchaseFails PROVE KeeperInv'
<1>1. mempool = <<>>
  BY DEF KeeperInv, ContextHolds, CycleHolds, PurchaseFails
<1>2. UNCHANGED <<chainVars, ledgerVars>>
  BY PutsKeepDisk DEF PurchaseFails, ledgerVars
<1>3. QED
  BY <1>1, <1>2, HaltKeeps DEF PurchaseFails, KeeperInv, KeeperTypeOK

\* The window is read at one tip; what is made later lies above it.
LEMMA FundingKeeps == ASSUME KeeperInv, Funding PROVE KeeperInv'
<1>0. /\ KeeperTypeOK /\ CursorHolds /\ ContextHolds /\ pc = "funding" /\ pc' = "snapshot"
      /\ UNCHANGED <<chainVars, ledgerVars, faults>>
      /\ ctx' = [ctx EXCEPT !.fundingTip = tip,
                            !.funded = {d \in Made : minedIn[d] > ctx.cursor.watermark}]
  BY DEF KeeperInv, Funding, At
<1>1. ctx' \in [cursor : Cursor, fundingTip : 0 .. MaxBlock, funded : SUBSET Deposits,
                root : Root, index : Nat]
  BY <1>0, CursorTypes DEF KeeperTypeOK, Made
<1>2. ctx.cursor = activation
  BY <1>0 DEF ContextHolds, CycleHolds
<1>3. FundingHolds'
  <2>1. \A d \in Deposits : d \in ctx'.funded <=> minedIn[d] \in activation.watermark + 1 .. tip
    BY <1>0, <1>2, CursorTypes, SMTT(30) DEF Made, KeeperTypeOK
  <2>2. QED
    BY <1>0, <2>1, CursorTypes DEF FundingHolds, CursorHolds, Covers, chainVars, ledgerVars, KeeperTypeOK
<1>4. BuiltHolds' /\ CycleHolds'
  BY <1>0, <1>1 DEF ContextHolds, BuiltHolds, CycleHolds, Built, Intended, chainVars, ledgerVars,
     KeeperTypeOK
<1>5. QED
  BY <1>0, <1>1, <1>3, <1>4, ContextStep DEF ContextHolds, KeeperTypeOK, Jobs

LEMMA SnapshotKeeps ==
  ASSUME KeeperInv, NEW eligible \in SUBSET Wallets, Snapshot(eligible) PROVE KeeperInv'
<1>0. /\ KeeperTypeOK /\ ContextHolds /\ pc = "snapshot" /\ pc' = "drift-check"
      /\ UNCHANGED <<chainVars, ledgerVars, faults>>
      /\ ctx' = [ctx EXCEPT !.root.holders = eligible]
  BY DEF KeeperInv, Snapshot, At
<1>1. ctx' \in [cursor : Cursor, fundingTip : 0 .. MaxBlock, funded : SUBSET Deposits,
                root : Root, index : Nat]
  BY <1>0 DEF KeeperTypeOK, Root
<1>2. ContextHolds'
  BY <1>0 DEF KeeperTypeOK, ContextHolds, FundingHolds, BuiltHolds, CycleHolds, Afterwards, Built,
     Intended, chainVars, ledgerVars
<1>3. QED
  BY <1>0, <1>1, <1>2, ContextStep DEF KeeperTypeOK, Jobs

LEMMA DriftCheckKeeps == ASSUME KeeperInv, DriftCheck PROVE KeeperInv'
<1>0. pc = "drift-check" /\ mempool = <<>> /\ UNCHANGED <<chainVars, ledgerVars, faults>>
      /\ KeeperTypeOK /\ ContextHolds
  BY DEF KeeperInv, DriftCheck, ContextHolds, CycleHolds
<1>1. CASE Halt
  BY <1>0, <1>1, HaltKeeps DEF KeeperTypeOK
<1>2. CASE pc' = "build" /\ UNCHANGED ctx
  <2>1. ContextHolds'
    BY <1>0, <1>2 DEF ContextHolds, FundingHolds, BuiltHolds, CycleHolds, Afterwards, Built,
       Intended, chainVars, ledgerVars
  <2>2. QED
    BY <1>0, <1>2, <2>1, ContextStep DEF KeeperTypeOK, Jobs
<1>3. QED
  BY <1>1, <1>2 DEF DriftCheck

\* The root shares the funded deposits once, on top of the cursor's sharing.
LEMMA TreeBuildKeeps == ASSUME KeeperInv, TreeBuild PROVE KeeperInv'
<1>0. pc = "build" /\ mempool = <<>> /\ UNCHANGED <<chainVars, ledgerVars, faults>>
      /\ KeeperTypeOK /\ ContextHolds /\ ctx.cursor = activation /\ Len(published) = activation.index
  BY DEF KeeperInv, TreeBuild, ContextHolds, CycleHolds
<1>1. CASE ctx.funded = {} \/ ctx.root.holders = {}
  BY <1>0, <1>1, HaltKeeps DEF TreeBuild, KeeperTypeOK
<1>2. CASE ~(ctx.funded = {} \/ ctx.root.holders = {})
  <2> DEFINE alloc == [d \in Deposits |->
                IF d \in ctx.funded THEN ctx.cursor.alloc[d] \o <<ctx.root.holders>>
                                    ELSE ctx.cursor.alloc[d]]
  <2>1. pc' = "validate" /\ ctx' = [ctx EXCEPT !.index = Len(published) + 1, !.root.alloc = alloc]
    BY <1>2 DEF TreeBuild
  <2>2. ctx.cursor.alloc \in [Deposits -> Seq(SUBSET Wallets)]
        /\ <<ctx.root.holders>> \in Seq(SUBSET Wallets)
    BY <1>0, CursorTypes, SMTT(30) DEF Sharing
  <2>3. alloc \in Sharing
    <3>1. \A d \in Deposits : ctx.cursor.alloc[d] \o <<ctx.root.holders>> \in Seq(SUBSET Wallets)
                              /\ ctx.cursor.alloc[d] \in Seq(SUBSET Wallets)
      BY <2>2
    <3>2. QED
      BY <3>1 DEF Sharing
  <2> HIDE DEF alloc
  <2>4. ctx' \in [cursor : Cursor, fundingTip : 0 .. MaxBlock, funded : SUBSET Deposits,
                  root : Root, index : Nat]
    <3>1. [ctx.root EXCEPT !.alloc = alloc] \in Root
      BY <1>0, <2>3, CursorTypes DEF Root
    <3>2. ctx' = [ctx EXCEPT !.index = Len(published) + 1,
                             !.root = [ctx.root EXCEPT !.alloc = alloc]]
      BY <2>1, <1>0 DEF KeeperTypeOK
    <3>3. Len(published) + 1 \in Nat
      BY <1>0, CursorTypes
    <3>4. ctx \in [cursor : Cursor, fundingTip : 0 .. MaxBlock, funded : SUBSET Deposits,
                   root : Root, index : Nat]
      BY <1>0 DEF KeeperTypeOK
    <3>5. QED
      BY <3>1, <3>2, <3>3, <3>4
  <2>5. /\ ctx'.funded = ctx.funded /\ ctx'.root.holders = ctx.root.holders
        /\ ctx'.root.alloc = alloc /\ ctx'.cursor = ctx.cursor /\ ctx'.fundingTip = ctx.fundingTip
        /\ ctx'.index = Len(published) + 1
    BY <1>0, <2>1, CursorTypes DEF KeeperTypeOK, Root
  <2>6. FundingHolds' /\ CycleHolds'
    BY <1>0, <2>1, <2>5 DEF ContextHolds, FundingHolds, CycleHolds, Afterwards, Intended,
       chainVars, ledgerVars
  <2>7. BuiltHolds'
    BY <1>0, <1>2, <2>1, <2>5 DEF BuiltHolds, ledgerVars, alloc
  <2>8. QED
    BY <1>0, <2>1, <2>4, <2>6, <2>7, ContextStep DEF ContextHolds, KeeperTypeOK, Jobs
<1>3. QED
  BY <1>1, <1>2

LEMMA ManifestValidateKeeps == ASSUME KeeperInv, ManifestValidate PROVE KeeperInv'
<1>0. pc = "validate" /\ mempool = <<>> /\ UNCHANGED <<chainVars, ledgerVars, faults>>
      /\ KeeperTypeOK /\ ContextHolds
  BY DEF KeeperInv, ManifestValidate, ContextHolds, CycleHolds
<1>1. CASE Halt
  BY <1>0, <1>1, HaltKeeps DEF KeeperTypeOK
<1>2. CASE pc' = "propose" /\ UNCHANGED ctx
  <2>1. ContextHolds'
    BY <1>0, <1>2 DEF ContextHolds, FundingHolds, BuiltHolds, CycleHolds, Afterwards, Built,
       Intended, chainVars, ledgerVars
  <2>2. QED
    BY <1>0, <1>2, <2>1, ContextStep DEF KeeperTypeOK, Jobs
<1>3. QED
  BY <1>1, <1>2 DEF ManifestValidate

LEMMA NextCursorType == ASSUME KeeperTypeOK PROVE NextCursor \in Cursor
BY CursorTypes DEF NextCursor, Cursor, KeeperTypeOK

\* The intent replaces the last one before anything is sent; the frontier has
\* nothing that would still need the old one.
LEMMA RootProposeKeeps == ASSUME KeeperInv, Contained, RootPropose PROVE KeeperInv'
<1>0. /\ KeeperTypeOK /\ ContextHolds /\ pc = "propose" /\ pc' = "probe"
      /\ Len(published) = activation.index /\ UNCHANGED <<chainVars, ctx>>
      /\ UNCHANGED <<activation, faults>>
      /\ intent' = [root |-> ctx.root, next |-> NextCursor]
      /\ AppendRecord("intent", [root |-> ctx.root, next |-> NextCursor])
  BY DEF KeeperInv, RootPropose, At, ContextHolds, CycleHolds, PutUnseen, Contained
<1>1. onDisk' = [onDisk EXCEPT !.intent = intent']
  BY <1>0, PutsKeepDisk
<1>2. intent' \in [root : Root, next : Cursor]
  BY <1>0, CursorTypes, NextCursorType
<1>3. onDisk' \in [intent : [root : Root, next : Cursor], activation : Cursor, torn : BOOLEAN]
      /\ DiskHolds'
  BY <1>0, <1>1, <1>2 DEF KeeperInv, DiskHolds, KeeperTypeOK
<1>4. KeeperTypeOK'
  BY <1>0, <1>2, <1>3 DEF KeeperTypeOK, chainVars, Jobs
<1>5. LumpedOnce' /\ CursorHolds'
  BY <1>0 DEF KeeperInv, LumpedOnce, CursorHolds, Covers, Divides, Once, chainVars
<1>6. FrontierHolds'
  BY <1>0, CursorTypes DEF FrontierHolds, chainVars
<1>7. ContextHolds'
  BY <1>0 DEF ContextHolds, FundingHolds, BuiltHolds, CycleHolds, NextCursor, Afterwards, Built,
     Intended, chainVars
<1>8. QED
  BY <1>3, <1>4, <1>5, <1>6, <1>7 DEF KeeperInv

\* The index is beyond the chain, so the root is sent.
LEMMA ProbeOnchainKeeps == ASSUME KeeperInv, ProbeOnchain PROVE KeeperInv'
<1>0. /\ KeeperTypeOK /\ ContextHolds /\ pc = "probe"
      /\ UNCHANGED <<chainVars, ledgerVars, faults>>
      /\ ctx.index = activation.index + 1 /\ Len(published) = activation.index
  BY DEF KeeperInv, ProbeOnchain, ContextHolds, BuiltHolds, CycleHolds, Built
<1>1. pc' = "send" /\ UNCHANGED ctx
  BY <1>0, CursorTypes DEF ProbeOnchain
<1>2. ContextHolds'
  BY <1>0, <1>1 DEF ContextHolds, FundingHolds, BuiltHolds, CycleHolds, NextCursor, Afterwards,
     Built, Intended, chainVars, ledgerVars
<1>3. QED
  BY <1>0, <1>1, <1>2, ContextStep DEF KeeperTypeOK, Jobs

LEMMA SendPublishKeeps == ASSUME KeeperInv, SendPublish PROVE KeeperInv'
<1>0. /\ KeeperTypeOK /\ ContextHolds /\ pc = "send" /\ pc' = "await"
      /\ UNCHANGED <<tip, minedIn, published, ledgerVars, ctx, faults>>
      /\ mempool = <<>> /\ mempool' = Append(mempool, ctx.root)
  BY DEF KeeperInv, SendPublish, At, ContextHolds, CycleHolds
<1>1. mempool' = <<ctx.root>> /\ mempool' \in Seq(Root)
  BY <1>0, CursorTypes
<1>2. KeeperTypeOK'
  BY <1>0, <1>1 DEF KeeperTypeOK, ledgerVars, Jobs
<1>3. ContextHolds'
  BY <1>0, <1>1 DEF ContextHolds, FundingHolds, BuiltHolds, CycleHolds, NextCursor, Afterwards,
     Built, Intended, ledgerVars
<1>4. LumpedOnce' /\ DiskHolds' /\ CursorHolds' /\ FrontierHolds'
  BY <1>0 DEF KeeperInv, LumpedOnce, DiskHolds, CursorHolds, FrontierHolds, Covers, Divides, Once,
     ledgerVars
<1>5. QED
  BY <1>2, <1>3, <1>4 DEF KeeperInv

\* A fault that strikes while nothing is pending halts the cycle and no more.
LEMMA JobFailsKeeps == ASSUME KeeperInv, Contained, JobFails PROVE KeeperInv'
<1>0. mempool = <<>> /\ Halt /\ UNCHANGED chainVars /\ faults < MaxFaults /\ faults' = faults + 1
  BY DEF JobFails, Contained, Pending
<1>1. UNCHANGED ledgerVars
  BY PutsKeepDisk DEF JobFails, ledgerVars
<1>2. faults' \in 0 .. MaxFaults
  BY <1>0, CursorTypes, SMTT(30) DEF KeeperInv, KeeperTypeOK
<1>3. QED
  BY <1>0, <1>1, <1>2, HaltKeeps

LEMMA CrashKeeps == ASSUME KeeperInv, Contained, Crash PROVE KeeperInv'
<1>0. mempool = <<>> /\ Halt /\ UNCHANGED chainVars /\ faults < MaxFaults /\ faults' = faults + 1
  BY DEF Crash, Contained, Pending
<1>1. UNCHANGED ledgerVars
  BY DEF KeeperInv, DiskHolds, Crash, Contained, ledgerVars
<1>2. faults' \in 0 .. MaxFaults
  BY <1>0, CursorTypes, SMTT(30) DEF KeeperInv, KeeperTypeOK
<1>3. QED
  BY <1>0, <1>1, <1>2, HaltKeeps

\* What the pending root is worth: it shares what was made up to the funding
\* tip, each deposit once, and keeps what the recorded epoch shared.
LEMMA PendingRoot ==
  ASSUME KeeperInv, pc \in Built
  PROVE  /\ Once(ctx.root.alloc) /\ Divides(ctx.root.alloc, ctx.fundingTip)
         /\ \A d \in Deposits : activation.alloc[d] # <<>> => ctx.root.alloc[d] = activation.alloc[d]
         /\ \A d \in Deposits : ctx.root.alloc[d] =
              IF activation.alloc[d] = <<>> /\ minedIn[d] \in 1 .. ctx.fundingTip
                THEN <<ctx.root.holders>> ELSE activation.alloc[d]
<1>0. /\ KeeperTypeOK /\ Covers(activation) /\ pc \in Afterwards
      /\ activation.watermark <= ctx.fundingTip /\ ctx.fundingTip <= tip
      /\ \A d \in Deposits :
           d \in ctx.funded <=> minedIn[d] \in activation.watermark + 1 .. ctx.fundingTip
      /\ ctx.root.alloc = [d \in Deposits |->
           IF d \in ctx.funded THEN activation.alloc[d] \o <<ctx.root.holders>>
                               ELSE activation.alloc[d]]
  BY DEF KeeperInv, CursorHolds, ContextHolds, FundingHolds, BuiltHolds, Built, Afterwards
<1>1. \A d \in Deposits : activation.alloc[d] \in Seq(SUBSET Wallets)
  BY <1>0, CursorTypes DEF Sharing
<1>2. ASSUME NEW d \in Deposits
      PROVE  /\ ctx.root.alloc[d] = IF activation.alloc[d] = <<>> /\ minedIn[d] \in 1 .. ctx.fundingTip
                                      THEN <<ctx.root.holders>> ELSE activation.alloc[d]
             /\ ctx.root.alloc[d] # <<>> <=> minedIn[d] \in 1 .. ctx.fundingTip
             /\ Len(ctx.root.alloc[d]) <= 1
  <2>0. /\ activation.watermark \in Nat /\ ctx.fundingTip \in Nat /\ minedIn[d] \in Nat
        /\ activation.alloc[d] # <<>> <=> minedIn[d] \in 1 .. activation.watermark
        /\ Len(activation.alloc[d]) <= 1
    BY <1>0, CursorTypes DEF Covers, Divides, Once
  <2>1. CASE d \in ctx.funded
    <3>1. activation.alloc[d] = <<>> /\ minedIn[d] \in 1 .. ctx.fundingTip
      BY <1>0, <2>0, <2>1
    <3>2. ctx.root.alloc[d] = <<>> \o <<ctx.root.holders>>
      BY <1>0, <2>1, <3>1
    <3>3. ctx.root.alloc[d] = <<ctx.root.holders>>
      BY <3>2
    <3>4. QED
      BY <3>1, <3>3
  <2>2. CASE d \notin ctx.funded
    <3>1. ctx.root.alloc[d] = activation.alloc[d]
      BY <1>0, <2>2
    <3>2. minedIn[d] \in 1 .. ctx.fundingTip <=> minedIn[d] \in 1 .. activation.watermark
      BY <1>0, <2>0, <2>2
    <3>3. QED
      BY <2>0, <3>1, <3>2
  <2>3. QED
    BY <2>1, <2>2
<1>3. QED
  BY <1>2 DEF Once, Divides

LEMMA PendingCursor ==
  ASSUME KeeperInv, pc \in Built
  PROVE  Covers(NextCursor) /\ NextCursor.index = ctx.index /\ NextCursor.alloc = ctx.root.alloc
         /\ NextCursor.watermark = ctx.fundingTip
<1>1. Once(ctx.root.alloc) /\ Divides(ctx.root.alloc, ctx.fundingTip)
  BY PendingRoot
<1>2. ctx.fundingTip <= tip
  BY DEF KeeperInv, ContextHolds, FundingHolds, Built, Afterwards
<1>3. NextCursor.index = ctx.index /\ NextCursor.alloc = ctx.root.alloc
      /\ NextCursor.watermark = ctx.fundingTip
  BY DEF NextCursor
<1>4. QED
  BY <1>1, <1>2, <1>3 DEF Covers

\* The only transaction there is: the pending root, at the index it was built
\* for, or nothing.
LEMMA MineSends ==
  ASSUME KeeperInv, Mine
  PROVE  /\ pc = "await" /\ mempool' = <<>> /\ UNCHANGED <<tip, minedIn, ledgerVars, faults>>
         /\ Len(published) = activation.index /\ ctx.index = Len(published) + 1
         /\ \/ /\ published' = Append(published, ctx.root) /\ pc' = "record" /\ UNCHANGED ctx
            \/ /\ UNCHANGED published /\ Halt
<1>1. pc = "await" /\ mempool = <<ctx.root>>
  BY DEF KeeperInv, ContextHolds, CycleHolds, Mine
<1>2. mempool' = <<>> /\ Head(mempool) = ctx.root /\ Len(mempool) = 1
  BY <1>1 DEF Mine
<1>3. Len(published) = activation.index /\ ctx.index = Len(published) + 1
  BY <1>1 DEF KeeperInv, ContextHolds, CycleHolds, BuiltHolds, Built
<1>4. QED
  BY <1>1, <1>2, <1>3 DEF Mine, Halt

LEMMA MineKeeps == ASSUME KeeperInv, Mine PROVE KeeperInv'
<1>0. /\ pc = "await" /\ mempool' = <<>> /\ UNCHANGED <<tip, minedIn, ledgerVars, faults>>
      /\ Len(published) = activation.index /\ ctx.index = Len(published) + 1
      /\ KeeperTypeOK /\ ContextHolds
  BY MineSends DEF KeeperInv
<1>1. CASE published' = Append(published, ctx.root) /\ pc' = "record" /\ UNCHANGED ctx
  <2>0. /\ Len(published') = Len(published) + 1 /\ published'[Len(published) + 1] = ctx.root
        /\ \A e \in 1 .. Len(published) : published'[e] = published[e]
        /\ published' \in Seq(Root) /\ DOMAIN published' = 1 .. Len(published) + 1
        /\ Len(published) \in Nat /\ DOMAIN published = 1 .. Len(published)
    BY <1>0, <1>1, CursorTypes DEF KeeperTypeOK
  <2>1. KeeperTypeOK'
    BY <1>0, <1>1, <2>0 DEF KeeperTypeOK, ledgerVars, Jobs
  <2>2. /\ Once(ctx.root.alloc)
        /\ \A d \in Deposits : activation.alloc[d] # <<>> => ctx.root.alloc[d] = activation.alloc[d]
    BY <1>0, PendingRoot DEF Built
  <2>3. activation.index > 0 => published[activation.index].alloc = activation.alloc
    BY DEF KeeperInv, CursorHolds
  <2>4. LumpedOnce'
    <3> SUFFICES ASSUME NEW e \in DOMAIN published', NEW d \in Deposits
                 PROVE  /\ Len(published'[e].alloc[d]) <= 1
                        /\ e > 1 /\ d \in SharedIn(published'[e - 1].alloc) =>
                             published'[e].alloc[d] = published'[e - 1].alloc[d]
      BY DEF LumpedOnce, SharedIn
    <3>1. CASE e \in 1 .. Len(published)
      <4>1. e > 1 => e - 1 \in 1 .. Len(published)
        BY <2>0, <3>1
      <4>2. QED
        BY <2>0, <3>1, <4>1 DEF KeeperInv, LumpedOnce
    <3>2. CASE e = Len(published) + 1
      <4>1. Len(published'[e].alloc[d]) <= 1
        BY <2>0, <2>2, <3>2 DEF Once
      <4>2. ASSUME e > 1 PROVE published'[e - 1].alloc = activation.alloc
        BY <1>0, <2>0, <2>3, <3>2, <4>2, CursorTypes
      <4>3. QED
        BY <2>0, <2>2, <3>2, <4>1, <4>2 DEF SharedIn
    <3>3. QED
      BY <2>0, <3>1, <3>2
  <2>5. DiskHolds'
    BY <1>0 DEF KeeperInv, DiskHolds, ledgerVars
  <2>6. CursorHolds'
    <3>1. CursorHolds /\ activation' = activation /\ UNCHANGED <<tip, minedIn>>
      BY <1>0 DEF KeeperInv, ledgerVars
    <3>2. Covers(activation)'
      BY <3>1 DEF CursorHolds, Covers, Divides, Once
    <3>3. activation.index \in Nat
      BY <1>0, CursorTypes
    <3>4. QED
      BY <1>0, <2>0, <3>1, <3>2, <3>3 DEF CursorHolds
  <2>7. intent.root = ctx.root /\ intent.next = NextCursor /\ Covers(NextCursor)
        /\ NextCursor.index = ctx.index /\ NextCursor.alloc = ctx.root.alloc
    BY <1>0, PendingCursor DEF ContextHolds, CycleHolds, Intended, Built
  <2>8. FrontierHolds'
    <3>1. Covers(intent.next)'
      BY <1>0, <2>7 DEF Covers, Divides, Once, ledgerVars
    <3>2. QED
      BY <1>0, <2>0, <2>7, <3>1 DEF FrontierHolds, ledgerVars
  <2>9. ContextHolds'
    BY <1>0, <1>1, <2>0 DEF ContextHolds, FundingHolds, BuiltHolds, CycleHolds, NextCursor,
       Afterwards, Built, Intended, ledgerVars
  <2>10. QED
    BY <2>1, <2>4, <2>5, <2>6, <2>8, <2>9 DEF KeeperInv
<1>2. CASE UNCHANGED published /\ Halt
  <2>1. KeeperTypeOK'
    BY <1>0, <1>2, EmptySharing DEF KeeperTypeOK, ledgerVars, Halt, Jobs
  <2>2. LumpedOnce' /\ DiskHolds' /\ CursorHolds' /\ FrontierHolds'
    BY <1>0, <1>2 DEF KeeperInv, LumpedOnce, DiskHolds, CursorHolds, FrontierHolds, Covers, Divides,
       Once, ledgerVars
  <2>3. ContextHolds'
    BY <1>0, <1>2 DEF ContextHolds, FundingHolds, BuiltHolds, CycleHolds, Afterwards, Built,
       Intended, Halt
  <2>4. QED
    BY <2>1, <2>2, <2>3 DEF KeeperInv
<1>3. QED
  BY <1>1, <1>2, MineSends

\* Recorded or not, the epoch on chain is explained.
LEMMA RecordActivationKeeps == ASSUME KeeperInv, RecordActivation PROVE KeeperInv'
<1>0. /\ KeeperTypeOK /\ ContextHolds /\ pc = "record" /\ Halt /\ UNCHANGED chainVars
      /\ mempool = <<>> /\ Len(published) = ctx.index /\ published[ctx.index] = ctx.root
      /\ ctx.index = activation.index + 1
  BY DEF KeeperInv, RecordActivation, ContextHolds, CycleHolds, BuiltHolds, Built
<1>1. CASE /\ activation' = NextCursor /\ AppendRecord("activation", NextCursor)
           /\ UNCHANGED <<intent, faults>>
  <2>1. onDisk' = [onDisk EXCEPT !.activation = activation']
    BY <1>1, PutsKeepDisk
  <2>2. activation' \in Cursor
    BY <1>0, <1>1, NextCursorType
  <2>3. onDisk' \in [intent : [root : Root, next : Cursor], activation : Cursor, torn : BOOLEAN]
        /\ DiskHolds'
    BY <1>1, <2>1, <2>2 DEF KeeperInv, DiskHolds, KeeperTypeOK
  <2>4. KeeperTypeOK'
    BY <1>0, <1>1, <2>2, <2>3, EmptySharing DEF KeeperTypeOK, chainVars, Halt, Jobs
  <2>5. LumpedOnce'
    BY <1>0 DEF KeeperInv, LumpedOnce, chainVars
  <2>6. Covers(activation') /\ activation'.index = ctx.index /\ activation'.alloc = ctx.root.alloc
    BY <1>0, <1>1, PendingCursor DEF Built
  <2>7. CursorHolds' /\ FrontierHolds'
    <3>1. Covers(activation)'
      BY <1>0, <2>6 DEF Covers, Divides, Once, chainVars
    <3>2. activation'.index = Len(published') /\ activation'.index \in Nat /\ activation'.index > 0
      BY <1>0, <2>6, CursorTypes DEF chainVars
    <3>3. QED
      BY <1>0, <2>6, <3>1, <3>2 DEF CursorHolds, FrontierHolds, chainVars
  <2>8. ContextHolds'
    BY <1>0 DEF ContextHolds, FundingHolds, BuiltHolds, CycleHolds, Afterwards, Built, Intended,
       Halt, chainVars
  <2>9. QED
    BY <2>3, <2>4, <2>5, <2>7, <2>8 DEF KeeperInv
<1>2. CASE PutUnseen("root-activate")
  <2>1. UNCHANGED <<chainVars, ledgerVars>> /\ faults' \in 0 .. MaxFaults
    BY <1>0, <1>2, CursorTypes DEF PutUnseen, KeeperTypeOK
  <2>2. QED
    BY <1>0, <2>1, HaltKeeps DEF KeeperInv
<1>3. QED
  BY <1>1, <1>2 DEF RecordActivation

LEMMA KeeperStep == ASSUME KeeperInv, Contained, [KeeperNext]_vars PROVE KeeperInv'
<1>1. CASE Work
  BY <1>1, StartCycleKeeps, FundingKeeps, DriftCheckKeeps, TreeBuildKeeps, ManifestValidateKeeps,
     RootProposeKeeps, ProbeOnchainKeeps, SendPublishKeeps, RecordActivationKeeps DEF Work
<1>2. CASE NewBlock \/ Mine \/ \E d \in Deposits : Reorganise(d)
  BY <1>2, NewBlockKeeps, MineKeeps, ReorganiseKeeps
<1>3. CASE BasketPurchase \/ PurchaseFails \/ JobFails \/ Crash
  BY <1>3, BasketPurchaseKeeps, PurchaseFailsKeeps, JobFailsKeeps, CrashKeeps
<1>4. CASE \E eligible \in SUBSET Wallets : Snapshot(eligible)
  BY <1>4, SnapshotKeeps
<1>5. CASE UNCHANGED vars
  <2>1. UNCHANGED <<chainVars, ledgerVars, pc, ctx, faults>>
    BY <1>5 DEF vars
  <2>2. ContextHolds'
    BY <2>1 DEF KeeperInv, ContextHolds, FundingHolds, BuiltHolds, CycleHolds, NextCursor,
       chainVars, ledgerVars
  <2>3. QED
    BY <2>1, <2>2, ContextStep DEF KeeperInv, KeeperTypeOK
<1>6. QED
  BY <1>1, <1>2, <1>3, <1>4, <1>5 DEF KeeperNext

-----------------------------------------------------------------------------
(* The theorems. *)

LEMMA KeeperInvariant == ASSUME Contained PROVE KeeperSpec => []KeeperInv
<1>1. KeeperInit => KeeperInv
  BY KeeperInitInv
<1>2. KeeperInv /\ [KeeperNext]_vars => KeeperInv'
  BY KeeperStep
<1>3. QED
  BY <1>1, <1>2, PTL DEF KeeperSpec

\* The state of the keeper is of its types, whatever dies and goes unseen.
THEOREM KeeperTypeCorrect == ASSUME Contained PROVE KeeperSpec => []KeeperTypeOK
<1>1. KeeperInv => KeeperTypeOK
  BY DEF KeeperInv
<1>2. QED
  BY <1>1, KeeperInvariant, PTL

\* "A deposit lumped into a published epoch can never be lumped again" (D030).
THEOREM DepositsAreLumpedOnce == ASSUME Contained PROVE KeeperSpec => []LumpedOnce
<1>1. KeeperInv => LumpedOnce
  BY DEF KeeperInv
<1>2. QED
  BY <1>1, KeeperInvariant, PTL

\* The recorded watermark divides the shared deposits from those to come
\* (steps.ts: runFunding, cursorOf).
THEOREM WatermarkAlwaysDivides == ASSUME Contained PROVE KeeperSpec => []WatermarkDivides
<1>1. ASSUME KeeperInv PROVE WatermarkDivides
  <2>1. SharedIn(activation.alloc) = {d \in Made : minedIn[d] <= activation.watermark}
    BY <1>1, CursorTypes DEF KeeperInv, CursorHolds, Covers, Divides, SharedIn, Made
  <2>2. QED
    BY <1>1, <2>1 DEF KeeperInv, CursorHolds, WatermarkDivides
<1>2. QED
  BY <1>1, KeeperInvariant, PTL

\* As long as no pending publish is lost sight of and intents are seen, the
\* ledger explains every epoch on chain (reconcileCursor, tree-build's drift
\* check).
THEOREM FrontierIsExplained == ASSUME Contained PROVE KeeperSpec => []FrontierExplained
<1>1. KeeperInv => FrontierExplained
  BY DEF KeeperInv, FrontierHolds, FrontierExplained
<1>2. QED
  BY <1>1, KeeperInvariant, PTL

-----------------------------------------------------------------------------
(* The keeper implements the log of exactly-once epochs. *)

Allocations == [e \in DOMAIN published |-> published[e].alloc]

LEMMA AllocationsAreLog ==
  ASSUME KeeperTypeOK
  PROVE  /\ Allocations \in Seq(Sharing) /\ Len(Allocations) = Len(published)
         /\ \A e \in 1 .. Len(published) : Allocations[e] = published[e].alloc
<1>1. DOMAIN published = 1 .. Len(published) /\ Len(published) \in Nat
      /\ \A e \in 1 .. Len(published) : published[e].alloc \in Sharing
  BY CursorTypes
<1>2. QED
  BY <1>1 DEF Allocations

\* What the next epoch builds on is the cursor's sharing, once it has caught up.
LEMMA LatestIsCursor ==
  ASSUME KeeperInv, Len(published) = activation.index
  PROVE  Log!Latest(Allocations) = activation.alloc
<1>0. KeeperTypeOK /\ CursorHolds
  BY DEF KeeperInv
<1>1. CASE published = <<>>
  <2>1. Allocations = <<>>
    BY <1>0, <1>1, AllocationsAreLog
  <2>2. activation.alloc \in [Deposits -> Seq(SUBSET Wallets)] /\ activation.watermark = 0
    BY <1>0, <1>1, CursorTypes DEF CursorHolds, Sharing
  <2>3. \A d \in Deposits : activation.alloc[d] = <<>>
    BY <1>0, <2>2 DEF CursorHolds, Covers, Divides
  <2>4. activation.alloc = [d \in Deposits |-> <<>>]
    BY <2>2, <2>3
  <2>5. QED
    BY <2>1, <2>4 DEF Log!Latest, Log!Unshared
<1>2. CASE published # <<>>
  <2>1. Len(published) \in 1 .. Len(published) /\ Allocations # <<>>
    BY <1>0, <1>2, AllocationsAreLog DEF KeeperTypeOK
  <2>2. QED
    BY <1>0, <2>1, AllocationsAreLog DEF Log!Latest, CursorHolds
<1>3. QED
  BY <1>1, <1>2

\* A deposit that is not on chain is in no epoch, so neither is one that may
\* still move.
LEMMA MovableIsUnshared ==
  ASSUME KeeperInv, NEW d \in Deposits, Movable({d})
  PROVE  Log!Latest(Allocations)[d] = <<>>
<1>0. KeeperTypeOK /\ CursorHolds /\ FrontierHolds
  BY DEF KeeperInv
<1>1. CASE published = <<>>
  BY <1>0, <1>1, AllocationsAreLog DEF Log!Latest, Log!Unshared
<1>2. CASE published # <<>>
  <2>1. Len(published) \in 1 .. Len(published) /\ Allocations # <<>> /\ Len(published) > 0
    BY <1>0, <1>2, AllocationsAreLog DEF KeeperTypeOK
  <2>2. Log!Latest(Allocations) = published[Len(published)].alloc
    BY <1>0, <2>1, AllocationsAreLog DEF Log!Latest
  <2>3. CASE \A e \in DOMAIN published : published[e].alloc[d] = <<>>
    BY <1>0, <2>1, <2>2, <2>3, CursorTypes
  <2>4. CASE minedIn[d] = 0
    <3>1. CASE Len(published) = activation.index
      BY <1>0, <2>1, <2>2, <2>4, <3>1, CursorTypes DEF CursorHolds, Covers, Divides
    <3>2. CASE Len(published) # activation.index
      <4>1. Len(published) > activation.index
        BY <1>0, <3>2, CursorTypes DEF CursorHolds
      <4>2. QED
        BY <1>0, <2>2, <2>4, <4>1, CursorTypes DEF FrontierHolds, Covers, Divides
    <3>3. QED
      BY <3>1, <3>2
  <2>5. QED
    BY <2>3, <2>4 DEF Movable
<1>3. QED
  BY <1>1, <1>2

LEMMA DepositArrives ==
  ASSUME KeeperInv, NEW d \in Deposits, Movable({d}), Extend({d}), UNCHANGED published
  PROVE  \E b \in 1 .. MaxBlock : Log!Arrive(d, b)
<1>0. tip \in Nat /\ MaxBlock \in Nat /\ \A other \in Deposits : minedIn[other] \in 0 .. tip
  BY CursorTypes DEF KeeperInv
<1>1. tip + 1 \in 1 .. MaxBlock
  BY <1>0 DEF Extend
<1>2. minedIn \in [Deposits -> 0 .. tip]
  BY DEF KeeperInv, KeeperTypeOK
<1>3. minedIn' = [minedIn EXCEPT ![d] = tip + 1]
  BY <1>2 DEF Extend
<1>4. \A other \in Deposits : minedIn[other] < tip + 1
  BY <1>0
<1>5. Log!Arrive(d, tip + 1)
  BY <1>3, <1>4, MovableIsUnshared DEF Log!Arrive, Allocations
<1>6. QED
  BY <1>1, <1>5

LEMMA EmptyBlockStutters ==
  ASSUME KeeperInv, Extend({}), UNCHANGED published
  PROVE  UNCHANGED <<minedIn, Allocations>>
<1>1. minedIn \in [Deposits -> 0 .. tip]
  BY DEF KeeperInv, KeeperTypeOK
<1>2. minedIn' = minedIn
  BY <1>1 DEF Extend
<1>3. QED
  BY <1>2 DEF Allocations

\* The block of a purchase or of anyone: a deposit arrives, or nothing does.
LEMMA NextDepositArrives ==
  ASSUME KeeperInv, HasNext, Extend(NextDeposit), UNCHANGED published
  PROVE  Log!LogNext
<1>1. PICK d \in Deposits : NextDeposit = {d} /\ Movable({d})
  BY NextDepositIsNew DEF KeeperInv
<1>2. QED
  BY <1>1, DepositArrives DEF Log!LogNext

\* A mined root shares everything made up to its funding tip.
LEMMA MinedRootShares ==
  ASSUME KeeperInv, Mine, published' = Append(published, ctx.root)
  PROVE  Log!LogNext
<1>0. /\ pc = "await" /\ Len(published) = activation.index /\ KeeperTypeOK
      /\ UNCHANGED minedIn /\ pc \in Built /\ pc \in Afterwards
  BY MineSends DEF KeeperInv, Built, Afterwards
<1>1. /\ ctx.funded # {} /\ ctx.root.holders # {} /\ ctx.root.holders \in SUBSET Wallets
      /\ ctx.fundingTip \in Nat /\ ctx.fundingTip <= MaxBlock /\ activation.watermark \in Nat
      /\ ctx.funded \subseteq Deposits
      /\ \A d \in Deposits :
           d \in ctx.funded <=> minedIn[d] \in activation.watermark + 1 .. ctx.fundingTip
  BY <1>0, CursorTypes, SMTT(30) DEF KeeperInv, KeeperTypeOK, ContextHolds, BuiltHolds, FundingHolds
<1> DEFINE a == Log!Latest(Allocations)
           new == {d \in Deposits : a[d] = <<>> /\ minedIn[d] \in 1 .. ctx.fundingTip}
<1>2. a = activation.alloc
  BY <1>0, LatestIsCursor
<1>3. PICK d \in ctx.funded : minedIn[d] \in activation.watermark + 1 .. ctx.fundingTip
  BY <1>1
<1>4. d \in new /\ ctx.fundingTip \in 1 .. MaxBlock
  <2>1. activation.alloc[d] = <<>>
    <3>1. activation.alloc[d] # <<>> <=> minedIn[d] \in 1 .. activation.watermark
      BY <1>1 DEF KeeperInv, CursorHolds, Covers, Divides
    <3>2. QED
      BY <1>1, <1>3, <3>1
  <2>2. QED
    BY <1>1, <1>2, <1>3, <2>1
<1>5. ctx.root.alloc = [e \in Deposits |-> IF e \in new THEN <<ctx.root.holders>> ELSE a[e]]
  <2>1. ctx.root.alloc \in [Deposits -> Seq(SUBSET Wallets)]
    BY <1>0, CursorTypes DEF Sharing
  <2>2. \A e \in Deposits : ctx.root.alloc[e] = IF e \in new THEN <<ctx.root.holders>> ELSE a[e]
    BY <1>0, <1>2, PendingRoot
  <2>3. QED
    BY <2>1, <2>2
<1>6. Allocations' = Append(Allocations, ctx.root.alloc)
  <2>1. /\ Allocations \in Seq(Sharing) /\ Len(Allocations) = Len(published)
        /\ \A e \in 1 .. Len(published) : Allocations[e] = published[e].alloc
        /\ ctx.root.alloc \in Sharing
    BY <1>0, AllocationsAreLog, CursorTypes
  <2>2. /\ DOMAIN published' = 1 .. Len(published) + 1 /\ published'[Len(published) + 1] = ctx.root
        /\ \A e \in 1 .. Len(published) : published'[e] = published[e]
        /\ Len(published) \in Nat
    BY <1>0, CursorTypes DEF KeeperTypeOK
  <2>3. Allocations' = [e \in 1 .. Len(published) + 1 |-> published'[e].alloc]
    BY <2>2 DEF Allocations
  <2>4. QED
    BY <2>1, <2>2, <2>3
<1> HIDE DEF a, new
<1>7. ctx.root.holders \in (SUBSET Wallets) \ {{}} /\ ctx.fundingTip \in 1 .. MaxBlock
  BY <1>1, <1>4
<1>8. \E S \in (SUBSET Wallets) \ {{}}, w \in 1 .. MaxBlock : Log!Share(S, w)
  BY <1>0, <1>4, <1>5, <1>6, <1>7 DEF Log!Share, Allocations, a, new
<1>9. QED
  BY <1>8 DEF Log!LogNext

\* Every step of the keeper is a step of the log or none.
LEMMA KeeperStepsLog ==
  ASSUME KeeperInv, Contained, [KeeperNext]_vars
  PROVE  [Log!LogNext]_<<minedIn, Allocations>>
<1>1. CASE UNCHANGED <<minedIn, published>>
  BY <1>1 DEF Allocations
<1>2. CASE NewBlock
  BY <1>2, EmptyBlockStutters, NextDepositArrives DEF NewBlock
<1>3. CASE \E d \in Deposits : Reorganise(d)
  <2>1. PICK d \in Deposits : Reorganise(d)
    BY <1>3
  <2>2. Movable({d}) /\ Extend({d}) /\ UNCHANGED published
    BY <2>1, CursorTypes DEF KeeperInv, Movable, Reorganise, Contained, SharedIn
  <2>3. QED
    BY <2>2, DepositArrives DEF Log!LogNext
<1>4. CASE Mine
  BY <1>1, <1>4, MineSends, MinedRootShares
<1>5. CASE BasketPurchase
  BY <1>1, <1>5, NextDepositArrives DEF BasketPurchase, Purchase
<1>6. CASE \/ Work \/ PurchaseFails \/ JobFails \/ Crash
            \/ \E eligible \in SUBSET Wallets : Snapshot(eligible)
  BY <1>1, <1>6 DEF Work, StartCycle, Funding, DriftCheck, TreeBuild, ManifestValidate, RootPropose,
     ProbeOnchain, SendPublish, RecordActivation, PurchaseFails, JobFails, Crash, Snapshot, chainVars
<1>7. CASE UNCHANGED vars
  BY <1>1, <1>7 DEF vars, chainVars
<1>8. QED
  BY <1>2, <1>3, <1>4, <1>5, <1>6, <1>7 DEF KeeperNext

\* Through crashes, interleaved blocks and unseen activations the keeper is
\* the abstract log: every deposit is shared once, in the order of its block.
THEOREM KeeperImplementsLog == ASSUME Contained PROVE KeeperSpec => ImplementsLog
<1>1. KeeperInit => Log!LogInit
  BY DEF KeeperInit, Log!LogInit
<1>2. KeeperInv /\ [KeeperNext]_vars => [Log!LogNext]_<<minedIn, Allocations>>
  BY KeeperStepsLog
<1>3. KeeperInv /\ [KeeperNext]_vars =>
        [Log!LogNext]_<<minedIn, [e \in DOMAIN published |-> published[e].alloc]>>
  BY <1>2 DEF Allocations
<1>4. QED
  BY <1>1, <1>3, KeeperInvariant, PTL DEF KeeperSpec, ImplementsLog, Log!LogSpec
=============================================================================
