------------------------------- MODULE Keeper -------------------------------
(***************************************************************************)
(* The keeper's epoch cycle over the chain and its step ledger             *)
(* (services/keeper: keeper.ts, steps.ts, pipeline.ts).  One process runs  *)
(* the jobs in order; each job reads the chain at its own moment, so       *)
(* blocks and transactions land between them; the process may die anywhere *)
(* and starts again from what the ledger kept.                             *)
(*                                                                         *)
(* There is one reward token (the token lists are RewardRail's subject)    *)
(* and every deposit is a unit of it.  A root is what its leaves say: the  *)
(* eligible wallets and, for every deposit, the sets of wallets it was     *)
(* shared among, one for each time it was.  Epochs are counted from 1      *)
(* where the contract counts from 0, so the index of a cursor is also the  *)
(* number of epochs published up to it.                                    *)
(*                                                                         *)
(* The ledger is the file of DurableStepStore: intent and activation are   *)
(* the records in memory, onDisk what a replay of the file finds.  A       *)
(* reorganisation moves a deposit of the last block into a later one;      *)
(* published roots stay.  The skip of root-activate for an epoch that is   *)
(* already recorded is left out: an index that is on chain is never built  *)
(* again.                                                                  *)
(***************************************************************************)
EXTENDS Integers, Sequences, FiniteSets, FiniteSetsExt

CONSTANTS
  Wallets, Deposits,
  MaxBlock,           \* bound: height of the chain
  MaxFaults,          \* bound: deaths of the process, failed jobs and unseen records
  LosesPublish,       \* may the process die, or the job throw, while a publish is pending
  TornTails,          \* may a death leave part of a line at the end of the file
  UnseenRecords,      \* the jobs whose record may go unseen
  ReorgsAfterFunding  \* may a deposit move that the cycle has read

ASSUME KeeperAssumption ==
  /\ MaxBlock \in Nat /\ MaxFaults \in Nat
  /\ {LosesPublish, TornTails, ReorgsAfterFunding} \subseteq BOOLEAN
  /\ UnseenRecords \subseteq {"root-propose", "root-activate"}

VARIABLES
  tip, minedIn, published,  \* the chain: height, block of each deposit (0: none), roots
  mempool,                  \* publish transactions sent, oldest first (account nonces)
  intent, activation,       \* the ledger: last root-propose and root-activate records
  onDisk,                   \* the file: the same two records, and whether its tail is torn
  pc, ctx,                  \* the process: next job and CycleContext
  faults

chainVars == <<tip, minedIn, published, mempool>>
ledgerVars == <<intent, activation, onDisk>>
vars == <<chainVars, ledgerVars, pc, ctx, faults>>

Sharing == [Deposits -> Seq(SUBSET Wallets)]
Unshared == [d \in Deposits |-> <<>>]
Made == {d \in Deposits : minedIn[d] > 0}
SharedIn(a) == {d \in Deposits : a[d] # <<>>}
TotalOf(a) == MapThenSumSet(LAMBDA d : Len(a[d]), Deposits)

Root == [holders : SUBSET Wallets, alloc : Sharing]
Cursor == [index : Nat, watermark : 0 .. MaxBlock, alloc : Sharing]

NoRoot == [holders |-> {}, alloc |-> Unshared]
EmptyCursor == [index |-> 0, watermark |-> 0, alloc |-> Unshared]
NoIntent == [root |-> NoRoot, next |-> EmptyCursor]
NoContext ==
  [cursor |-> EmptyCursor, fundingTip |-> 0, funded |-> {}, root |-> NoRoot, index |-> 0]

KeeperInit ==
  /\ tip = 0 /\ minedIn = [d \in Deposits |-> 0] /\ published = <<>> /\ mempool = <<>>
  /\ intent = NoIntent /\ activation = EmptyCursor
  /\ onDisk = [intent |-> intent, activation |-> activation, torn |-> FALSE]
  /\ pc = "idle" /\ ctx = NoContext
  /\ faults = 0

-----------------------------------------------------------------------------
\* The chain

\* A block with the given deposits in it, of anyone's purchase.
Extend(made) ==
  /\ tip < MaxBlock \* bound
  /\ tip' = tip + 1
  /\ minedIn' = [d \in Deposits |-> IF d \in made THEN tip + 1 ELSE minedIn[d]]

NextDeposit == {CHOOSE d \in Deposits \ Made : TRUE}
HasNext == Deposits # Made

NewBlock ==
  /\ Extend({}) \/ (HasNext /\ Extend(NextDeposit))
  /\ UNCHANGED <<published, mempool, ledgerVars, pc, ctx, faults>>

\* The last block is abandoned and its deposit mined in the one after it.
Reorganise(d) ==
  /\ minedIn[d] = tip
  /\ \A e \in DOMAIN published : d \notin SharedIn(published[e].alloc)
  /\ ReorgsAfterFunding \/ minedIn[d] > ctx.fundingTip
  /\ Extend({d})
  /\ UNCHANGED <<published, mempool, ledgerVars, pc, ctx, faults>>

\* publishEpoch's own conditions: totals never fall and deposits cover them.
Accepts(root) ==
  /\ TotalOf(root.alloc) <= Cardinality(Made)
  /\ published # <<>> => TotalOf(root.alloc) >= TotalOf(published[Len(published)].alloc)

\* The oldest transaction is executed.  The process, if it waits for this one,
\* goes on only when the epoch got the index it was built for.
Mine ==
  /\ mempool # <<>>
  /\ mempool' = Tail(mempool)
  /\ published' = IF Accepts(Head(mempool)) THEN Append(published, Head(mempool)) ELSE published
  /\ IF pc = "await" /\ Len(mempool) = 1
       THEN IF Accepts(Head(mempool)) /\ Len(published) + 1 = ctx.index
              THEN pc' = "record" /\ UNCHANGED ctx
              ELSE pc' = "idle" /\ ctx' = NoContext
       ELSE UNCHANGED <<pc, ctx>>
  /\ UNCHANGED <<tip, minedIn, ledgerVars, faults>>

-----------------------------------------------------------------------------
\* The cycle

At(job, next) == pc = job /\ pc' = next
Halt == pc' = "idle" /\ ctx' = NoContext

\* append and the map update behind it: a line after a torn tail continues it,
\* so a replay skips both, and the file is whole again.
AppendRecord(field, value) ==
  onDisk' = IF onDisk.torn THEN [onDisk EXCEPT !.torn = FALSE]
                           ELSE [onDisk EXCEPT ![field] = value]

\* A record of a job the cycle never reads back.
AppendOther == onDisk' = [onDisk EXCEPT !.torn = FALSE]

\* A record of seal that is not the one history returns first: the put throws,
\* which is swallowed, or the clock says it is older than the one before it.
PutUnseen(job) ==
  /\ job \in UnseenRecords
  /\ faults < MaxFaults \* bound
  /\ faults' = faults + 1
  /\ UNCHANGED ledgerVars

\* Mutants: reconciliation left out; it misses the epoch after the cursor.
NeverRecoverable == FALSE

RecoverableBehind ==
  /\ intent.next.index > activation.index + 1
  /\ intent.next.index <= Len(published)
  /\ published[intent.next.index] = intent.root

\* reconcileCursor: the intent's epoch is on chain and was not recorded.
Recoverable ==
  /\ intent.next.index > activation.index
  /\ intent.next.index <= Len(published)
  /\ published[intent.next.index] = intent.root

StartCycle ==
  /\ At("idle", "purchase")
  /\ IF Recoverable
       THEN activation' = intent.next /\ AppendRecord("activation", intent.next)
       ELSE UNCHANGED <<activation, onDisk>>
  /\ ctx' = [NoContext EXCEPT !.cursor = activation']
  /\ UNCHANGED <<chainVars, intent, faults>>

\* PurchaseMachine.purchase: nothing below the minimum, or a sweep that buys.
Purchase == UNCHANGED <<tip, minedIn>> \/ (HasNext /\ Extend(NextDeposit))

BasketPurchase ==
  /\ At("purchase", "funding")
  /\ Purchase
  /\ AppendOther
  /\ UNCHANGED <<published, mempool, intent, activation, ctx, faults>>

\* Session closed, sweeps paused or a leg without a route: the cycle halts.
PurchaseFails ==
  /\ pc = "purchase" /\ Halt
  /\ AppendOther
  /\ UNCHANGED <<chainVars, intent, activation, faults>>

\* Mutants: the watermark is one block ahead; deposits are read from genesis.
FundingAhead ==
  /\ At("funding", "snapshot")
  /\ ctx' = [ctx EXCEPT !.fundingTip = tip + 1,
                        !.funded = {d \in Made : minedIn[d] > ctx.cursor.watermark}]
  /\ UNCHANGED <<chainVars, ledgerVars, faults>>

FundingFromGenesis ==
  /\ At("funding", "snapshot")
  /\ ctx' = [ctx EXCEPT !.fundingTip = tip, !.funded = Made]
  /\ UNCHANGED <<chainVars, ledgerVars, faults>>

Funding ==
  /\ At("funding", "snapshot")
  /\ ctx' = [ctx EXCEPT !.fundingTip = tip,
                        !.funded = {d \in Made : minedIn[d] > ctx.cursor.watermark}]
  /\ UNCHANGED <<chainVars, ledgerVars, faults>>

Snapshot(eligible) ==
  /\ At("snapshot", "drift-check")
  /\ ctx' = [ctx EXCEPT !.root.holders = eligible]
  /\ UNCHANGED <<chainVars, ledgerVars, faults>>

\* runTreeBuild: epochs on chain that the cursor does not know of need an
\* intent that covers them.
DriftCheck ==
  /\ pc = "drift-check"
  /\ IF Len(published) > ctx.cursor.index /\ intent.next.index < Len(published)
       THEN Halt
       ELSE pc' = "build" /\ UNCHANGED ctx
  /\ UNCHANGED <<chainVars, ledgerVars, faults>>

\* treeBuild reads the epoch count anew.  Nothing funded: the remaining jobs
\* skip; nobody eligible: allocate throws.
TreeBuild ==
  /\ pc = "build"
  /\ IF ctx.funded = {} \/ ctx.root.holders = {}
       THEN Halt
       ELSE /\ pc' = "validate"
            /\ ctx' = [ctx EXCEPT !.index = Len(published) + 1,
                         !.root.alloc = [d \in Deposits |->
                            IF d \in ctx.funded THEN ctx.cursor.alloc[d] \o <<ctx.root.holders>>
                                                ELSE ctx.cursor.alloc[d]]]
  /\ UNCHANGED <<chainVars, ledgerVars, faults>>

\* manifestValidate: the root targets the next epoch.  Its other checks are
\* RewardRail's (reconcile) and that a hash is computed the same way twice.
TargetsNext == ctx.index = Len(published) + 1

ManifestValidate ==
  /\ pc = "validate"
  /\ IF TargetsNext THEN pc' = "propose" /\ UNCHANGED ctx ELSE Halt
  /\ UNCHANGED <<chainVars, ledgerVars, faults>>

\* Mutant: the watermark is the tip of the moment it is recorded.
NextCursorAtTip ==
  [index |-> ctx.index, watermark |-> tip, alloc |-> ctx.root.alloc]

NextCursor ==
  [index |-> ctx.index, watermark |-> ctx.fundingTip, alloc |-> ctx.root.alloc]

RootPropose ==
  /\ At("propose", "probe")
  /\ LET record == [root |-> ctx.root, next |-> NextCursor]
     IN  \/ /\ intent' = record /\ AppendRecord("intent", record)
            /\ UNCHANGED <<activation, faults>>
         \/ PutUnseen("root-propose")
  /\ UNCHANGED <<chainVars, ctx>>

\* publishIfNeeded: already there, or a foreign epoch in its place, or send.
ProbeOnchain ==
  /\ pc = "probe"
  /\ IF ctx.index > Len(published) THEN pc' = "send" /\ UNCHANGED ctx
     ELSE IF published[ctx.index] = ctx.root THEN pc' = "record" /\ UNCHANGED ctx
     ELSE Halt
  /\ UNCHANGED <<chainVars, ledgerVars, faults>>

SendPublish ==
  /\ At("send", "await")
  /\ mempool' = Append(mempool, ctx.root)
  /\ UNCHANGED <<tip, minedIn, published, ledgerVars, ctx, faults>>

RecordActivation ==
  /\ pc = "record" /\ Halt
  /\ \/ /\ activation' = NextCursor /\ AppendRecord("activation", NextCursor)
        /\ UNCHANGED <<intent, faults>>
     \/ PutUnseen("root-activate")
  /\ UNCHANGED chainVars

\* A publish is sent and not executed yet; after a fault nothing waits for it.
Pending == mempool # <<>>

\* A job throws (an RPC error, a receipt that does not come in time): the cycle
\* is over and the process goes on to the next one.
JobFails ==
  /\ pc # "idle" /\ Halt
  /\ faults < MaxFaults \* bound
  /\ Pending => LosesPublish
  /\ faults' = faults + 1
  /\ AppendOther
  /\ UNCHANGED <<chainVars, intent, activation>>

\* The process dies and starts again: the ledger is what a replay finds.
Crash ==
  /\ pc # "idle" /\ Halt
  /\ faults < MaxFaults \* bound
  /\ Pending => LosesPublish
  /\ faults' = faults + 1
  /\ (UNCHANGED onDisk) \/ (TornTails /\ onDisk' = [onDisk EXCEPT !.torn = TRUE])
  /\ intent' = onDisk.intent /\ activation' = onDisk.activation
  /\ UNCHANGED chainVars

\* The jobs that run whatever the market and the holders do.
Work ==
  StartCycle \/ Funding \/ DriftCheck \/ TreeBuild \/ ManifestValidate \/ RootPropose
  \/ ProbeOnchain \/ SendPublish \/ RecordActivation

KeeperNext ==
  \/ NewBlock \/ Mine \/ \E d \in Deposits : Reorganise(d)
  \/ Work \/ BasketPurchase \/ PurchaseFails
  \/ \E eligible \in SUBSET Wallets : Snapshot(eligible)
  \/ JobFails \/ Crash

KeeperSpec == KeeperInit /\ [][KeeperNext]_vars

\* The keeper keeps running and the chain keeps mining; sessions open again
\* and again, and somebody is eligible again and again.
KeeperFairness ==
  /\ WF_vars(Work) /\ WF_vars(Mine)
  /\ SF_vars(BasketPurchase)
  /\ SF_vars(\E eligible \in (SUBSET Wallets) \ {{}} : Snapshot(eligible))

FairKeeperSpec == KeeperSpec /\ KeeperFairness

-----------------------------------------------------------------------------
Jobs == {"idle", "purchase", "funding", "snapshot", "drift-check", "build", "validate",
         "propose", "probe", "send", "await", "record"}

\* Types of the chain, the ledger and the process.
KeeperTypeOK ==
  /\ tip \in 0 .. MaxBlock /\ minedIn \in [Deposits -> 0 .. tip]
  /\ published \in Seq(Root) /\ mempool \in Seq(Root)
  /\ intent \in [root : Root, next : Cursor] /\ activation \in Cursor
  /\ onDisk \in [intent : [root : Root, next : Cursor], activation : Cursor, torn : BOOLEAN]
  /\ pc \in Jobs
  /\ ctx \in [cursor : Cursor, fundingTip : 0 .. MaxBlock, funded : SUBSET Deposits,
              root : Root, index : Nat]
  /\ faults \in 0 .. MaxFaults

\* "A deposit lumped into a published epoch can never be lumped again" (D030):
\* no root shares a deposit twice, and every root keeps the sharing of the
\* roots before it and adds to it.
LumpedOnce ==
  \A e \in DOMAIN published : \A d \in Deposits :
    /\ Len(published[e].alloc[d]) <= 1
    /\ e > 1 /\ d \in SharedIn(published[e - 1].alloc) =>
         published[e].alloc[d] = published[e - 1].alloc[d]

\* The watermark divides the deposits: those up to it are shared in the root
\* it was recorded for, those above it are not, so none is ever forgotten
\* although the tip is read first and blocks keep coming.
WatermarkDivides ==
  activation.index > 0 =>
    /\ activation.index <= Len(published)
    /\ published[activation.index].alloc = activation.alloc
    /\ SharedIn(activation.alloc) = {d \in Made : minedIn[d] <= activation.watermark}

\* Whatever a death, a failed job or an unseen root-activate record left behind,
\* the ledger explains every epoch on chain: an epoch not recorded as activated
\* is the one of the last intent, so the next cycle recovers it and tree-build
\* does not stop for the operator.  Outside of this are a publish that is lost
\* sight of while pending and a root-propose record that goes unseen: either may
\* leave an epoch on chain that only the operator can account for.
FrontierExplained ==
  Len(published) > activation.index =>
    /\ Len(published) = activation.index + 1
    /\ intent.next.index = Len(published)
    /\ intent.root = published[Len(published)]

\* Every deposit is shared out in the end, across faults, closed sessions and
\* snapshots without holders.
EveryDepositIsShared ==
  \A d \in Deposits :
    d \in Made ~> (published # <<>> /\ d \in SharedIn(published[Len(published)].alloc))

\* The keeper implements the log of exactly-once epochs.
Log == INSTANCE EpochLog WITH
         allocations <- [e \in DOMAIN published |-> published[e].alloc]
ImplementsLog == Log!LogSpec
=============================================================================
