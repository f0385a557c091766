----------------------------- MODULE StepLedger -----------------------------
(***************************************************************************)
(* The other two step stores: DurableStepStore (ledger.ts), whose map is   *)
(* what a replay of its file rebuilds, and MemoryStepStore (state.ts),     *)
(* which a restart empties.  A record is kept under the id of its cycle    *)
(* and its job; an id is allocated when a cycle starts and is written      *)
(* nowhere until the cycle puts its first record.                          *)
(*                                                                         *)
(* Ids are the numbers in them ("c10" is 10).  What a torn line does to    *)
(* the file, and which record of a job is read, is Keeper's subject.       *)
(***************************************************************************)
EXTENDS Integers, FiniteSets, FiniteSetsExt

CONSTANTS
  Jobs,
  MaxCycles   \* bound: cycles started

ASSUME LedgerAssumption == MaxCycles \in Nat

VARIABLES
  durable,    \* which of the two stores
  records,    \* the map: id, job, and the cycle that put the record
  counter,    \* the allocator of this process
  running     \* the id of the cycle that runs, its ordinal, is the process up

stepVars == <<durable, records, counter, running>>

StepInit ==
  /\ durable \in BOOLEAN
  /\ records = {} /\ counter = 0
  /\ running = [id |-> 0, cycle |-> 0]

IdsOf(map) == {r.id : r \in map}

\* Mutant: as many ids as there are in the map.
CountOfIds(map) == Cardinality(IdsOf(map))

\* The greatest id among the keys.
HighestId(map) == Max(IdsOf(map) \cup {0})

\* nextCycleId at the start of runCycle.
NextCycleId ==
  LET scanned == IF durable THEN Max({counter, HighestId(records)}) ELSE counter
  IN  /\ running.cycle < MaxCycles \* bound
      /\ counter' = scanned + 1
      /\ running' = [id |-> scanned + 1, cycle |-> running.cycle + 1]
      /\ UNCHANGED <<durable, records>>

PutStep(job) ==
  /\ running.id > 0
  /\ records' = {r \in records : r.id # running.id \/ r.job # job}
                \cup {[id |-> running.id, job |-> job, cycle |-> running.cycle]}
  /\ UNCHANGED <<durable, counter, running>>

\* delete: a tombstone, which a replay applies too.
DeleteStep(r) ==
  /\ r \in records
  /\ records' = records \ {r}
  /\ UNCHANGED <<durable, counter, running>>

\* The process dies and starts again: the constructor and its replay.
RestartStore ==
  /\ records' = IF durable THEN records ELSE {}
  /\ counter' = IF durable THEN HighestId(records) ELSE 0
  /\ running' = [running EXCEPT !.id = 0]
  /\ UNCHANGED durable

StepNext ==
  \/ NextCycleId \/ RestartStore
  \/ \E job \in Jobs : PutStep(job)
  \/ \E r \in records : DeleteStep(r)

StepSpec == StepInit /\ [][StepNext]_stepVars

-----------------------------------------------------------------------------
\* "A crash never double-allocates" (ledger.ts:38): whatever died before its
\* first record or was deleted, a cycle never runs under the id of a record
\* that another cycle left, so no put replaces the intent or the activation of
\* an earlier epoch.
IdsAreFresh ==
  \A r \in records : running.id = r.id => running.cycle = r.cycle
=============================================================================
