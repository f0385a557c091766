---------------------------- MODULE PgStepStore ----------------------------
(***************************************************************************)
(* pg-store.ts: the step ledger in Postgres.  put and nextCycleId each     *)
(* send BEGIN, one statement, COMMIT, and ROLLBACK when one of the last    *)
(* two throws; every query is a round trip, so calls that were not awaited *)
(* (seal does not await put) interleave statement by statement.            *)
(*                                                                         *)
(* Without an injected client each call has a pooled connection of its     *)
(* own; with one, all calls share its session and so its transaction.      *)
(* A record is the call that puts it: every sealed step has a key of its   *)
(* own.  The schema and its one journals row are there from the start      *)
(* (without the row every allocation would read 0), and a COMMIT that is   *)
(* carried out answers: one whose reply is lost is left out.               *)
(***************************************************************************)
EXTENDS Integers

CONSTANTS Puts, Allocations, \* calls of put and of nextCycleId
          Client             \* the injected client

ASSUME PgAssumption ==
  Puts \cap Allocations = {} /\ Client \notin Puts \cup Allocations

VARIABLES
  client,    \* was a client injected
  stage,     \* the next statement of each call, or how the call ended
  txn,       \* the transaction of each connection
  wrote,     \* rows and bumps of the open transaction of each connection
  rows, cycle, \* committed: step_records, and journals.cycle
  issued,    \* the number each allocation read
  broken     \* history: a statement failed

pgVars == <<client, stage, txn, wrote, rows, cycle, issued, broken>>

Calls == Puts \cup Allocations
Connections == Calls \cup {Client}
Nothing == [rows |-> {}, bumps |-> 0]

\* withConnection
Conn(c) == IF client THEN Client ELSE c

PgInit ==
  /\ client \in BOOLEAN
  /\ stage = [c \in Calls |-> "begin"]
  /\ txn = [k \in Connections |-> "none"]
  /\ wrote = [k \in Connections |-> Nothing]
  /\ rows = {} /\ cycle = 0
  /\ issued = [c \in Allocations |-> 0]
  /\ broken = FALSE

To(c, next) == stage' = [stage EXCEPT ![c] = next]
EndTxn(k, state) == txn' = [txn EXCEPT ![k] = state] /\ wrote' = [wrote EXCEPT ![k] = Nothing]

\* BEGIN inside a transaction is a warning; it is sent outside of the try.
Begin(c) ==
  /\ stage[c] = "begin" /\ txn[Conn(c)] # "aborted"
  /\ To(c, "work")
  /\ txn' = [txn EXCEPT ![Conn(c)] = "open"]
  /\ UNCHANGED <<client, wrote, rows, cycle, issued, broken>>

BeginFails(c) ==
  /\ stage[c] = "begin"
  /\ To(c, "failed")
  /\ broken' = TRUE
  /\ UNCHANGED <<client, txn, wrote, rows, cycle, issued>>

\* A statement outside of a transaction commits by itself.
Write(c, adds, bumps) ==
  LET k == Conn(c)
  IN  /\ txn[k] # "aborted"
      /\ To(c, "commit")
      /\ IF txn[k] = "open"
           THEN /\ wrote' = [wrote EXCEPT ![k] = [rows |-> @.rows \cup adds, bumps |-> @.bumps + bumps]]
                /\ UNCHANGED <<rows, cycle>>
           ELSE rows' = rows \cup adds /\ cycle' = cycle + bumps /\ UNCHANGED wrote
      /\ UNCHANGED <<client, txn, broken>>

Put(c) == stage[c] = "work" /\ Write(c, {c}, 0) /\ UNCHANGED issued

\* Mutant: the counter is read without the lock of its row.
BumpUnlocked(c) ==
  /\ stage[c] = "work"
  /\ issued' = [issued EXCEPT ![c] = cycle + wrote[Conn(c)].bumps + 1]
  /\ Write(c, {}, 1)

\* The row of the counter stays locked until its transaction ends.
Bump(c) ==
  /\ stage[c] = "work"
  /\ \A k \in Connections \ {Conn(c)} : wrote[k].bumps = 0
  /\ issued' = [issued EXCEPT ![c] = cycle + wrote[Conn(c)].bumps + 1]
  /\ Write(c, {}, 1)

\* The statement or the COMMIT is refused: the transaction, if any, is aborted.
StatementFails(c) ==
  /\ stage[c] \in {"work", "commit"}
  /\ To(c, "rollback")
  /\ IF txn[Conn(c)] = "none" THEN UNCHANGED <<txn, wrote>> ELSE EndTxn(Conn(c), "aborted")
  /\ broken' = TRUE
  /\ UNCHANGED <<client, rows, cycle, issued>>

\* Mutant: a COMMIT that throws is taken for done.
CommitSwallowed(c) ==
  LET k == Conn(c)
  IN  /\ stage[c] = "commit"
      /\ To(c, "done")
      /\ EndTxn(k, "none")
      /\ rows' \in {rows, rows \cup wrote[k].rows} /\ cycle' = cycle + wrote[k].bumps
      /\ UNCHANGED <<client, issued, broken>>

\* COMMIT of an aborted transaction rolls it back and is no error.
Commit(c) ==
  LET k == Conn(c)
  IN  /\ stage[c] = "commit"
      /\ To(c, "done")
      /\ EndTxn(k, "none")
      /\ rows' = rows \cup wrote[k].rows /\ cycle' = cycle + wrote[k].bumps
      /\ UNCHANGED <<client, issued, broken>>

Rollback(c) ==
  /\ stage[c] = "rollback"
  /\ To(c, "failed")
  /\ EndTxn(Conn(c), "none")
  /\ UNCHANGED <<client, rows, cycle, issued, broken>>

\* The process dies: its connections close, its calls never return.
Dies ==
  /\ \E c \in Calls : stage[c] \in {"work", "commit", "rollback"}
  /\ stage' = [c \in Calls |->
                 IF stage[c] \in {"work", "commit", "rollback"} THEN "failed" ELSE stage[c]]
  /\ txn' = [k \in Connections |-> "none"]
  /\ wrote' = [k \in Connections |-> Nothing]
  /\ UNCHANGED <<client, rows, cycle, issued, broken>>

PgNext ==
  \/ \E c \in Calls : Begin(c) \/ BeginFails(c) \/ StatementFails(c) \/ Commit(c) \/ Rollback(c)
  \/ \E c \in Puts : Put(c)
  \/ \E c \in Allocations : Bump(c)
  \/ Dies

PgSpec == PgInit /\ [][PgNext]_pgVars

-----------------------------------------------------------------------------
\* Calls fail apart from each other: on pooled connections always, on a shared
\* client as long as no statement fails (a failure there takes the rows of the
\* other calls with it, and their COMMIT reports success all the same).
Isolated == ~client \/ ~broken

\* A put that resolved is in the table for good, whatever other calls and a
\* death of the process do: what put promises the write-ahead intent (D030).
ReportedIsDurable == Isolated => \A c \in Puts : stage[c] = "done" => c \in rows

\* "Concurrent keeper processes never double-allocate a cycle id" (pg-store.ts:40).
CycleIdsUnique ==
  Isolated =>
    \A c, d \in Allocations :
      c # d /\ stage[c] = "done" /\ stage[d] = "done" => issued[c] # issued[d]
=============================================================================
