---------------------------- MODULE EvidenceOutbox ----------------------------
(***************************************************************************)
(* The outbox that projects the evidence event table onto the audit log    *)
(* (EvidenceStore.append and flush) and the calls and commands that fill   *)
(* and empty it.  A tools/call appends its dispatch intent, flushes,       *)
(* dispatches, appends two more events and flushes again; when anything in *)
(* between fails it appends its outcome and does not flush.  Commands      *)
(* (reconcile, check) append and do not flush.                             *)
(*                                                                         *)
(* Events are their sequence numbers.  flush reads a batch, emits an event *)
(* and marks it delivered; the first mark takes SQLite's write lock, which *)
(* is kept until the commit of the whole batch or its rollback.            *)
(***************************************************************************)
EXTENDS Naturals, Sequences, FiniteSets

CONSTANTS
  Calls,     \* tools/call requests, by any gateway process
  Commands,  \* reconcile and check commands that append one event
  Limit,     \* rows in a batch (1000 in the code)
  Crashes,   \* whether processes may die
  NoOne      \* no holder of the write lock

ASSUME LimitAssumption == Limit \in Nat \ {0} /\ Crashes \in BOOLEAN /\ NoOne \notin Calls

VARIABLES
  count,      \* events in the table: 1..count
  delivered,  \* events marked delivered by a committed flush
  writer,     \* the call that holds the write lock for its marks
  log,        \* evidence events in the audit log, in the order emitted
  pc,         \* pc[p]: where call or command p is
  round,      \* round[c]: first or second flush of call c
  batch,      \* batch[c]: rows that call c has still to emit or mark
  marked,     \* marked[c]: rows marked by c and not yet committed
  reach       \* reach[c]: events in the table at a select of c that took all

flushVars == <<round, batch, marked, reach>>
vars == <<count, delivered, writer, log, pc, flushVars>>

TypeOK ==
  /\ count \in Nat
  /\ delivered \subseteq 1..count
  /\ writer \in Calls \cup {NoOne}
  /\ log \in Seq(Nat)
  /\ pc \in [Calls \cup Commands ->
       {"new", "select", "batch", "emitted", "sent", "observed", "failing", "over", "done"}]
  /\ round \in [Calls -> 1..2]
  /\ batch \in [Calls -> SUBSET (1..count)]
  /\ marked \in [Calls -> SUBSET (1..count)]
  /\ reach \in [Calls -> 0..count]

Init ==
  /\ count = 0 /\ delivered = {} /\ writer = NoOne /\ log = <<>>
  /\ pc = [p \in Calls \cup Commands |-> "new"]
  /\ round = [c \in Calls |-> 1]
  /\ batch = [c \in Calls |-> {}]
  /\ marked = [c \in Calls |-> {}]
  /\ reach = [c \in Calls |-> 0]

Emitted == {log[n] : n \in 1..Len(log)}

-----------------------------------------------------------------------------
(* Appending, each time in a transaction that needs the write lock.        *)

Goto(p, place) == pc' = [pc EXCEPT ![p] = place]


\* A transaction that appends one event.
Insert ==
  /\ writer = NoOne
  /\ count' = count + 1

Reserve(c) ==
  /\ pc[c] = "new"
  /\ Insert
  /\ Goto(c, "select")
  /\ UNCHANGED <<delivered, writer, log, flushVars>>

\* observe, then prepared.
Record(c) ==
  /\ pc[c] \in {"sent", "observed"}
  /\ Insert
  /\ Goto(c, IF pc[c] = "sent" THEN "observed" ELSE "select")
  /\ round' = [round EXCEPT ![c] = 2]
  /\ UNCHANGED <<delivered, writer, log, batch, marked, reach>>

\* outcome_unavailable, unless storage is unavailable too.
RecordOutcome(c) ==
  /\ pc[c] = "failing"
  /\ \/ Insert
     \/ UNCHANGED count
  /\ Goto(c, "over")
  /\ UNCHANGED <<delivered, writer, log, flushVars>>

Command(p) ==
  /\ pc[p] = "new"
  /\ Insert
  /\ Goto(p, "over")
  /\ UNCHANGED <<delivered, writer, log, flushVars>>

-----------------------------------------------------------------------------
(* flush.                                                                  *)

\* WHERE delivered=0 ORDER BY seq LIMIT.
Pending == (1..count) \ delivered

FirstRows == {e \in Pending : Cardinality({d \in Pending : d < e}) < Limit}

\* Variants named ...Bug are plausible mistakes; no specification uses them.
LastBug(e, rows) == e \in rows /\ \A d \in rows : d <= e

First(e, rows) == e \in rows /\ \A d \in rows : e <= d

Select(c) ==
  /\ pc[c] = "select"
  /\ batch' = [batch EXCEPT ![c] = FirstRows]
  /\ reach' = [reach EXCEPT ![c] = IF FirstRows = Pending THEN count ELSE 0]
  /\ Goto(c, "batch")
  /\ UNCHANGED <<count, delivered, writer, log, round, marked>>

EmitBug(c) ==
  /\ pc[c] = "batch"
  /\ \E e \in batch[c] : First(e, batch[c]) /\ log' \in {log, Append(log, e)}
  /\ Goto(c, "emitted")
  /\ UNCHANGED <<count, delivered, writer, flushVars>>

Emit(c) ==
  /\ pc[c] = "batch"
  /\ \E e \in batch[c] : First(e, batch[c]) /\ log' = Append(log, e)
  /\ Goto(c, "emitted")
  /\ UNCHANGED <<count, delivered, writer, flushVars>>

Mark(c) ==
  /\ pc[c] = "emitted"
  /\ writer \in {NoOne, c}
  /\ writer' = c
  /\ \E e \in batch[c] :
       /\ First(e, batch[c])
       /\ marked' = [marked EXCEPT ![c] = @ \cup {e}]
       /\ batch' = [batch EXCEPT ![c] = @ \ {e}]
  /\ Goto(c, "batch")
  /\ UNCHANGED <<count, delivered, log, round, reach>>

Release(c) ==
  /\ writer' = IF writer = c THEN NoOne ELSE writer
  /\ marked' = [marked EXCEPT ![c] = {}]
  /\ batch' = [batch EXCEPT ![c] = {}]

Commit(c) ==
  /\ pc[c] = "batch" /\ batch[c] = {}
  /\ delivered' = delivered \cup marked[c]
  /\ Release(c)
  /\ Goto(c, IF round[c] = 1 THEN "sent" ELSE "done")
  /\ UNCHANGED <<count, log, round, reach>>

RollbackBug(c) == delivered' = delivered \cup batch[c] \cup marked[c]

\* What a failed flush leaves of its marks.
Rollback(c) == delivered' = delivered

\* An emit, an update that waited five seconds for the lock, the upstream
\* server or a later recording fails: the transaction is rolled back.
Fail(c) ==
  /\ pc[c] \in {"select", "batch", "emitted", "sent", "observed"}
  /\ Rollback(c)
  /\ Release(c)
  /\ Goto(c, "failing")
  /\ UNCHANGED <<count, log, round, reach>>

Crash(c) ==
  /\ Crashes
  /\ pc[c] \notin {"new", "over", "done"}
  /\ Rollback(c)
  /\ Release(c)
  /\ Goto(c, "over")
  /\ UNCHANGED <<count, log, round, reach>>

-----------------------------------------------------------------------------
Step(c) ==
  \/ Reserve(c) \/ Record(c) \/ RecordOutcome(c)
  \/ Select(c) \/ Emit(c) \/ Mark(c) \/ Commit(c) \/ Fail(c)

Next ==
  \/ \E c \in Calls : Step(c) \/ Crash(c)
  \/ \E p \in Commands : Command(p)

Spec == Init /\ [][Next]_vars

-----------------------------------------------------------------------------
(* Properties.                                                             *)

(* An event is marked delivered only once it is in the audit log, whatever *)
(* flushes run side by side and wherever they fail: none is ever skipped.  *)
DeliveredAreEmitted == delivered \subseteq Emitted

(* However often events are emitted again, none appears in the log before  *)
(* every earlier one has appeared.                                         *)
LogHasNoGaps ==
  \A n \in 1..Len(log) : \A e \in 1..log[n] - 1 : \E m \in 1..n - 1 : log[m] = e

(* A call that dispatches, or ends well, has its events in the audit log,  *)
(* and all earlier ones too, unless the batch was full.                    *)
FlushIsComplete ==
  \A c \in Calls : pc[c] \in {"sent", "done"} => 1..reach[c] \subseteq Emitted
=============================================================================
