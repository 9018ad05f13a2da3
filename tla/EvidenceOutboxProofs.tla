------------------------ MODULE EvidenceOutboxProofs ------------------------
(***************************************************************************)
(* Proofs about EvidenceOutbox for any number of calls and commands and    *)
(* any batch size.  A batch holds the earliest pending events, so whatever *)
(* precedes one of its events is in the log or in the batch before it;     *)
(* that stays true while other flushes emit, mark, commit or roll back.    *)
(***************************************************************************)
EXTENDS EvidenceOutbox, FiniteSetTheorems, TLAPS

Flushing(c) == pc[c] \in {"batch", "emitted"}

(* What is marked, or about to be, has been emitted.                       *)
MarksInv ==
  /\ DeliveredAreEmitted
  /\ \A c \in Calls :
       /\ marked[c] \subseteq Emitted
       /\ pc[c] = "emitted" => \A e \in batch[c] : First(e, batch[c]) => e \in Emitted

(* A batch leaves no gap before its events.                                *)
BatchInv ==
  \A c \in Calls : Flushing(c) =>
    /\ \A e \in batch[c] : 1..e - 1 \subseteq Emitted \cup batch[c]
    /\ 1..reach[c] \subseteq Emitted \cup batch[c]

IInv == TypeOK /\ MarksInv /\ BatchInv /\ LogHasNoGaps /\ FlushIsComplete

USE LimitAssumption

-----------------------------------------------------------------------------
LEMMA RowsAreFirst ==
  ASSUME TypeOK, NEW e \in FirstRows, NEW d \in Pending, d < e
  PROVE  d \in FirstRows
<1> DEFINE Before(x) == {y \in Pending : y < x}
<1>1. IsFiniteSet(Before(e)) /\ Before(d) \subseteq Before(e)
  <2>1. IsFiniteSet(1..count)
    BY FS_Interval DEF TypeOK
  <2>2. Before(e) \subseteq 1..count
    BY DEF Pending
  <2>3. Before(d) \subseteq Before(e)
    BY DEF FirstRows, Pending, TypeOK
  <2> QED BY <2>1, <2>2, <2>3, FS_Subset
<1>2. Cardinality(Before(d)) <= Cardinality(Before(e))
  BY <1>1, FS_Subset
<1>3. Cardinality(Before(d)) \in Nat /\ Cardinality(Before(e)) \in Nat
  BY <1>1, FS_Subset, FS_CardinalityType
<1> QED BY <1>2, <1>3 DEF FirstRows

LEMMA AppendEmits ==
  ASSUME TypeOK, NEW e \in Nat, log' = Append(log, e)
  PROVE  /\ log' \in Seq(Nat)
         /\ Len(log) \in Nat /\ Len(log') = Len(log) + 1
         /\ log'[Len(log) + 1] = e
         /\ \A n \in 1..Len(log) : log'[n] = log[n]
         /\ Emitted' = Emitted \cup {e}
<1>1. /\ log' \in Seq(Nat)
      /\ Len(log) \in Nat /\ Len(log') = Len(log) + 1
      /\ log'[Len(log) + 1] = e
      /\ \A n \in 1..Len(log) : log'[n] = log[n]
  BY DEF TypeOK
<1>2. 1..Len(log') = 1..Len(log) \cup {Len(log) + 1}
  BY <1>1
<1>3. Emitted' = Emitted \cup {e}
  BY <1>1, <1>2 DEF Emitted
<1> QED BY <1>1, <1>3

LEMMA InitIInv == Init => IInv
<1> SUFFICES ASSUME Init PROVE IInv
  OBVIOUS
<1>1. log \in Seq(Nat) /\ Len(log) = 0
  BY DEF Init
<1> QED BY <1>1 DEF Init, IInv, TypeOK, MarksInv, DeliveredAreEmitted, BatchInv, Flushing,
                    LogHasNoGaps, FlushIsComplete

-----------------------------------------------------------------------------
(* Steps that leave the log and the batches of other calls alone.          *)

LEMMA AppendStep ==
  ASSUME IInv, UNCHANGED <<delivered, writer, log, batch, marked, reach>>,
         count' \in {count, count + 1}, round' \in [Calls -> 1..2],
         NEW p \in Calls \cup Commands,
         NEW q \in {"select", "observed", "over"}, Goto(p, q)
  PROVE  IInv'
<1> USE DEF IInv, Goto
<1>1. TypeOK'
  BY DEF TypeOK
<1>2. \A c \in Calls : pc'[c] \in {"batch", "emitted", "sent", "done"} => pc'[c] = pc[c]
  BY DEF TypeOK
<1>3. MarksInv'
  BY <1>2 DEF MarksInv, DeliveredAreEmitted, Emitted
<1>4. BatchInv'
  BY <1>2 DEF BatchInv, Flushing, Emitted
<1>5. LogHasNoGaps'
  BY DEF LogHasNoGaps
<1>6. FlushIsComplete'
  BY <1>2 DEF FlushIsComplete, Emitted
<1> QED BY <1>1, <1>3, <1>4, <1>5, <1>6

LEMMA SelectStep ==
  ASSUME IInv, NEW c \in Calls, Select(c) PROVE IInv'
<1> USE DEF IInv, Select, Goto
<1>1. FirstRows \subseteq Pending /\ Pending \subseteq 1..count /\ count \in Nat
  BY DEF FirstRows, Pending, TypeOK
<1>2. TypeOK'
  BY <1>1 DEF TypeOK
<1>3. /\ \A x \in Calls : x # c => /\ pc'[x] = pc[x] /\ batch'[x] = batch[x]
                                   /\ reach'[x] = reach[x]
      /\ pc'[c] = "batch" /\ batch'[c] = FirstRows
      /\ reach'[c] = IF FirstRows = Pending THEN count ELSE 0
  BY DEF TypeOK
<1>4. MarksInv'
  BY <1>3 DEF MarksInv, DeliveredAreEmitted, Emitted
<1>5. (1..count) \ Pending \subseteq Emitted
  BY DEF MarksInv, DeliveredAreEmitted, Pending
<1>6. \A e \in FirstRows : 1..e - 1 \subseteq Emitted \cup FirstRows
  <2> TAKE e \in FirstRows
  <2>1. e \in 1..count
    BY <1>1
  <2>2. ASSUME NEW d \in 1..e - 1 PROVE d \in Emitted \cup FirstRows
    <3>1. d \in 1..count /\ d < e
      BY <1>1, <2>1
    <3> QED BY <1>5, <3>1, RowsAreFirst
  <2> QED BY <2>2
<1>7. 1..reach'[c] \subseteq Emitted \cup FirstRows
  <2>1. CASE FirstRows = Pending
    BY <1>3, <1>5, <2>1
  <2>2. CASE FirstRows # Pending
    BY <1>3, <2>2
  <2> QED BY <2>1, <2>2
<1>8. BatchInv'
  BY <1>3, <1>6, <1>7 DEF BatchInv, Flushing, Emitted
<1>9. LogHasNoGaps'
  BY DEF LogHasNoGaps
<1>10. FlushIsComplete'
  BY <1>3 DEF FlushIsComplete, Emitted
<1> QED BY <1>2, <1>4, <1>8, <1>9, <1>10

LEMMA EmitStep ==
  ASSUME IInv, NEW c \in Calls, Emit(c) PROVE IInv'
<1> USE DEF IInv, Emit, Goto, flushVars
<1>1. PICK e \in batch[c] : First(e, batch[c]) /\ log' = Append(log, e)
  OBVIOUS
<1>2. e \in Nat /\ batch[c] \subseteq Nat
  BY DEF TypeOK
<1>3. /\ log' \in Seq(Nat) /\ Emitted' = Emitted \cup {e}
      /\ Len(log) \in Nat /\ Len(log') = Len(log) + 1
      /\ log'[Len(log) + 1] = e
      /\ \A n \in 1..Len(log) : log'[n] = log[n]
  BY <1>1, <1>2, AppendEmits
<1>4. TypeOK'
  BY <1>3 DEF TypeOK
<1>5. /\ \A x \in Calls : x # c => pc'[x] = pc[x]
      /\ pc[c] = "batch" /\ pc'[c] = "emitted"
  BY DEF TypeOK
<1>6. \A d \in batch[c] : First(d, batch[c]) => d = e
  BY <1>1, <1>2 DEF First
<1>7. MarksInv'
  BY <1>3, <1>5, <1>6 DEF MarksInv, DeliveredAreEmitted
<1>8. BatchInv'
  BY <1>3, <1>5 DEF BatchInv, Flushing
<1>9. FlushIsComplete'
  BY <1>3, <1>5 DEF FlushIsComplete
<1>10. 1..e - 1 \subseteq Emitted
  <2>1. 1..e - 1 \subseteq Emitted \cup batch[c]
    BY <1>5 DEF BatchInv, Flushing
  <2>2. \A d \in 1..e - 1 : d \notin batch[c]
    BY <1>1, <1>2 DEF First
  <2> QED BY <2>1, <2>2
<1>11. LogHasNoGaps'
  <2> SUFFICES ASSUME NEW n \in 1..Len(log'), NEW d \in 1..log'[n] - 1
               PROVE  \E m \in 1..n - 1 : log'[m] = d
    BY DEF LogHasNoGaps
  <2>1. CASE n \in 1..Len(log)
    <3>1. PICK m \in 1..n - 1 : log[m] = d
      BY <1>3, <2>1 DEF LogHasNoGaps
    <3>2. m \in 1..Len(log)
      BY <1>3, <2>1
    <3> QED BY <1>3, <3>1, <3>2
  <2>2. CASE n = Len(log) + 1
    <3>1. d \in Emitted
      BY <1>3, <1>10, <2>2
    <3>2. PICK m \in 1..Len(log) : log[m] = d
      BY <3>1 DEF Emitted
    <3> QED BY <1>3, <2>2, <3>2
  <2> QED BY <1>3, <2>1, <2>2
<1> QED BY <1>4, <1>7, <1>8, <1>9, <1>11

LEMMA MarkStep ==
  ASSUME IInv, NEW c \in Calls, Mark(c) PROVE IInv'
<1> USE DEF IInv, Mark, Goto
<1>1. PICK e \in batch[c] :
        /\ First(e, batch[c])
        /\ marked' = [marked EXCEPT ![c] = @ \cup {e}]
        /\ batch' = [batch EXCEPT ![c] = @ \ {e}]
  OBVIOUS
<1>2. e \in Emitted
  BY <1>1 DEF MarksInv
<1>3. /\ \A x \in Calls : x # c => /\ pc'[x] = pc[x] /\ batch'[x] = batch[x]
                                   /\ marked'[x] = marked[x]
      /\ pc[c] = "emitted" /\ pc'[c] = "batch" /\ batch'[c] = batch[c] \ {e}
      /\ marked'[c] = marked[c] \cup {e}
  BY <1>1 DEF TypeOK
<1>4. TypeOK'
  BY <1>1 DEF TypeOK
<1>5. MarksInv'
  BY <1>2, <1>3 DEF MarksInv, DeliveredAreEmitted, Emitted
<1>6. BatchInv'
  BY <1>2, <1>3 DEF BatchInv, Flushing, Emitted
<1>7. LogHasNoGaps' /\ FlushIsComplete'
  BY <1>3 DEF LogHasNoGaps, FlushIsComplete, Emitted
<1> QED BY <1>4, <1>5, <1>6, <1>7

LEMMA EndStep ==
  ASSUME IInv, NEW c \in Calls, Commit(c) \/ Fail(c) \/ Crash(c) PROVE IInv'
<1> USE DEF IInv, Release, Goto
<1>1. UNCHANGED <<count, log, round, reach>> /\ Release(c)
  BY DEF Commit, Fail, Crash
<1>2. delivered' = delivered \cup marked[c] \/ delivered' = delivered
  BY DEF Commit, Fail, Crash, Rollback
<1>3. PICK q \in {"sent", "done", "failing", "over"} :
        pc' = [pc EXCEPT ![c] = q] /\ (q \in {"sent", "done"} => pc[c] = "batch" /\ batch[c] = {})
  BY DEF Commit, Fail, Crash
<1>4. TypeOK'
  BY <1>1, <1>2, <1>3 DEF TypeOK
<1>5. /\ \A x \in Calls : x # c => /\ pc'[x] = pc[x] /\ batch'[x] = batch[x]
                                   /\ marked'[x] = marked[x]
      /\ pc'[c] = q /\ batch'[c] = {} /\ marked'[c] = {}
  BY <1>1, <1>3 DEF TypeOK
<1>6. MarksInv'
  BY <1>1, <1>2, <1>5 DEF MarksInv, DeliveredAreEmitted, Emitted
<1>7. BatchInv'
  BY <1>1, <1>5 DEF BatchInv, Flushing, Emitted
<1>8. q \in {"sent", "done"} => 1..reach[c] \subseteq Emitted
  BY <1>3 DEF BatchInv, Flushing
<1>9. LogHasNoGaps' /\ FlushIsComplete'
  BY <1>1, <1>5, <1>8 DEF LogHasNoGaps, FlushIsComplete, Emitted
<1> QED BY <1>4, <1>6, <1>7, <1>9

LEMMA NextIInv == IInv /\ [Next]_vars => IInv'
<1> SUFFICES ASSUME IInv, [Next]_vars PROVE IInv'
  OBVIOUS
<1>0. count + 1 \in Nat /\ round \in [Calls -> 1..2]
  BY DEF IInv, TypeOK
<1>1. ASSUME NEW c \in Calls, Reserve(c) PROVE IInv'
  BY <1>0, <1>1, AppendStep DEF Reserve, Insert, flushVars
<1>2. ASSUME NEW c \in Calls, Record(c) PROVE IInv'
  BY <1>0, <1>2, AppendStep DEF Record, Insert
<1>3. ASSUME NEW c \in Calls, RecordOutcome(c) PROVE IInv'
  BY <1>0, <1>3, AppendStep DEF RecordOutcome, Insert, flushVars
<1>4. ASSUME NEW p \in Commands, Command(p) PROVE IInv'
  BY <1>0, <1>4, AppendStep DEF Command, Insert, flushVars
<1>5. CASE UNCHANGED vars
  <2> USE <1>5 DEF vars, flushVars, IInv
  <2>1. TypeOK'
    BY DEF TypeOK
  <2>2. MarksInv' /\ BatchInv'
    BY DEF MarksInv, DeliveredAreEmitted, BatchInv, Flushing, Emitted
  <2>3. LogHasNoGaps'
    BY DEF LogHasNoGaps
  <2>4. FlushIsComplete'
    BY DEF FlushIsComplete, Emitted
  <2> QED BY <2>1, <2>2, <2>3, <2>4
<1> QED BY <1>1, <1>2, <1>3, <1>4, <1>5, SelectStep, EmitStep, MarkStep, EndStep DEF Next, Step

-----------------------------------------------------------------------------
(* Every variable keeps its type (the whole module).                       *)
THEOREM TypeCorrect == Spec => []TypeOK
BY InitIInv, NextIInv, PTL DEF Spec, IInv

(* No flush, however it fails, marks an event that is not in the audit     *)
(* log (EvidenceStore.flush).                                              *)
THEOREM NoEventIsSkipped == Spec => []DeliveredAreEmitted
BY InitIInv, NextIInv, PTL DEF Spec, IInv, MarksInv

(* The first appearances in the log are in the order of the table          *)
(* (EvidenceStore.flush: ORDER BY seq).                                    *)
THEOREM LogKeepsOrder == Spec => []LogHasNoGaps
BY InitIInv, NextIInv, PTL DEF Spec, IInv

(* After its flush a call's events, and all earlier ones, are in the log   *)
(* unless the batch was full (MCPPipeline._send_with_evidence).            *)
THEOREM FlushCoversTheCall == Spec => []FlushIsComplete
BY InitIInv, NextIInv, PTL DEF Spec, IInv
=============================================================================
