------------------------ MODULE EvidenceRecordProofs ------------------------
(***************************************************************************)
(* Proofs about EvidenceRecord for any number of recorders and readers,    *)
(* any receipts and any limit.  The argument: an observation is appended   *)
(* only under the receipt that is in the row at that moment, which is a    *)
(* committed one, and a committed receipt is never replaced.               *)
(***************************************************************************)
EXTENDS ExternalChecks, TLAPS

(* What a recorder holds once it has been answered.                        *)
BroughtInv == \A w \in Recorders : rpc[w] = "answered" => brought[w] \in Receipts

IInv == TypeOK /\ BroughtInv /\ HistoryVerifies

USE ReceiptAssumption, LimitAssumption, ReaderAssumption

-----------------------------------------------------------------------------
(* Facts about the row and the chain.                                      *)

LEMMA CommittedIsFinal ==
  ASSUME NEW new, Committed(receipt), Acceptable(new), receipt \in Receipts \cup {NoReceipt}
  PROVE  new = receipt
BY DEF Committed, Acceptable, Advances

LEMMA HeadType ==
  ASSUME NEW h \in Seq(Observation)
  PROVE  HeadOf(h) \in Readers \cup {NoReader}
<1>1. h # <<>> => Len(h) \in 1..Len(h)
  OBVIOUS
<1>2. h # <<>> => h[Len(h)] \in Observation
  BY <1>1
<1> QED BY <1>2 DEF HeadOf, Observation

(* Appending an observation that is about the receipt in the row, which is *)
(* committed, and that names the head, keeps a history verifiable.         *)
LEMMA AppendVerifies ==
  ASSUME NEW h \in Seq(Observation), NEW r, Committed(r), NEW o \in Observation,
         o.evidence = r, o.previous = HeadOf(h), Verifies([receipt |-> r, history |-> h]),
         Len(h) < Limit
  PROVE  Verifies([receipt |-> r, history |-> Append(h, o)])
<1> DEFINE g == Append(h, o)
<1>1. /\ g \in Seq(Observation) /\ Len(g) = Len(h) + 1 /\ g[Len(g)] = o
      /\ \A n \in 1..Len(h) : g[n] = h[n]
  OBVIOUS
<1>2. SUFFICES ASSUME NEW n \in 1..Len(g)
               PROVE  Committed(r) /\ g[n].evidence = r /\ Linked(g, n)
  BY DEF Verifies
<1>3. CASE n \in 1..Len(h)
  <2>1. h[n].evidence = r /\ Linked(h, n)
    BY <1>3 DEF Verifies
  <2>2. n # 1 => n - 1 \in 1..Len(h)
    BY <1>3
  <2> QED BY <1>1, <1>3, <2>1, <2>2 DEF Linked
<1>4. CASE n = Len(h) + 1
  <2>1. h = <<>> <=> n = 1
    BY <1>4
  <2>2. n # 1 => n - 1 = Len(h) /\ n - 1 \in 1..Len(h)
    BY <1>4, <1>1
  <2> HIDE DEF g
  <2>3. g[n] = o
    BY <1>1, <1>4
  <2> QED BY <1>1, <2>1, <2>2, <2>3 DEF Linked, HeadOf
<1> QED BY <1>1, <1>3, <1>4

-----------------------------------------------------------------------------
LEMMA InitIInv == Init => IInv
<1> SUFFICES ASSUME Init PROVE IInv
  OBVIOUS
<1>1. history \in Seq(Observation) /\ Len(history) = 0
  BY DEF Init
<1>2. [receipt |-> NoReceipt, history |-> <<>>] \in View
  BY DEF View
<1>3. TypeOK
  BY <1>1, <1>2 DEF Init, TypeOK
<1>4. HistoryVerifies
  BY <1>1 DEF HistoryVerifies, Verifies
<1> QED BY <1>3, <1>4 DEF IInv, BroughtInv, Init

LEMMA RecordStep ==
  ASSUME IInv, NEW w \in Recorders, Record(w)
  PROVE  IInv'
<1> USE DEF IInv, Record, readerVars
<1>1. brought[w] \in Receipts
  BY DEF BroughtInv
<1>2. TypeOK'
  BY <1>1 DEF TypeOK
<1>3. BroughtInv'
  BY DEF BroughtInv, TypeOK
<1>4. Committed(receipt) => receipt' = receipt
  BY <1>1, CommittedIsFinal DEF TypeOK
<1>5. HistoryVerifies'
  BY <1>4 DEF HistoryVerifies, Verifies, Linked
<1> QED BY <1>2, <1>3, <1>5

LEMMA AppendStep ==
  ASSUME IInv, NEW k \in Readers, AppendObservation(k)
  PROVE  IInv'
<1> USE DEF IInv, AppendObservation, recorderVars
<1> DEFINE o == [id |-> k, evidence |-> view[k].receipt, previous |-> HeadOf(view[k].history)]
<1>1. view[k].receipt = receipt /\ Committed(receipt) /\ receipt \in Receipts
  BY DEF Checkable, Current, Committed, TypeOK
<1>2. HeadOf(view[k].history) = HeadOf(history) /\ HeadOf(history) \in Readers \cup {NoReader}
  BY HeadType DEF Current, TypeOK
<1>3. o \in Observation /\ o.evidence = receipt /\ o.previous = HeadOf(history)
  BY <1>1, <1>2 DEF Observation
<1>4. history' = Append(history, o) /\ receipt' = receipt
  OBVIOUS
<1> HIDE DEF o
<1>5. TypeOK'
  BY <1>3, <1>4 DEF TypeOK
<1>6. BroughtInv'
  BY DEF BroughtInv
<1>7. HistoryVerifies'
  BY <1>1, <1>3, <1>4, AppendVerifies DEF HistoryVerifies, TypeOK, Current
<1> QED BY <1>5, <1>6, <1>7

LEMMA OtherStep ==
  ASSUME IInv, UNCHANGED <<receipt, history>>, TypeOK', BroughtInv'
  PROVE  IInv'
BY DEF IInv, HistoryVerifies

LEMMA NextStep == IInv /\ [Next]_vars => IInv'
<1> SUFFICES ASSUME IInv, [Next]_vars PROVE IInv'
  OBVIOUS
<1> USE DEF IInv
<1>1. CASE \E w \in Recorders : Ask(w)
  BY <1>1, OtherStep DEF Ask, readerVars, TypeOK, BroughtInv
<1>2. CASE \E w \in Recorders : Verify(w)
  BY <1>2, OtherStep DEF Verify, readerVars, TypeOK, BroughtInv
<1>3. CASE \E w \in Recorders : Record(w)
  BY <1>3, RecordStep
<1>4. CASE \E k \in Readers : ReadBundle(k)
  <2> PICK k \in Readers : ReadBundle(k)
    BY <1>4
  <2>1. [view[k] EXCEPT !.receipt = receipt] \in View
    BY DEF TypeOK, View
  <2>2. view' \in [Readers -> View]
    BY <2>1 DEF ReadBundle, TypeOK
  <2> QED BY <2>2, OtherStep DEF ReadBundle, recorderVars, TypeOK, BroughtInv
<1>5. CASE \E k \in Readers : ReadConflict(k)
  BY <1>5, OtherStep DEF ReadConflict, recorderVars, TypeOK, BroughtInv
<1>6. CASE \E k \in Readers : ReadHistory(k)
  <2> PICK k \in Readers : ReadHistory(k)
    BY <1>6
  <2>1. [view[k] EXCEPT !.history = history] \in View
    BY DEF TypeOK, View
  <2>2. view' \in [Readers -> View]
    BY <2>1 DEF ReadHistory, TypeOK
  <2> QED BY <2>2, OtherStep DEF ReadHistory, recorderVars, TypeOK, BroughtInv
<1>7. CASE \E k \in Readers : Export(k) \/ CheckUnavailable(k)
  BY <1>7, OtherStep DEF Export, CheckUnavailable, recorderVars, TypeOK, BroughtInv
<1>8. CASE \E k \in Readers : AppendObservation(k)
  BY <1>8, AppendStep
<1>9. CASE UNCHANGED vars
  BY <1>9, OtherStep DEF vars, recorderVars, readerVars, TypeOK, BroughtInv
<1> QED BY <1>1, <1>2, <1>3, <1>4, <1>5, <1>6, <1>7, <1>8, <1>9 DEF Next

LEMMA Inductive == Spec => []IInv
BY InitIInv, NextStep, PTL DEF Spec

(* Every variable keeps its type.                                          *)
THEOREM TypeCorrect == Spec => []TypeOK
<1>1. IInv => TypeOK
  BY DEF IInv
<1> QED BY <1>1, Inductive, PTL

(* The stored history verifies in every state, for any interleaving of     *)
(* receipts and checks (append_observation of evidence/store.py).          *)
THEOREM StoredHistoryVerifies == Spec => []HistoryVerifies
<1>1. IInv => HistoryVerifies
  BY DEF IInv
<1> QED BY <1>1, Inductive, PTL

(* record: "Only pending receipts may advance; terminal outcomes are       *)
(* immutable."                                                             *)
THEOREM TerminalReceiptsAreImmutable == Spec => ReceiptsOnlyAdvance
<1>1. IInv /\ [Next]_vars =>
        [/\ receipt' = receipt \/ receipt = NoReceipt
            \/ /\ receipt' # NoReceipt
               /\ receipt.effect = "pending" /\ receipt.sequence < receipt'.sequence
         /\ conflict => conflict']_vars
  <2> SUFFICES ASSUME IInv, Next
               PROVE  /\ receipt' = receipt \/ receipt = NoReceipt
                         \/ /\ receipt' # NoReceipt
                            /\ receipt.effect = "pending" /\ receipt.sequence < receipt'.sequence
                      /\ conflict => conflict'
    OBVIOUS
  <2>1. CASE \E w \in Recorders : Record(w)
    <3> PICK w \in Recorders : Record(w)
      BY <2>1
    <3>1. brought[w] \in Receipts /\ receipt \in Receipts \cup {NoReceipt}
      BY DEF IInv, BroughtInv, TypeOK, Record
    <3> QED BY <3>1 DEF Record, Acceptable, Advances
  <2>2. CASE \E w \in Recorders : Ask(w) \/ Verify(w)
    BY <2>2 DEF Ask, Verify
  <2>3. CASE \E k \in Readers : \/ ReadBundle(k) \/ ReadConflict(k) \/ ReadHistory(k)
                              \/ Export(k) \/ AppendObservation(k) \/ CheckUnavailable(k)
    BY <2>3 DEF ReadBundle, ReadConflict, ReadHistory, Export, AppendObservation, CheckUnavailable
  <2> QED BY <2>1, <2>2, <2>3 DEF Next
<1> QED BY <1>1, Inductive, PTL DEF Spec, ReceiptsOnlyAdvance

(* The chain is append-only, bounded, and frozen by a conflict.            *)
THEOREM HistoryIsAppendOnly == Spec => HistoryOnlyGrows
<1>1. IInv /\ [Next]_vars =>
        [history' # history =>
           /\ ~conflict
           /\ \E o \in Observation : history' = Append(history, o)
           /\ Len(history') <= Limit]_vars
  <2> SUFFICES ASSUME IInv, Next, history' # history
               PROVE  /\ ~conflict
                      /\ \E o \in Observation : history' = Append(history, o)
                      /\ Len(history') <= Limit
    OBVIOUS
  <2>1. PICK k \in Readers : AppendObservation(k)
    BY DEF Next, Ask, Verify, Record, ReadBundle, ReadConflict, ReadHistory, Export,
       CheckUnavailable, readerVars
  <2> DEFINE o == [id |-> k, evidence |-> view[k].receipt,
                   previous |-> HeadOf(view[k].history)]
  <2>2. HeadOf(view[k].history) \in Readers \cup {NoReader}
    BY HeadType DEF IInv, TypeOK, View
  <2>3. view[k].receipt \in Receipts
    BY <2>1 DEF AppendObservation, Checkable, Current, Committed, IInv, TypeOK
  <2>4. o \in Observation /\ history' = Append(history, o)
    BY <2>1, <2>2, <2>3 DEF AppendObservation, Observation
  <2>5. ~conflict /\ Len(history) < Limit
    BY <2>1 DEF AppendObservation, Current
  <2> QED BY <2>4, <2>5 DEF IInv, TypeOK
<1> QED BY <1>1, Inductive, PTL DEF Spec, HistoryOnlyGrows

-----------------------------------------------------------------------------
(* What `evidence check` makes of a bundle and of the provider's answer.   *)

(* The provider is asked about a verified commit of the very request only, *)
(* by an active observer that is not the destination.                      *)
LEMMA AskedAboutACommit ==
  ASSUME NEW b \in Bundle, NEW s \in Setup, MayAsk(b, s)
  PROVE  /\ b.permit = "valid" /\ b.request = "matches" /\ b.receipt = "valid"
         /\ b.effect = "committed"
         /\ s.observer = "active" /\ s.authority /\ s.scope /\ s.account
<1>1. ~Rejected(b) /\ b.receipt # "none" /\ b.effect = "committed"
  BY DEF MayAsk, Claim
<1>2. b.request \in {"none", "matches", "differs"}
  BY DEF Bundle
<1> QED BY <1>1, <1>2 DEF Rejected, MayAsk

(* What the answer of the provider evaluates to, before it is signed.      *)
LEMMA Evaluation ==
  ASSUME NEW a \in Answer
  PROVE  LET o == Evaluate(a)
             ours == a.account = "ours" /\ a.refund = "ours"
         IN /\ Consistent(o)
            /\ o.result = "corroborated" <=> ours /\ a.status = "succeeded"
            /\ o.result = "contradicted" <=>
                 \/ ours /\ a.status \in {"failed", "canceled"}
                 \/ a.account = "ours" /\ a.refund = "differs"
            /\ o.result = "pending" <=> ours /\ a.status \in {"pending", "requires_action"}
            /\ o.reason = "SOURCE_UNAVAILABLE" => a.account # "ours" \/ a.refund = "refused"
<1> USE DEF Outcome, Unavailable, Consistent
<1>1. /\ a.account \in {"refused", "missing", "invalid", "other", "ours"}
      /\ a.refund \in {"refused", "missing", "invalid", "differs", "unbound", "ours"}
      /\ a.status \in {"succeeded", "failed", "canceled", "pending", "requires_action", "unsupported"}
  BY DEF Answer, Statuses
<1>2. CASE a.account \in {"refused", "missing"} \/ a.refund \in {"refused", "missing"}
  BY <1>1, <1>2 DEF Evaluate
<1>3. CASE a.account \in {"invalid", "other"} /\ a.refund \notin {"refused", "missing"}
  BY <1>1, <1>3 DEF Evaluate
<1>4. CASE a.account = "ours" /\ a.refund \in {"invalid", "differs", "unbound"}
  BY <1>1, <1>4 DEF Evaluate
<1>5. CASE a.account = "ours" /\ a.refund = "ours"
  <2>1. Evaluate(a) = EvaluateRefund(a)
    BY <1>5 DEF Evaluate
  <2>2. CASE a.status = "succeeded"
    BY <1>5, <2>1, <2>2 DEF EvaluateRefund
  <2>3. CASE a.status \in {"failed", "canceled"}
    BY <1>5, <2>1, <2>3 DEF EvaluateRefund
  <2>4. CASE a.status \in {"pending", "requires_action"}
    BY <1>5, <2>1, <2>4 DEF EvaluateRefund
  <2>5. CASE a.status = "unsupported"
    BY <1>5, <2>1, <2>5 DEF EvaluateRefund
  <2> QED BY <1>1, <2>2, <2>3, <2>4, <2>5
<1> QED BY <1>1, <1>2, <1>3, <1>4, <1>5

(* Signing loses no definite answer: each passes the validator.            *)
LEMMA AnswerDecides ==
  ASSUME NEW a \in Answer
  PROVE  LET o == Reported(a)
             definite == WasRead(a) /\ a.refund = "ours"
         IN /\ ExitCode(o) = 0 <=> definite /\ a.status = "succeeded"
            /\ o.result = "contradicted" <=>
                 \/ definite /\ a.status \in {"failed", "canceled"}
                 \/ WasRead(a) /\ a.refund = "differs"
            /\ o.result = "pending" <=> definite /\ a.status \in {"pending", "requires_action"}
            /\ o.reason = "SOURCE_UNAVAILABLE" => ~WasRead(a) \/ a.refund = "refused"
<1> DEFINE o == Evaluate(a)
<1>1. CASE a.reference /\ ~a.raises /\ ~a.large
  <2>1. Reported(a) = o
    BY <1>1, Evaluation DEF Reported
  <2>2. WasRead(a) <=> a.account = "ours"
    BY <1>1 DEF WasRead
  <2>3. ExitCode(o) = 0 <=> o.result = "corroborated"
    BY DEF ExitCode
  <2> HIDE DEF o
  <2> QED BY <2>1, <2>2, <2>3, Evaluation DEF o
<1>2. CASE ~(a.reference /\ ~a.raises /\ ~a.large)
  BY <1>2 DEF Reported, WasRead, Unavailable, Outcome, ExitCode
<1> QED BY <1>1, <1>2

LEMMA HonestChecks == ChecksAreHonest
BY AskedAboutACommit, AnswerDecides DEF ChecksAreHonest

(* The outcome of a check never claims more than was read.                 *)
THEOREM ChecksNeverOverclaim == Spec => []ChecksAreHonest
BY HonestChecks, PTL
=============================================================================
