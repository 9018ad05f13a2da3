--------------------------- MODULE EvidenceRecord ---------------------------
(***************************************************************************)
(* The evidence of one reserved operation in the gateway's database: its   *)
(* receipt, the conflict marker and the chain of external observations     *)
(* (EvidenceStore.record, get, checked_bundle and append_observation).     *)
(* Handler threads and `evidence reconcile` bring receipts in any order;   *)
(* `evidence check` and `evidence export` read first and act later.  The   *)
(* writes are transactions; the reads of checked_bundle are separate       *)
(* statements, each on a connection of its own or outside a transaction.   *)
(*                                                                         *)
(* A digest stands for what it commits to: the evidence digest of an       *)
(* observation is the receipt it was made for, the digest of an            *)
(* observation its name.                                                   *)
(***************************************************************************)
EXTENDS Naturals, Sequences

CONSTANTS
  Recorders,   \* handler threads and reconcile commands, one receipt each
  Readers,     \* check and export commands; a check names its observation
  Receipts,    \* receipts the destination may sign for this operation
  Limit,       \* reports a history may hold (256 in the code)
  NoReceipt, NoReader

Effects == {"pending", "committed", "rejected", "failed", "partially_committed"}

ASSUME ReceiptAssumption ==
  /\ \A r \in Receipts : r.effect \in Effects /\ r.sequence \in Nat \ {0}
  /\ NoReceipt \notin Receipts
ASSUME LimitAssumption == Limit \in Nat
ASSUME ReaderAssumption == NoReader \notin Readers

VARIABLES
  receipt,   \* the receipt in the operation's row
  conflict,  \* whether a receipt_conflict event is on record
  history,   \* the observations, in the order of their rows
  rpc,       \* rpc[w]: where recorder w is
  brought,   \* brought[w]: the verified receipt recorder w holds
  kpc,       \* kpc[k]: where reader k is
  view,      \* view[k]: what reader k has read of the operation
  files      \* exported version 2 bundles

recorderVars == <<rpc, brought>>
readerVars == <<kpc, view, files>>
vars == <<receipt, conflict, history, recorderVars, readerVars>>

Observation == [id : Readers, evidence : Receipts, previous : Readers \cup {NoReader}]
View == [receipt : Receipts \cup {NoReceipt}, history : Seq(Observation)]

TypeOK ==
  /\ receipt \in Receipts \cup {NoReceipt}
  /\ conflict \in BOOLEAN
  /\ history \in Seq(Observation)
  /\ rpc \in [Recorders -> {"idle", "asked", "answered", "over"}]
  /\ brought \in [Recorders -> Receipts \cup {NoReceipt}]
  /\ kpc \in [Readers -> {"idle", "bundle", "clear", "read", "over"}]
  /\ view \in [Readers -> View]
  /\ files \subseteq View

Init ==
  /\ receipt = NoReceipt
  /\ conflict = FALSE
  /\ history = <<>>
  /\ rpc = [w \in Recorders |-> "idle"]
  /\ brought = [w \in Recorders |-> NoReceipt]
  /\ kpc = [k \in Readers |-> "idle"]
  /\ view = [k \in Readers |-> [receipt |-> NoReceipt, history |-> <<>>]]
  /\ files = {}

-----------------------------------------------------------------------------
(* Verification of a version 2 bundle (verify_checked): there are not too  *)
(* many observations, and each is about the evidence in the bundle, a      *)
(* committed receipt, and names its predecessor.                           *)


HeadOf(h) == IF h = <<>> THEN NoReader ELSE h[Len(h)].id

Committed(r) == r # NoReceipt /\ r.effect = "committed"

Linked(h, n) == h[n].previous = IF n = 1 THEN NoReader ELSE h[n - 1].id

Verifies(v) ==
  /\ Len(v.history) <= Limit
  /\ \A n \in 1..Len(v.history) :
       /\ Committed(v.receipt)
       /\ v.history[n].evidence = v.receipt
       /\ Linked(v.history, n)

-----------------------------------------------------------------------------
(* Recorders.                                                              *)

\* get: a conflict blocks; the request then goes to the destination.
Ask(w) ==
  /\ rpc[w] = "idle"
  /\ rpc' = [rpc EXCEPT ![w] = IF conflict THEN "over" ELSE "asked"]
  /\ UNCHANGED <<receipt, conflict, history, brought, readerVars>>

\* The destination's answer verifies, or there is nothing to record.
Verify(w) ==
  /\ rpc[w] = "asked"
  /\ \/ /\ \E r \in Receipts : brought' = [brought EXCEPT ![w] = r]
        /\ rpc' = [rpc EXCEPT ![w] = "answered"]
     \/ /\ rpc' = [rpc EXCEPT ![w] = "over"]
        /\ brought' = brought
  /\ UNCHANGED <<receipt, conflict, history, readerVars>>

\* Variants named ...Bug are plausible mistakes; no specification uses them.
AdvancesBug(old, new) == new.sequence > old.sequence

Advances(old, new) == old.effect = "pending" /\ new.sequence > old.sequence

Acceptable(new) == receipt \in {NoReceipt, new} \/ Advances(receipt, new)

\* The transaction of EvidenceStore.record.
Record(w) ==
  /\ rpc[w] = "answered"
  /\ IF Acceptable(brought[w])
     THEN receipt' = brought[w] /\ UNCHANGED conflict
     ELSE conflict' = TRUE /\ UNCHANGED receipt
  /\ rpc' = [rpc EXCEPT ![w] = "over"]
  /\ UNCHANGED <<history, brought, readerVars>>

-----------------------------------------------------------------------------
(* Readers: check and export start with checked_bundle.                    *)

ReadBundle(k) ==
  /\ kpc[k] = "idle"
  /\ view' = [view EXCEPT ![k].receipt = receipt]
  /\ kpc' = [kpc EXCEPT ![k] = "bundle"]
  /\ UNCHANGED <<receipt, conflict, history, recorderVars, files>>

ReadConflict(k) ==
  /\ kpc[k] = "bundle"
  /\ kpc' = [kpc EXCEPT ![k] = IF conflict THEN "over" ELSE "clear"]
  /\ UNCHANGED <<receipt, conflict, history, recorderVars, view, files>>

ReadHistory(k) ==
  /\ kpc[k] = "clear"
  /\ view' = [view EXCEPT ![k].history = history]
  /\ kpc' = [kpc EXCEPT ![k] = "read"]
  /\ UNCHANGED <<receipt, conflict, history, recorderVars, files>>

Export(k) ==
  /\ kpc[k] = "read"
  /\ files' = files \cup {view[k]}
  /\ kpc' = [kpc EXCEPT ![k] = "over"]
  /\ UNCHANGED <<receipt, conflict, history, recorderVars, view>>

\* What the check command has settled before it signs an observation.
Checkable(v) == Len(v.history) < Limit /\ Verifies(v) /\ Committed(v.receipt)

CurrentForkBug(v) == v.receipt = receipt /\ ~conflict /\ Len(history) < Limit

\* The conditions of append_observation, inside its transaction.
Current(v) ==
  /\ v.receipt = receipt
  /\ ~conflict
  /\ Len(history) < Limit
  /\ HeadOf(history) = HeadOf(v.history)

AppendObservation(k) ==
  /\ kpc[k] = "read"
  /\ Checkable(view[k])
  /\ Current(view[k])
  /\ history' = Append(history, [id |-> k, evidence |-> view[k].receipt,
                                 previous |-> HeadOf(view[k].history)])
  /\ kpc' = [kpc EXCEPT ![k] = "over"]
  /\ UNCHANGED <<receipt, conflict, recorderVars, view, files>>

\* CHECK_UNAVAILABLE, before the provider is asked or when the append fails.
CheckUnavailable(k) ==
  /\ kpc[k] = "read"
  /\ ~(Checkable(view[k]) /\ Current(view[k]))
  /\ kpc' = [kpc EXCEPT ![k] = "over"]
  /\ UNCHANGED <<receipt, conflict, history, recorderVars, view, files>>

-----------------------------------------------------------------------------
Next ==
  \/ \E w \in Recorders : Ask(w) \/ Verify(w) \/ Record(w)
  \/ \E k \in Readers :
       \/ ReadBundle(k) \/ ReadConflict(k) \/ ReadHistory(k)
       \/ Export(k) \/ AppendObservation(k) \/ CheckUnavailable(k)

Spec == Init /\ [][Next]_vars

-----------------------------------------------------------------------------
(* Properties.                                                             *)

(* The stored history always verifies against the stored receipt and never *)
(* outgrows what a bundle may carry, however late receipts and concurrent  *)
(* checks interleave ("concurrent receipt/check changes cannot fork        *)
(* history").                                                              *)
HistoryVerifies == Verifies([receipt |-> receipt, history |-> history])

(* "Only pending receipts may advance; terminal outcomes are immutable":   *)
(* a receipt is replaced only by a later one and only while it is pending, *)
(* and a conflict stays on record.                                         *)
ReceiptsOnlyAdvance ==
  [][/\ receipt' = receipt \/ receipt = NoReceipt
        \/ /\ receipt' # NoReceipt
           /\ receipt.effect = "pending" /\ receipt.sequence < receipt'.sequence
     /\ conflict => conflict']_vars

(* The history only grows, by one report at a time, up to the limit, and   *)
(* not at all once receipts are in conflict.                               *)
HistoryOnlyGrows ==
  [][history' # history =>
       /\ ~conflict
       /\ \E o \in Observation : history' = Append(history, o)
       /\ Len(history') <= Limit]_vars
=============================================================================
