-------------------------- MODULE MCEvidenceRecord --------------------------
(***************************************************************************)
(* Small instances of EvidenceRecord and ExternalChecks for TLC.  The      *)
(* destination may sign two pending receipts of growing sequence, a        *)
(* terminal one that follows them and a terminal one that contradicts it.  *)
(***************************************************************************)
EXTENDS ExternalChecks, TLC

SomeReceipts ==
  {[effect |-> "pending", sequence |-> 1], [effect |-> "pending", sequence |-> 2],
   [effect |-> "committed", sequence |-> 3], [effect |-> "rejected", sequence |-> 4]}

Symmetric == Permutations(Recorders) \cup Permutations(Readers)
=============================================================================
