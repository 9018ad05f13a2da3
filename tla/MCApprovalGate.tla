-------------------------- MODULE MCApprovalGate --------------------------
(***************************************************************************)
(* Small instances of ApprovalGate for TLC: the callers are interchangeable*)
(* threads, and so are the reviewers' sessions and the approval ids.       *)
(***************************************************************************)
EXTENDS ApprovalGate, TLC

Symmetric ==
  Permutations(Ids) \cup Permutations(Calls) \cup Permutations(Sessions)
=============================================================================
