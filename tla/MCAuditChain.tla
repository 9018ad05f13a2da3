---------------------------- MODULE MCAuditChain ----------------------------
(***************************************************************************)
(* Small instances of AuditChain for TLC; the writers are interchangeable. *)
(***************************************************************************)
EXTENDS AuditChain, TLC

Symmetric == Permutations(Writers)
=============================================================================
