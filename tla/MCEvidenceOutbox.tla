-------------------------- MODULE MCEvidenceOutbox --------------------------
(***************************************************************************)
(* Small instances of EvidenceOutbox for TLC; calls are interchangeable.   *)
(***************************************************************************)
EXTENDS EvidenceOutbox, TLC

Symmetric == Permutations(Calls) \cup Permutations(Commands)
=============================================================================
