------------------------- MODULE MCEvidencePipeline -------------------------
(***************************************************************************)
(* Small instances of EvidencePipeline for TLC.  Calls, keys, arguments    *)
(* and approvals are interchangeable.                                      *)
(***************************************************************************)
EXTENDS EvidencePipeline, TLC

Symmetric ==
  Permutations(Calls) \cup Permutations(Keys) \cup Permutations(Prints)
    \cup Permutations(Approvals)
=============================================================================
