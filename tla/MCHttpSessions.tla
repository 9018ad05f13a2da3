--------------------------- MODULE MCHttpSessions ---------------------------
(***************************************************************************)
(* Small instances of HttpSessions for TLC.  Callers, keys and upstream    *)
(* ids are interchangeable, scopes are not: one of them has evidence.  A   *)
(* request that supplies a session may name any of them, drawn or not.  At *)
(* most one request is a call without a session, among requests of its own *)
(* scope: it touches nobody's session.                                     *)
(***************************************************************************)
EXTENDS HttpSessions, TLC

Symmetric ==
  Permutations(Callers) \cup Permutations(Keys) \cup Permutations(UpstreamIds)

Stateless(c) == ask[c].supplied = NoKey /\ ask[c].kind = "call"

\* A request without a session is there to meet others that have one.
FewStateless ==
  \A c \in Callers : Stateless(c) => \A d \in Callers \ {c} : ~Stateless(d) /\ ask[d].scope = ask[c].scope

MCInit == Init /\ FewStateless

MCSpec == MCInit /\ [][Next]_vars
=============================================================================
