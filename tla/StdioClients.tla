----------------------------- MODULE StdioClients -----------------------------
(***************************************************************************)
(* A child process and the one client it is started for: the loop of       *)
(* `mcpzt wrap`, or discovery (`mcpzt discover`, `diff` and `onboard`).    *)
(***************************************************************************)
EXTENDS StdioWrapper, Discovery

vars == <<stdio, loop, discovery>>

TypeOK == StdioTypeOK /\ WrapperTypeOK /\ DiscoveryTypeOK

\* _upstream_for starts the process for its client.
Init ==
  /\ StdioInit /\ WrapperInit /\ DiscoveryInit
  /\ \/ /\ wrapper = "reading" /\ stage = "off"
        /\ server = CHOOSE s \in Servers : TRUE
        /\ previous = CHOOSE s \in Snapshots : TRUE
     \/ wrapper = "off" /\ stage = "initialize"

Client ==
  \/ Loop /\ UNCHANGED discovery
  \/ Discover /\ UNCHANGED loop

Next ==
  \/ Client
  \/ (Gateway \/ Child) /\ UNCHANGED <<loop, discovery>>

\* The gateway's thread runs on; the child owes nothing.  Reading a line waits for the client.
Fairness ==
  /\ WF_vars(Gateway /\ UNCHANGED <<loop, discovery>>)
  /\ WF_vars((WriteReply \/ Finish) /\ UNCHANGED discovery)
  /\ WF_vars(Discover /\ UNCHANGED loop)

Spec == Init /\ [][Next]_vars /\ Fairness
=============================================================================
