--------------------------- MODULE PolicyAnalysis ---------------------------
(***************************************************************************)
(* The reports of `mcpzt policy coverage`, `risks` and `unused`: what the  *)
(* gateway would decide on each mapped or discovered capability, without   *)
(* arguments and for nobody in particular, what is risky about it, and     *)
(* which policies match none of them.                                      *)
(***************************************************************************)
EXTENDS PolicyPipeline

\* The capabilities of a snapshot, any of them, or those that have metadata.
Analysed(g) == SUBSET Capabilities \cup {{c \in Capabilities : g.mappings[c] # Unmapped}}

\* Nobody, without arguments: the conditions hold that hold of what is missing,
\* and checks may pass or fail.
Probe(c, method, valid) ==
  [capability |-> c, method |-> method, known |-> FALSE, holds |-> Absent, valid |-> valid]

\* What the builtin engine decides on them.
Coverage(g, valid) == [c \in Capabilities |-> Builtin(g, Probe(c, "call", valid[c]))]

\* Nothing required of server, method, capability or metadata.
Global(p) == p.covers = Everything /\ p.methods = Methods

\* Variants named ...Bug are plausible mistakes; no specification uses them.
UnusedBug(g, analysed) ==
  {i \in DOMAIN g.policies :
     /\ ~Global(g.policies[i])
     /\ g.adapter = "builtin" =>
          \A c \in analysed : ~MatchesStructurally(g.policies[i], Probe(c, "call", FALSE))}

\* With an external engine no policy is seen to match.
Unused(g, analysed) ==
  {i \in DOMAIN g.policies :
     /\ ~Global(g.policies[i])
     /\ g.adapter = "builtin" =>
          \A c \in analysed, method \in {"call", "list"} :
            ~MatchesStructurally(g.policies[i], Probe(c, method, FALSE))}

Severe(m) == m # Unmapped /\ m.risk \in {"high", "critical"}

\* An allowing policy for a tool with side effects that asks nothing of them.
Unconstrained(g, m, d) ==
  /\ d.effect = "allow" /\ d.by \in DOMAIN g.policies
  /\ m # Unmapped /\ m.kind = "tool" /\ m.access # "read"
  /\ ~g.policies[d.by].checked

SevereFindingBug(g, c, d) ==
  LET m == g.mappings[c]
  IN \/ Severe(m) /\ d.effect = "allow" /\ d.implicit
     \/ Unconstrained(g, m, d)
     \/ d.by = 0 /\ d.effect = g.default /\ g.default = "allow"

\* _coverage_risks has a finding about c that is high or critical; a missing
\* mapping and a default deny are medium.
SevereFinding(g, c, d) ==
  LET m == g.mappings[c]
  IN \/ Severe(m) /\ d.effect = "allow"
     \/ Unconstrained(g, m, d)
     \/ d.by = 0 /\ d.effect = g.default /\ g.default = "allow"

\* PolicyRiskReport.failed
Failed(g, analysed, coverage) ==
  \/ g.default = "allow"
  \/ \E c \in analysed : SevereFinding(g, c, coverage[c])

\* How `policy risks` exits: json is printed and that is all.
ExitCode(format, failed) == IF format = "table" /\ failed THEN 2 ELSE 0

-----------------------------------------------------------------------------
(* Properties.                                                             *)

Without(g, s) ==
  LET keep == InOrder(DOMAIN g.policies \ s)
  IN [g EXCEPT !.policies = [k \in DOMAIN keep |-> g.policies[keep[k]]]]

Deciding(g, x) ==
  LET d == Builtin(g, x) IN <<d.effect, IF d.implicit THEN {} ELSE {g.policies[d.by]}>>

(* A policy reported as unused can be deleted: without those policies,     *)
(* every call and listing of an analysed capability is decided as before,  *)
(* by the same policy, whoever calls and with whatever arguments.  Not so  *)
(* for policies that name identities, which the report never matches.      *)
UnusedCanGo ==
  (pc = "idle" /\ config.adapter = "builtin") =>
    \A analysed \in Analysed(config) :
      LET unused == {i \in Unused(config, analysed) : config.policies[i].when # "identity"}
      IN unused # {} =>
           \A x \in [capability : analysed, method : {"call", "list"}, known : BOOLEAN,
                     holds : SUBSET (Conditions \cap Asked(config)), valid : BOOLEAN] :
             Deciding(Without(config, unused), x) = Deciding(config, x)

\* A policy that applies to the empty call of the report but not to this one,
\* because of a condition that what is missing meets, and that precedes the
\* one that decided this call.
Overshadowed(x, d) ==
  \E j \in DOMAIN config.policies :
    LET p == config.policies[j]
    IN /\ MatchesStructurally(p, x)
       /\ p.when \in Absent \ x.holds
       /\ p.effect # "allow" \/ p.checked
       /\ Precedes(config, j, d.by)

(* A pipeline that stops on `policy risks` is warned: when a call of a     *)
(* high or critical capability reaches the server because a policy without *)
(* conditions or checks allows it, or by default, the report that covers   *)
(* the capability has failed.  Only a policy that such a call escapes by   *)
(* saying what the report leaves out can have kept it quiet.               *)
RisksAreReported ==
  (/\ forwarded /\ Enforced /\ message.method = "call" /\ decision.effect = "allow"
   /\ Severe(config.mappings[message.capability])
   /\ \/ decision.by = 0
      \/ config.policies[decision.by].when = "always" /\ ~config.policies[decision.by].checked) =>
    \A analysed \in Analysed(config), valid \in [Capabilities -> BOOLEAN] :
      message.capability \in analysed =>
        \/ ExitCode("table", Failed(config, analysed, Coverage(config, valid))) = 2
        \/ Overshadowed(Inbound(message), decision)
=============================================================================
