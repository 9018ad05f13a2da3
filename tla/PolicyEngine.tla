----------------------------- MODULE PolicyEngine -----------------------------
(***************************************************************************)
(* PolicyEngine: from a configured list of policies and the context of a   *)
(* message, of its answer or of a listed item to the decision on it; what  *)
(* is known of a capability (capability_mappings); an external engine in   *)
(* place of the list.                                                      *)
(*                                                                         *)
(* A policy is reduced to what it covers, when it applies and what it      *)
(* does; arguments and answers to the conditions they meet, arguments also *)
(* to whether they pass the checks; an identity to whether it is one the   *)
(* policies that name identities mean.                                     *)
(***************************************************************************)
EXTENDS Naturals, Sequences, FiniteSets

CONSTANTS
  Capabilities,  \* tools, resources and prompts of the server
  Method,        \* stands for the method of a message about no capability
  Unmapped,      \* a capability without metadata
  Conditions,        \* conditions policies make (`when`), each on arguments ...
  OutputConditions,  \* ... or on the answer
  Absent             \* those that hold of what is not there: not_equals, not_in,
                     \* exists: false, a pattern that matches the empty text

ASSUME MethodAssumption == Method \notin Capabilities
ASSUME ConditionsAssumption ==
  /\ OutputConditions \subseteq Conditions /\ Absent \subseteq Conditions
  /\ {"always", "identity"} \cap Conditions = {}

Effects == {"deny", "hide", "require_approval", "redact", "limit", "transform", "allow", "log"}
Denials == {"deny", "hide"}
Rewriting == {"redact", "limit", "transform"}
Methods == {"call", "list", "other"}

Everything == Capabilities \cup {Method}

Policy == [effect : Effects,
           covers : SUBSET Everything,  \* match: server, capability, metadata
           methods : SUBSET Methods,    \* match.method
           when : {"always", "identity"} \cup Conditions,  \* match.user, ...; when
           checked : BOOLEAN,           \* has input or validators
           output : {"none", "rewrites", "refuses"}]  \* what its output rule does

Risks == {"low", "medium", "high", "critical"}
Accesses == {"read", "write", "delete", "execute", "admin"}

\* The section of capability_mappings it is in and the fields policies match:
\* destructive is a tag, confidential a data classification.
Metadata == [kind : {"tool", "resource", "prompt"}, risk : Risks, access : Accesses,
             destructive : BOOLEAN, confidential : BOOLEAN]

ASSUME UnmappedAssumption == Unmapped \notin Metadata

Configuration == [policies : Seq(Policy), default : {"allow", "deny"}, dryRun : BOOLEAN,
                  strict : BOOLEAN, adapter : {"builtin", "opa"},
                  mappings : [Capabilities -> Metadata \cup {Unmapped}]]

Decision == [effect : Effects, by : Nat, implicit : BOOLEAN]

Context == [capability : Everything, method : Methods, known : BOOLEAN,
            holds : SUBSET Conditions, valid : BOOLEAN]

\* The members of a finite set of numbers, in order.
InOrder(s) ==
  CHOOSE k \in [1..Cardinality(s) -> s] : \A i, j \in DOMAIN k : i < j => k[i] < k[j]

\* _match_report: the match alone, without the condition on arguments or answer.
MatchesStructurally(p, x) ==
  /\ x.capability \in p.covers
  /\ x.method \in p.methods
  /\ p.when = "identity" => x.known

\* evaluate_conditions: the condition on arguments or answer.
ConditionHolds(p, x) == p.when \in Conditions => p.when \in x.holds

Matches(p, x) == MatchesStructurally(p, x) /\ ConditionHolds(p, x)

Matching(g, x) == {i \in DOMAIN g.policies : Matches(g.policies[i], x)}

\* Variants named ...Bug are plausible mistakes; no specification uses them.
RankBug(e) ==
  CASE e = "allow" -> 0 [] e = "deny" -> 1 [] e = "hide" -> 2 [] e = "require_approval" -> 3
    [] e = "redact" -> 4 [] e = "limit" -> 5 [] e = "transform" -> 6 [] e = "log" -> 7

Rank(e) ==
  CASE e = "deny" -> 0 [] e = "hide" -> 1 [] e = "require_approval" -> 2 [] e = "redact" -> 3
    [] e = "limit" -> 4 [] e = "transform" -> 5 [] e = "allow" -> 6 [] e = "log" -> 7

Precedes(g, i, j) ==
  LET r == Rank(g.policies[i].effect)
      s == Rank(g.policies[j].effect)
  IN r < s \/ (r = s /\ i <= j)

\* _select_by_precedence: the first of the policies of least rank.
Selected(g, s) == CHOOSE i \in s : \A j \in s : Precedes(g, i, j)

ChecksFail(p, x) == p.checked /\ p.effect \notin Denials /\ x.method # "list" /\ ~x.valid

Builtin(g, x) ==
  IF Matching(g, x) = {}
  THEN [effect |-> g.default, by |-> 0, implicit |-> TRUE]
  ELSE LET i == Selected(g, Matching(g, x))
           p == g.policies[i]
       IN [effect |-> IF ChecksFail(p, x) THEN "deny" ELSE p.effect, by |-> i, implicit |-> FALSE]

\* An external engine may answer anything, or fail open or closed; the policy
\* it names may be none (0) or unknown here (beyond the list).
External(g) == [effect : Effects, by : 0..Len(g.policies) + 1, implicit : {FALSE}]

Decisions(g, x) == IF g.adapter = "builtin" THEN {Builtin(g, x)} ELSE External(g)
=============================================================================
