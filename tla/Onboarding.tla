----------------------------- MODULE Onboarding -----------------------------
(***************************************************************************)
(* `mcpzt onboard`: from a discovered listing to metadata guessed from the *)
(* words of each entry, and to a first list of policies.                   *)
(*                                                                         *)
(* The text of an entry is the entry printed with the names of its fields, *)
(* so that "description" counts as the word "script" and every described   *)
(* entry has a word of execution.                                          *)
(***************************************************************************)
EXTENDS PolicyPipeline

CONSTANTS
  Listings,  \* what discovery may have found, each a sequence of entries
  Slugs      \* names reduced to lower-case letters, digits and dashes

Words == {"destructive", "critical", "write", "execute", "confidential", "sql"}

Entry == [capability : Capabilities, kind : {"tool", "resource", "prompt"}, words : SUBSET Words,
          described : BOOLEAN, hint : {"none", "destructive", "readOnly"}, slug : Slugs]

ASSUME ListingAssumption == Listings \subseteq Seq(Entry)

Text(e) == e.words \cup (IF e.described THEN {"execute"} ELSE {})

InferAccess(e) ==
  CASE e.kind # "tool" -> "read"
    [] e.kind = "tool" /\ e.hint = "destructive" ->
         IF "destructive" \in Text(e) THEN "delete" ELSE "write"
    [] e.kind = "tool" /\ e.hint = "readOnly" -> "read"
    [] e.kind = "tool" /\ e.hint = "none" ->
         IF "destructive" \in Text(e) THEN "delete"
         ELSE IF "execute" \in Text(e) THEN "execute"
         ELSE IF "critical" \in Text(e) THEN "admin"
         ELSE IF "write" \in Text(e) THEN "write"
         ELSE "read"

\* Variants named ...Bug are plausible mistakes; no specification uses them.
InferRiskBug(e) ==
  IF InferAccess(e) = "read" THEN IF "confidential" \in Text(e) THEN "medium" ELSE "low"
  ELSE IF "critical" \in Text(e) THEN "critical"
  ELSE IF "write" \in Text(e) THEN "high"
  ELSE "medium"

\* What follows the test for a write is never reached.
InferRisk(e) ==
  IF InferAccess(e) = "read" THEN IF "confidential" \in Text(e) THEN "medium" ELSE "low"
  ELSE IF {"destructive", "critical"} \cap Text(e) # {}
          \/ InferAccess(e) \in {"delete", "admin", "execute"} THEN "critical"
  ELSE "high"

Inferred(e) ==
  [kind |-> e.kind, risk |-> InferRisk(e), access |-> InferAccess(e),
   destructive |-> InferAccess(e) \in {"delete", "admin"},
   confidential |-> "confidential" \in Text(e)]

\* The last entry of a name is the one that is kept.
Mappings(l) ==
  [c \in Capabilities |->
     LET s == {i \in DOMAIN l : l[i].capability = c}
     IN IF s = {} THEN Unmapped ELSE Inferred(l[CHOOSE i \in s : \A j \in s : j <= i])]

Generated(effect, covers, methods, checked, output) ==
  [effect |-> effect, covers |-> covers, methods |-> methods, when |-> "always",
   checked |-> checked, output |-> output]

Where(m, wanted) == {c \in Capabilities : m[c] \in wanted}

\* allow-mcp-initialize, allow-mcp-ping, hide-destructive, critical- and
\* high-needs-approval, allow-low-risk-read, redact-confidential-output.
Cautious(m) ==
  LET Destructive == {d \in Metadata : d.destructive}
      Critical == {d \in Metadata : d.risk = "critical"}
      High == {d \in Metadata : d.risk = "high"}
      LowRead == {d \in Metadata : d.risk = "low" /\ d.access = "read"}
      Confidential == {d \in Metadata : d.confidential}
  IN <<Generated("allow", {Method}, {"other"}, FALSE, "none"),
       Generated("allow", {Method}, {"other"}, FALSE, "none"),
       Generated("hide", Where(m, Destructive), Methods, FALSE, "none"),
       Generated("require_approval", Where(m, Critical), Methods, FALSE, "none"),
       Generated("require_approval", Where(m, High), Methods, FALSE, "none"),
       Generated("allow", Where(m, LowRead), Methods, FALSE, "none"),
       Generated("redact", Where(m, Confidential), Methods, FALSE, "rewrites")>>

\* The policies of tools with the same slug have the same id: the first is kept.
SqlTools(l) ==
  LET Sql(i) == l[i].kind = "tool" /\ "sql" \in Text(l[i])
      First(i) == \A j \in 1..i - 1 : Sql(j) => l[j].slug # l[i].slug
  IN InOrder({i \in DOMAIN l : Sql(i) /\ First(i)})

ReadOnlySql(l) ==
  LET tools == SqlTools(l)
  IN [k \in DOMAIN tools |->
        Generated("allow", {l[tools[k]].capability}, Methods, TRUE, "none")]

Policies(l) == Cautious(Mappings(l)) \o ReadOnlySql(l)

\* Policies, mappings and a policy engine of the base configuration are dropped.
Onboarded(base, l) ==
  [base EXCEPT !.policies = Policies(l), !.mappings = Mappings(l), !.adapter = "builtin"]

-----------------------------------------------------------------------------
(* Properties, of every listing and the base configurations that start     *)
(* from nothing.                                                           *)

Discovered(l) == {l[i].capability : i \in DOMAIN l}

Consistent(l) == \A i, j \in DOMAIN l : l[i].capability = l[j].capability => i = j

(* The generated policies are as cautious as promised, whatever the        *)
(* default of the base configuration, the caller and the arguments: no     *)
(* tool is called without approval unless it is taken for a read, what is  *)
(* taken for destructive cannot be called at all and is not listed, and a  *)
(* tool that has a description and no hint is never let through.           *)
OnboardedIsGuarded ==
  (pc = "idle" /\ Enforced /\ config.policies = <<>>) =>
    \A l \in Listings : Consistent(l) =>
      LET g == Onboarded(config, l)
      IN \A i \in DOMAIN l : \A x \in Calls(l[i].capability) :
           LET e == l[i]
               d == Builtin(g, x)
           IN /\ ~d.implicit
              /\ e.kind = "tool" /\ InferAccess(e) # "read" =>
                   d.effect \in Denials \cup {"require_approval"}
              /\ e.kind = "tool" /\ e.hint # "readOnly" /\ "destructive" \in e.words =>
                   /\ d.effect \in Denials
                   /\ Builtin(g, Item(e.capability, x.known)).effect \in Denials
              /\ e.kind = "tool" /\ e.hint = "none" /\ e.described =>
                   d.effect \in Denials \cup {"require_approval"}
=============================================================================
