---------------------------- MODULE ClientImport ----------------------------
(***************************************************************************)
(* `mcpzt client import`: from the MCP servers an assistant is configured  *)
(* with to a gateway configuration that has them as upstreams, and to a    *)
(* configuration of the assistant that reaches each through the gateway.   *)
(*                                                                         *)
(* A server's name is a sequence of numbers: one for its stem, after the   *)
(* characters that may not be in a logical name are replaced, then those   *)
(* at its end.                                                             *)
(***************************************************************************)
EXTENDS Onboarding, FiniteSets

CONSTANT Clients  \* client configurations looked at, each a sequence of entries

Targets == {"command", "url", "httpUrl"}

ClientEntry ==
  [base : Seq(Nat),
   targets : SUBSET Targets,
   type : {"none", "stdio", "http", "other"},
   env : {"none", "empty", "set", "blank"},  \* blank: one of its values is empty
   headers : BOOLEAN,
   process : BOOLEAN,       \* args, cwd or sandboxEnabled
   interpolated : BOOLEAN,  \* a variable of the host in what moves to the gateway
   wraps : BOOLEAN,         \* its command runs `mcpzt wrap`
   wellFormed : BOOLEAN]    \* known fields only, all of the right type

ASSUME ClientAssumption == Clients \subseteq Seq(ClientEntry)

IsHttp(e) == "command" \notin e.targets

Valid(e) ==
  /\ e.wellFormed /\ ~e.interpolated
  /\ Cardinality(e.targets) = 1
  /\ e.type \in {"none", IF IsHttp(e) THEN "http" ELSE "stdio"}
  /\ IF IsHttp(e) THEN ~e.process /\ e.env = "none" ELSE ~e.headers

IsWrapper(e) == ~IsHttp(e) /\ e.wraps

\* Variants named ...Bug are plausible mistakes; no specification uses them.
UniqueLogicalNameBug(base, used) == IF base \in used THEN Append(base, 2) ELSE base

UniqueLogicalName(base, used) ==
  LET free == {n \in 2..Cardinality(used) + 2 : Append(base, n) \notin used}
  IN IF base \in used THEN Append(base, CHOOSE n \in free : \A k \in free : n <= k) ELSE base

LogicalNames(l) ==
  LET names[i \in DOMAIN l] == UniqueLogicalName(l[i].base, {names[j] : j \in 1..i - 1})
  IN names

\* What the gateway is told of an entry.  The variables of a process are
\* references to the environment the wrapper will run in.
Upstream(name, e, i) ==
  IF IsHttp(e)
  THEN [name |-> name, transport |-> "http", target |-> i, headers |-> e.headers, refers |-> FALSE]
  ELSE [name |-> name, transport |-> "stdio", target |-> i, headers |-> FALSE,
        refers |-> e.env \in {"set", "blank"}]

\* What the assistant is told instead: to run the wrapper, or to call the gateway.
Wrapped(name, e) ==
  [name |-> name, transport |-> IF IsHttp(e) THEN "http" ELSE "stdio", headers |-> FALSE,
   env |-> e.env]

RuntimeMode(servers) ==
  IF \A i \in DOMAIN servers : servers[i].transport = "stdio" THEN "stdio" ELSE "gateway"

DefaultImportPolicies(kindOf) ==
  LET Of(kind) == {c \in Capabilities : kindOf[c] = kind}
  IN <<Generated("allow", {Method}, {"other"}, FALSE, "none"),
       Generated("allow", {Method}, {"other"}, FALSE, "none"),
       Generated("require_approval", Of("tool"), Methods, FALSE, "none"),
       Generated("allow", Of("resource"), Methods, FALSE, "none"),
       Generated("allow", Of("prompt"), Methods, FALSE, "none")>>

Refusal == [servers |-> <<>>, clients |-> <<>>, mode |-> "none"]

Import(l) ==
  IF l = <<>> \/ \E i \in DOMAIN l : ~Valid(l[i]) \/ IsWrapper(l[i])
  THEN Refusal
  ELSE LET servers == [i \in DOMAIN l |-> Upstream(LogicalNames(l)[i], l[i], i)]
       IN [servers |-> servers,
           clients |-> [i \in DOMAIN l |-> Wrapped(LogicalNames(l)[i], l[i])],
           mode |-> RuntimeMode(servers)]

-----------------------------------------------------------------------------
(* What the result is used for.                                            *)

\* The servers of the gateway that an entry of the assistant leads to.
Reached(r, c) ==
  {s \in {r.servers[i] : i \in DOMAIN r.servers} : s.name = c.name /\ s.transport = c.transport}

\* A reference to an empty variable is an error, and the wrapper does not start.
ChildEnvironment(s, c) == IF s.refers /\ c.env = "blank" THEN "refused" ELSE c.env

-----------------------------------------------------------------------------
(* Properties.                                                             *)

(* Every configuration that is imported can be loaded and used: names are  *)
(* unique however the original ones collide, so each entry of the          *)
(* assistant reaches the server it was about and no other; credentials go  *)
(* to that server and not to the gateway; a child process gets the         *)
(* variables it had, unless one is empty; and until the operator reviews   *)
(* the policies tools need approval while nothing else is blocked.         *)
ImportedServersRun ==
  (pc = "idle" /\ Enforced /\ config.default = "deny" /\ config.policies = <<>>) =>
    /\ \A l \in Clients :
         LET r == Import(l)
         IN \A i \in DOMAIN r.clients :
              LET c == r.clients[i]
              IN /\ r.mode = "stdio" => c.transport = "stdio"
                 /\ {s.target : s \in Reached(r, c)} = {i}
                 /\ \A j \in DOMAIN r.servers : r.servers[j].name = c.name => j = i
                 /\ ~c.headers
                 /\ \A s \in Reached(r, c) :
                      /\ s.headers = l[i].headers
                      /\ ChildEnvironment(s, c) = IF l[i].env = "blank" THEN "refused" ELSE l[i].env
    /\ \A kindOf \in [Capabilities -> {"tool", "resource", "prompt"}] :
         LET g == [config EXCEPT !.policies = DefaultImportPolicies(kindOf)]
         IN \A c \in Capabilities : \A x \in Calls(c) :
              /\ Listed(Builtin(g, Item(c, x.known)))
              /\ Builtin(g, x).effect =
                   IF kindOf[c] = "tool" THEN "require_approval" ELSE "allow"
=============================================================================
