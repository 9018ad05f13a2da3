-------------------------- MODULE MCPolicyPipeline --------------------------
(***************************************************************************)
(* Configurations of PolicyPipeline for TLC: every pair of some forty      *)
(* policies that differ in what they do, cover and ask.                    *)
(***************************************************************************)
EXTENDS PolicyAnalysis, ClientImport, Validation

CONSTANT Special  \* one of the capabilities

PolicySet(effects, covers, methods, when, checked, output) ==
  [effect : effects, covers : covers, methods : methods, when : when, checked : checked,
   output : output]

SomePolicies ==
  UNION {
    PolicySet(Denials, {{Special}, Everything}, {Methods, {"list"}}, {"always"}, {FALSE}, {"none"}),
    PolicySet({"deny"}, {{Special}}, {{"call"}}, Conditions, {FALSE}, {"none"}),
    PolicySet({"require_approval"}, {{Special}, Everything}, {Methods}, {"always", "set"},
          BOOLEAN, {"none"}),
    PolicySet({"redact"}, {{Special}}, {{"call"}}, {"always", "leaks", "clean"}, {FALSE},
          {"none", "rewrites", "refuses"}),
    PolicySet({"limit", "transform"}, {Everything}, {Methods}, {"always"}, {FALSE}, {"rewrites"}),
    PolicySet({"allow"}, {{Special}, Everything}, {{"call"}, Methods}, {"always"}, BOOLEAN, {"none"}),
    PolicySet({"log"}, {{Special}, Everything}, {Methods}, {"always"}, {FALSE}, {"none"}),
    PolicySet({"deny", "allow"}, {{Special}}, {{"call"}, Methods}, {"identity"}, {FALSE}, {"none"})}

Lists(n) == UNION {[1..k -> SomePolicies] : k \in 0..n}

\* The special capability is a critical read, the others have no metadata.
Critical ==
  [kind |-> "tool", risk |-> "critical", access |-> "read", destructive |-> FALSE, confidential |-> FALSE]

SomeMappings == [c \in Capabilities |-> IF c = Special THEN Critical ELSE Unmapped]

With(lists, adapters, defaults, dryRuns, stricts) ==
  [policies : lists, default : defaults, dryRun : dryRuns, strict : stricts, adapter : adapters,
   mappings : {SomeMappings}]

SomeConfigurations ==
  UNION {
    With(Lists(2), {"builtin"}, {"deny"}, {FALSE}, {FALSE}),
    With(Lists(1), {"builtin"}, {"allow", "deny"}, BOOLEAN, BOOLEAN),
    With(Lists(1), {"opa"}, {"deny"}, BOOLEAN, {TRUE})}

Redacting == {p \in SomePolicies : p.effect = "redact" => p.output = "rewrites"}

RedactingConfigurations ==
  With(UNION {[1..k -> Redacting] : k \in 0..2}, {"builtin"}, {"deny"}, {FALSE}, {TRUE})

-----------------------------------------------------------------------------
(* Listings: one entry of every sort, or one with a SQL tool before or     *)
(* after it that may share its slug.                                       *)

Entries(c) ==
  {e \in Entry : e.capability = c /\ e.kind # "tool" => e.hint = "none"}

SqlTool(c) ==
  [capability : {c}, kind : {"tool"}, words : {{"sql"}, {"sql", "confidential"}},
   described : {FALSE}, hint : {"none", "readOnly"}, slug : Slugs]

SomeListings ==
  LET other == CHOOSE c \in Capabilities : c # Special
      sorts == {e \in Entries(Special) : e.slug = CHOOSE s \in Slugs : TRUE}
      tools == {e \in sorts : e.kind = "tool" /\ ~e.described}
  IN {<<e>> : e \in sorts} \cup
     {<<e, t>> : e \in tools, t \in SqlTool(other)} \cup {<<t, e>> : e \in tools, t \in SqlTool(other)}
-----------------------------------------------------------------------------
(* Arguments: a field with fields of its own, two levels deep, and one     *)
(* without, every combination of them; input sections that allow any of    *)
(* the fields, or ask one thing of one field.  Queries of a few characters *)
(* of any sort, or of a few pieces about quotes or about comments.         *)

SomeFields == {<<"a">>, <<"a", "a">>, <<"a", "b">>, <<"a", "b", "a">>, <<"b">>}

SomeArguments ==
  {x \in UNION {[at : [s -> Kinds], over : {{}} \cup {{f} : f \in s}] : s \in SUBSET SomeFields} :
     \A f \in DOMAIN x.at : Len(f) > 1 =>
       LET above == SubSeq(f, 1, Len(f) - 1)
       IN above \in DOMAIN x.at /\ x.at[above] = "object"}

SomeInputs ==
  {[None EXCEPT !.allowed = s] : s \in SUBSET SomeFields} \cup
  {[None EXCEPT ![section] = {f}] : section \in DOMAIN None, f \in SomeFields} \cup
  {[None EXCEPT !.allowed = {<<"a">>}, ![section] = {f}] :
     section \in DOMAIN None \ {"allowed"}, f \in SomeFields}

Between(begin, pieces, n, end) ==
  {begin \o FlattenSeq(q) \o end : q \in UNION {[1..k -> pieces] : k \in 0..n}}

Reads(pieces, n) == Between(<<"read">>, pieces, n, <<>>)

Characters == {<<t>> : t \in Token}

SomeQueries ==
  UNION {
    Between(<<>>, Characters, 3, <<>>),
    Reads(Characters, 3),
    Reads({<<"single">>, <<"backslash">>, <<"write">>}, 6),
    Reads({<<"double">>, <<"backslash">>, <<"separator">>, <<"write">>}, 5),
    Reads({<<"slash", "star">>, <<"star", "slash">>, <<"bang">>, <<"write">>}, 5),
    Between(<<"read", "slash", "star", "blank">>,
            {<<"slash", "star">>, <<"star", "slash">>, <<"slash">>, <<"single">>}, 5,
            <<"write", "single">>),
    Reads({<<"dash", "dash">>, <<"dash">>, <<"newline">>, <<"return">>, <<"double">>,
           <<"write">>}, 4)}

-----------------------------------------------------------------------------
(* Client configurations: any one entry, or up to four that differ in name *)
(* and transport, with names that are each other's numbered variants.      *)

SomeEntries ==
  [base : {<<0>>}, targets : SUBSET Targets, type : {"none", "stdio", "http", "other"},
   env : {"none", "empty", "set", "blank"}, headers : BOOLEAN, process : BOOLEAN,
   interpolated : BOOLEAN, wraps : BOOLEAN, wellFormed : BOOLEAN]

NamedEntries ==
  {[base |-> b, targets |-> {t}, type |-> "none", env |-> "none", headers |-> FALSE,
    process |-> FALSE, interpolated |-> FALSE, wraps |-> FALSE, wellFormed |-> TRUE] :
     b \in {<<0>>, <<0, 2>>, <<0, 3>>, <<0, 2, 2>>},
     t \in {"command", "url"}}

SomeClients == {<<e>> : e \in SomeEntries} \cup UNION {[1..n -> NamedEntries] : n \in 0..4}
=============================================================================
