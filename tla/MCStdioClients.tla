---------------------------- MODULE MCStdioClients ----------------------------
(***************************************************************************)
(* Ids for either client, and servers whose lists end, go round, outrun    *)
(* the page limit or name a malformed cursor.                              *)
(***************************************************************************)
EXTENDS StdioClients

CONSTANTS n1, n2, a, b

TwoFields == <<"tools", "prompts">>

SomeIds == 0..4

Old == [n \in {n1} |-> "old"]
New == [n \in {n1} |-> "new"]
Other == [n \in {n2} |-> "old"]

ToPage(items, next) == [items |-> items, next |-> next]

\* Pages for no cursor, a and b.
Pages(s, pa, pb) == [c \in Cursors \cup {Start} |-> IF c = Start THEN s ELSE IF c = a THEN pa ELSE pb]

Ending == Pages(ToPage(Old, a), ToPage(New, Start), ToPage(Other, Start))
Single == Pages(ToPage(Other, Start), ToPage(Old, a), ToPage(Old, a))
Cycling == Pages(ToPage(Old, a), ToPage(Other, a), ToPage(Other, b))
Endless == Pages(ToPage(Old, a), ToPage(Other, b), ToPage(New, a))
Broken == Pages(ToPage(Old, Malformed), ToPage(Other, a), ToPage(Other, a))

SomeServers == [{"tools", "prompts"} -> {Ending, Single, Cycling, Endless, Broken}]

\* One is what a server with Ending and Single lists.
SomeSnapshots ==
  {[f \in {"tools", "prompts"} |-> IF f = "tools" THEN New ELSE Other],
   [f \in {"tools", "prompts"} |-> Old]}
=============================================================================
