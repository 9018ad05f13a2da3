----------------------------- MODULE Validation -----------------------------
(***************************************************************************)
(* The checks of a selected policy on the arguments of a call: its input   *)
(* section, the engine that runs its validators, and the lexer by which    *)
(* the SQL validator finds out what a query does.  PolicyEngine has their  *)
(* outcome as the field `valid` of a context.                              *)
(***************************************************************************)
EXTENDS PolicyPipeline, SequencesExt

CONSTANTS
  Fields,     \* paths of fields in arguments, each a sequence of keys
  Arguments,  \* arguments looked at
  Inputs,     \* input sections looked at
  Queries     \* SQL queries looked at, as sequences of tokens

Kinds == {"object", "list", "value"}

ASSUME FieldAssumption == \A f \in Fields : f # <<>> /\ f \in Seq(Range(f))

\* What is where in the arguments, and the fields that break whatever bound is
\* put on them: no allowed value, too many bytes, too many items if a list.
\* Arguments are finite, and what holds a field is an object.
ASSUME ArgumentAssumption ==
  \A x \in Arguments :
    /\ IsFiniteSet(DOMAIN x.at) /\ DOMAIN x.at \subseteq Fields /\ x.over \subseteq DOMAIN x.at
    /\ \A f \in DOMAIN x.at :
         /\ x.at[f] \in Kinds
         /\ \A n \in 1..Len(f) - 1 :
              SubSeq(f, 1, n) \in DOMAIN x.at /\ x.at[SubSeq(f, 1, n)] = "object"

Input == [allowed : SUBSET Fields, required : SUBSET Fields, forbidden : SUBSET Fields,
          values : SUBSET Fields, maxBytes : SUBSET Fields, maxItems : SUBSET Fields]

ASSUME InputAssumption == Inputs \subseteq Input

-----------------------------------------------------------------------------
(* The input section.                                                      *)

IsAllowedLeaf(f, allowed) == \E a \in allowed : IsPrefix(a, f)
IsAllowedAncestor(f, allowed) == \E a \in allowed : IsStrictPrefix(f, a)

\* Variants named ...Bug are plausible mistakes; no specification uses them.
DisallowedBug(x, allowed) ==
  {f \in DOMAIN x.at : /\ Len(f) = 1
                       /\ ~IsAllowedLeaf(f, allowed) /\ ~IsAllowedAncestor(f, allowed)}

\* An allowed field is fine with all below it; what leads to one has to be an
\* object and is looked into.
Disallowed(x, allowed) ==
  LET Below[f \in {<<>>} \cup DOMAIN x.at] ==
        IF f # <<>> /\ x.at[f] # "object" THEN {f}
        ELSE UNION {IF IsAllowedLeaf(k, allowed) THEN {}
                    ELSE IF IsAllowedAncestor(k, allowed) THEN Below[k]
                    ELSE {k} : k \in {k \in DOMAIN x.at : Front(k) = f}}
  IN IF allowed = {} THEN {} ELSE Below[<<>>]

InputErrors(x, p) ==
  UNION {Disallowed(x, p.allowed),
         p.required \ DOMAIN x.at,
         p.forbidden \cap DOMAIN x.at,
         (p.values \cup p.maxBytes) \cap x.over,
         {f \in p.maxItems \cap x.over : x.at[f] = "list"}}

\* A validator nobody knows and one that raises have failed.
Validator == {"passes", "fails", "raises", "unknown"}

ValidatorErrors(v) == {i \in DOMAIN v : v[i] # "passes"}

Admitted(x, p, v) == InputErrors(x, p) = {} /\ ValidatorErrors(v) = {}

-----------------------------------------------------------------------------
(* SQL, character by character where the lexer looks at it.  Of words,     *)
(* each set off by blanks, "read" begins a query and "write" is a keyword  *)
(* that changes something or a function not known to be harmless.          *)
(* "special" stands for the characters dialects read differently, "bang"   *)
(* for what makes a comment executable, "separator" for a semicolon.       *)

Quotes == {"single", "double"}
Blank == {"blank", "newline", "return"}
Unsupported == {"backslash", "special"}
Token == Quotes \cup Blank \cup Unsupported \cup
         {"read", "write", "dash", "slash", "star", "bang", "separator"}

ASSUME QueryAssumption == Queries \subseteq Seq(Token)

Rejected == <<"unsupported">>

Pair(q, i, a, b) == i < Len(q) /\ q[i] = a /\ q[i + 1] = b

BeginsLine(q, i) == Pair(q, i, "dash", "dash")
BeginsComment(q, i) == Pair(q, i, "slash", "star")
EndsComment(q, i) == Pair(q, i, "star", "slash")

QuoteEndBug(q, i) ==
  LET Ends[j \in 1..Len(q) + 2] ==
        IF j > Len(q) THEN 0
        ELSE IF q[j] # q[i] THEN Ends[j + 1]
        ELSE IF j < Len(q) /\ q[j + 1] = q[i] THEN Ends[j + 2]
        ELSE j
  IN Ends[i + 1]

\* Where the quoted value that begins at i ends, 0 if it cannot be told.
QuoteEnd(q, i) ==
  LET Ends[j \in 1..Len(q) + 2] ==
        IF j > Len(q) \/ q[j] = "backslash" THEN 0
        ELSE IF q[j] # q[i] THEN Ends[j + 1]
        ELSE IF j < Len(q) /\ q[j + 1] = q[i] THEN Ends[j + 2]
        ELSE j
  IN Ends[i + 1]

\* The lexer looks for another beginning before the first end only: the three
\* characters slash, star, slash end a comment they might begin.
CommentEnd(q, i) ==
  LET ends == {j \in i + 2..Len(q) : EndsComment(q, j)}
      end == CHOOSE j \in ends : \A k \in ends : j <= k
  IN IF ends = {} \/ q[i + 2] = "bang" \/ \E j \in i + 2..end - 2 : BeginsComment(q, j)
     THEN 0 ELSE end + 1

LineEnd(q, i) ==
  LET ends == {j \in i + 2..Len(q) : q[j] = "newline"}
  IN IF ends = {} THEN Len(q) ELSE CHOOSE j \in ends : \A k \in ends : j <= k

\* Strings and comments become blanks, quoted identifiers stay.
SqlCode(q) ==
  LET Rest[i \in 1..Len(q) + 1] ==
        LET Masked(by, end) ==
              IF end = 0 \/ Rest[end + 1] = Rejected THEN Rejected ELSE by \o Rest[end + 1]
        IN IF i > Len(q) THEN <<>>
           ELSE CASE BeginsLine(q, i) -> Masked(<<"blank">>, LineEnd(q, i))
                  [] BeginsComment(q, i) -> Masked(<<"blank">>, CommentEnd(q, i))
                  [] q[i] = "single" -> Masked(<<"blank">>, QuoteEnd(q, i))
                  [] q[i] = "double" -> Masked(SubSeq(q, i, QuoteEnd(q, i)), QuoteEnd(q, i))
                  [] q[i] \in Unsupported -> Rejected
                  [] OTHER -> Masked(<<q[i]>>, i)
  IN Rest[1]

\* The quote that is open after each position, and the statements between
\* separators that are in none.
Open(code) ==
  LET Quote[j \in 0..Len(code)] ==
        IF j = 0 THEN "none"
        ELSE IF Quote[j - 1] = "none" /\ code[j] \in Quotes THEN code[j]
        ELSE IF Quote[j - 1] = code[j] THEN "none" ELSE Quote[j - 1]
  IN Quote

InQuote(code, i) == Open(code)[i] # "none"

Statements(code) ==
  LET ends == {0, Len(code) + 1} \cup
              {i \in DOMAIN code : code[i] = "separator" /\ ~InQuote(code, i)}
  IN {b \in ends \X ends :
        /\ b[1] < b[2] /\ ~\E e \in ends : b[1] < e /\ e < b[2]
        /\ \E i \in b[1] + 1..b[2] - 1 : code[i] \notin Blank}

First(code) ==
  LET solid == {i \in DOMAIN code : code[i] \notin Blank}
  IN IF solid = {} THEN "none" ELSE code[CHOOSE i \in solid : \A j \in solid : i <= j]

ReadOnly(q) ==
  LET code == SqlCode(q)
  IN /\ First(q) # "none"
     /\ code # Rejected
     /\ Cardinality(Statements(code)) <= 1
     /\ "write" \notin {code[i] : i \in DOMAIN code}
     /\ First(code) = "read"

-----------------------------------------------------------------------------
(* How databases read a query: as standard SQL, or with any of these       *)
(* conventions: a backslash escapes a quote; comments nest; a line comment *)
(* ends at a carriage return too; two dashes begin one only before a blank.*)

Readings == SUBSET {"escapes", "nested", "return", "spaced"}

LineBegins(r, q, i) ==
  BeginsLine(q, i) /\ ("spaced" \in r /\ i + 2 <= Len(q) => q[i + 2] \in Blank)

LineEnds(r, t) == t = "newline" \/ (t = "return" /\ "return" \in r)

\* The state after the character at i, in state s before it: what begins and
\* ends a comment takes two characters, a comment has a depth, a quoted value
\* is at 1 after a backslash that escapes.
After(r, s, q, i) ==
  CASE s[1] = "code" ->
         (CASE q[i] \in Quotes -> <<q[i], 0>>
            [] LineBegins(r, q, i) -> <<"line", 0>>
            [] BeginsComment(q, i) -> <<"enter", 0>>
            [] OTHER -> s)
    [] s[1] = "line" -> IF LineEnds(r, q[i]) THEN <<"code", 0>> ELSE s
    [] s[1] = "enter" -> <<"comment", s[2] + 1>>
    [] s[1] = "comment" ->
         (CASE EndsComment(q, i) -> <<"leave", s[2] - 1>>
            [] BeginsComment(q, i) /\ "nested" \in r -> <<"enter", s[2]>>
            [] OTHER -> s)
    [] s[1] = "leave" -> IF s[2] = 0 THEN <<"code", 0>> ELSE <<"comment", s[2]>>
    [] OTHER ->
         (CASE s[2] = 1 -> <<s[1], 0>>
            [] s[2] = 0 /\ q[i] = s[1] -> <<"code", 0>>
            [] s[2] = 0 /\ q[i] = "backslash" /\ "escapes" \in r -> <<s[1], 1>>
            [] OTHER -> s)

\* The state before each character.
In(r, q) ==
  LET State[i \in 1..Len(q) + 1] ==
        IF i = 1 THEN <<"code", 0>> ELSE After(r, State[i - 1], q, i - 1)
  IN State

\* Where there is something to execute.
Executed(r, q) ==
  LET state == In(r, q)
  IN {i \in DOMAIN q : state[i][1] = "code" /\ state[i + 1][1] = "code" /\ q[i] \notin Blank}

-----------------------------------------------------------------------------
(* Properties, looked at once, at the start with one configuration.        *)

AtStart ==
  pc = "idle" /\ Enforced /\ config.strict /\ config.default = "deny" /\ config.policies = <<>>

None == [allowed |-> {}, required |-> {}, forbidden |-> {}, values |-> {}, maxBytes |-> {},
         maxItems |-> {}]

(* The descent through nested arguments looks at every field: arguments    *)
(* are admitted exactly if each field at any depth is an allowed one, lies *)
(* below one or is an object that leads to one; the required fields are    *)
(* there and the forbidden ones are not, no field breaks a bound, and      *)
(* every validator is known and passes (an error counts as a failure).     *)
ArgumentsAreChecked ==
  AtStart =>
    /\ \A x \in Arguments, p \in Inputs :
         Admitted(x, p, <<>>) <=>
           \A f \in Fields :
             /\ f \in p.required => f \in DOMAIN x.at
             /\ f \in DOMAIN x.at =>
                  /\ f \notin p.forbidden
                  /\ f \in x.over => f \notin p.values \cup p.maxBytes
                  /\ f \in x.over /\ f \in p.maxItems => x.at[f] # "list"
                  /\ p.allowed # {} =>
                       \E a \in p.allowed :
                         IF Len(a) <= Len(f) THEN a = SubSeq(f, 1, Len(a))
                         ELSE f = SubSeq(a, 1, Len(f)) /\ x.at[f] = "object"
    /\ \A x \in Arguments, v \in UNION {[1..n -> Validator] : n \in 0..2} :
         Admitted(x, None, v) <=> \A i \in DOMAIN v : v[i] = "passes"

\* What the lexer does not see: that slash, star, slash begins a comment where
\* comments nest, a carriage return that ends a line comment, two dashes that
\* begin none.
Overlooked(r, q) ==
  \/ "nested" \in r /\ \E i \in DOMAIN q : BeginsComment(q, i) /\ EndsComment(q, i + 1)
  \/ \E i \in DOMAIN q :
       /\ BeginsLine(q, i)
       /\ \/ "spaced" \in r /\ ~LineBegins(r, q, i)
          \/ "return" \in r /\ \E j \in i..LineEnd(q, i) : q[j] = "return"

(* "Mask strings/comments using one lexer": a query that passes is one     *)
(* statement that begins with a read and executes nothing that writes,     *)
(* whatever the conventions of the database: what the lexer takes for a    *)
(* string or a comment is one for the database too.  Only the three shapes *)
(* it overlooks can be read otherwise by databases with the conventions    *)
(* concerned.                                                              *)
SqlReadsTheSame ==
  AtStart =>
    \A q \in Queries : ReadOnly(q) =>
      \A r \in Readings :
        LET run == Executed(r, q)
        IN \/ Overlooked(r, q)
           \/ /\ \E i \in run : q[i] = "read" /\ \A j \in run : i <= j
              /\ \A i \in run : q[i] # "write"
              /\ \A i, j \in run : i < j /\ q[i] = "separator" => q[j] = "separator"
=============================================================================
