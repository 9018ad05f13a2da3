------------------------- MODULE ApprovalLifecycle -------------------------
(***************************************************************************)
(* What the approval workflow promises, with none of its mechanism: an     *)
(* approval is opened, a person grants or refuses it, one call uses a      *)
(* granted one up, and that call then passes to the upstream server at     *)
(* most once.  The repository's README.md says it in words: "Approvals are *)
(* single use" and "Terminal decisions are immutable".                     *)
(***************************************************************************)
CONSTANTS Ids, Calls, NoId

VARIABLES stage,   \* stage[i]: where approval i is in its life
          uses,    \* uses[c]: the approval call c used up
          passed   \* the calls that reached the upstream server

vars == <<stage, uses, passed>>

Stages == {"absent", "open", "granted", "refused", "used"}

TypeOK ==
  /\ stage \in [Ids -> Stages]
  /\ uses \in [Calls -> Ids \cup {NoId}]
  /\ passed \subseteq Calls

Init ==
  /\ stage = [i \in Ids |-> "absent"]
  /\ uses = [c \in Calls |-> NoId]
  /\ passed = {}

Move(i, from, to) ==
  /\ stage[i] = from
  /\ stage' = [stage EXCEPT ![i] = to]

Open(i)   == Move(i, "absent", "open") /\ UNCHANGED <<uses, passed>>
Grant(i)  == Move(i, "open", "granted") /\ UNCHANGED <<uses, passed>>
Refuse(i) == Move(i, "open", "refused") /\ UNCHANGED <<uses, passed>>

UseUp(i, c) ==
  /\ Move(i, "granted", "used")
  /\ uses[c] = NoId
  /\ uses' = [uses EXCEPT ![c] = i]
  /\ UNCHANGED passed

Pass(c) ==
  /\ uses[c] # NoId
  /\ c \notin passed
  /\ passed' = passed \cup {c}
  /\ UNCHANGED <<stage, uses>>

Next ==
  \/ \E i \in Ids : Open(i) \/ Grant(i) \/ Refuse(i) \/ \E c \in Calls : UseUp(i, c)
  \/ \E c \in Calls : Pass(c)

Spec == Init /\ [][Next]_vars

(* No two calls that reached the upstream server used the same approval.   *)
SingleUse == \A c, d \in passed : uses[c] = uses[d] => c = d
=============================================================================
