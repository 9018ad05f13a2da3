------------------------------ MODULE OnceOnly ------------------------------
(***************************************************************************)
(* What the evidence profile promises about the effects of tool calls: a   *)
(* call must claim its idempotency key and its approval before anything    *)
(* happens, no two calls claim the same key or the same approval, and a    *)
(* claim has its effect at most once.  (docs/EVIDENCE.md: "reusing it for  *)
(* the same operation never sends again".)                                 *)
(***************************************************************************)
EXTENDS Naturals

CONSTANTS Calls, Keys, Approvals, NoKey, NoApproval

VARIABLES claims,  \* claims made so far: call, key and approval
          done     \* done[c]: how often call c had its effect at the destination

vars == <<claims, done>>

Claim == [call : Calls, key : Keys \cup {NoKey}, approval : Approvals \cup {NoApproval}]

TypeOK == claims \subseteq Claim /\ done \in [Calls -> Nat]

Init == claims = {} /\ done = [c \in Calls |-> 0]

Compatible(k, l) ==
  /\ k.call # l.call
  /\ k.key = l.key => k.key = NoKey
  /\ k.approval = l.approval => k.approval = NoApproval

MakeClaim(k) ==
  /\ \A l \in claims : Compatible(k, l)
  /\ claims' = claims \cup {k}
  /\ UNCHANGED done

Perform(k) ==
  /\ k \in claims
  /\ done[k.call] = 0
  /\ done' = [done EXCEPT ![k.call] = 1]
  /\ UNCHANGED claims

Next == \E k \in Claim : MakeClaim(k) \/ Perform(k)

Spec == Init /\ [][Next]_vars

(* No call has two effects, and two calls with an effect never share an    *)
(* idempotency key or an approval.                                         *)
NoRepeatedEffect ==
  /\ \A c \in Calls : done[c] <= 1
  /\ \A k, l \in claims : k # l /\ done[k.call] > 0 /\ done[l.call] > 0 => Compatible(k, l)
=============================================================================
