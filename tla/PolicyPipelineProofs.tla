------------------------ MODULE PolicyPipelineProofs ------------------------
(***************************************************************************)
(* Proofs about PolicyPipeline for any capabilities and configurations,    *)
(* lists of policies of any length included.  What evaluation promises is  *)
(* stated first, about one configuration and one context; the invariant    *)
(* then carries it from the decisions to what is forwarded and released.   *)
(*                                                                         *)
(* What is said of a configuration or of an input once and for all follows *)
(* in a section of its own: policies called unused, policies of onboarded  *)
(* capabilities, names of imported servers, nested arguments, SQL.  A      *)
(* recursive function is shown to have a solution before its equation is   *)
(* used; least numbers stand in for induction.                             *)
(***************************************************************************)
EXTENDS PolicyAnalysis, ClientImport, Validation, FiniteSetTheorems, SequenceTheorems,
        NaturalsInduction, WellFoundedInduction, TLAPS

USE MethodAssumption, ConfigurationAssumption

-----------------------------------------------------------------------------
(* Induction over what is ranked by a number, and recursion.               *)

LEMMA LeastNumber ==
  ASSUME NEW T, T \subseteq Nat, T # {}
  PROVE  \E x \in T : \A y \in T : x <= y
<1> DEFINE R == {ss \in Nat \X Nat : ss[1] < ss[2]}
<1>1. IsWellFoundedOn(R, Nat)
  BY NatLessThanWellFounded, Zenon DEF OpToRel
<1>2. \E x \in T : \A y \in T : <<y, x>> \notin R
  BY <1>1, WFMin, Zenon
<1>3. \A x, y \in Nat : <<y, x>> \notin R => x <= y
  OBVIOUS
<1> QED
  BY <1>2, <1>3

LEMMA RankInduction ==
  ASSUME NEW D, NEW rank \in [D -> Nat], NEW P,
         \A i \in D : (\A j \in D : rank[j] < rank[i] => j \in P) => i \in P
  PROVE  D \subseteq P
<1> DEFINE T == {rank[i] : i \in {i \in D : i \notin P}}
<1> SUFFICES ASSUME ~(D \subseteq P) PROVE FALSE
  OBVIOUS
<1>1. T \subseteq Nat /\ T # {}
  OBVIOUS
<1>2. PICK d \in T : \A e \in T : d <= e
  BY <1>1, LeastNumber
<1>3. PICK i \in D : i \notin P /\ rank[i] = d
  BY <1>2
<1>4. \A j \in D : rank[j] < rank[i] => j \in P
  <2> SUFFICES ASSUME NEW j \in D, rank[j] < rank[i], j \notin P PROVE FALSE
    OBVIOUS
  <2>1. rank[j] \in T /\ rank[j] \in Nat /\ rank[i] \in Nat
    OBVIOUS
  <2> HIDE DEF T
  <2> QED BY <1>1, <1>2, <1>3, <2>1
<1> QED BY <1>3, <1>4

\* step[i][g] is the value at i, and depends on g only at what is ranked lower.
Descends(D, V, rank, step) ==
  /\ V # {} /\ rank \in [D -> Nat] /\ step \in [D -> [[D -> V] -> V]]
  /\ \E n \in Nat : \A i \in D : rank[i] <= n
  /\ \A i \in D : \A g, h \in [D -> V] :
       (\A j \in D : rank[j] < rank[i] => g[j] = h[j]) => step[i][g] = step[i][h]

LEMMA Recursion ==
  ASSUME NEW D, NEW V, NEW rank, NEW step, Descends(D, V, rank, step)
  PROVE  \E h \in [D -> V] : h = [i \in D |-> step[i][h]]
<1> USE DEF Descends
<1>0. PICK n \in Nat : \A i \in D : rank[i] <= n
  OBVIOUS
<1> DEFINE Fine(d) == \E h \in [D -> V] : \A i \in D : rank[i] < d => h[i] = step[i][h]
           P == {d \in 0..n + 1 : Fine(d)}
<1>1. Fine(0)
  <2>1. PICK v : v \in V
    OBVIOUS
  <2>2. [i \in D |-> v] \in [D -> V]
    BY <2>1
  <2>3. \A i \in D : ~(rank[i] < 0)
    OBVIOUS
  <2> QED BY <2>2, <2>3
<1>2. ASSUME NEW d \in 0..n, Fine(d)
      PROVE  Fine(d + 1)
  <2>1. PICK g \in [D -> V] : \A i \in D : rank[i] < d => g[i] = step[i][g]
    BY <1>2
  <2> DEFINE h == [i \in D |-> IF rank[i] < d THEN g[i] ELSE step[i][g]]
  <2>2. h \in [D -> V]
    OBVIOUS
  <2>3. \A i \in D : h[i] = step[i][g]
    BY <2>1
  <2>4. \A j \in D : rank[j] < d => h[j] = g[j]
    OBVIOUS
  <2> HIDE DEF h
  <2>5. ASSUME NEW i \in D, rank[i] < d + 1
        PROVE  h[i] = step[i][h]
    <3>1. \A j \in D : rank[j] < rank[i] => rank[j] < d
      BY <2>5
    <3>2. step[i][g] = step[i][h]
      BY <2>2, <2>4, <3>1
    <3> QED BY <2>3, <3>2
  <2> QED BY <2>2, <2>5
<1>3. n + 1 \in P
  <2> HIDE DEF Fine
  <2> DEFINE N == 0..n + 1
             id == [d \in N |-> d]
  <2>1. id \in [N -> Nat] /\ n + 1 \in N
    OBVIOUS
  <2>2. ASSUME NEW d \in 0..n + 1, \A e \in 0..n + 1 : e < d => e \in P
        PROVE  d \in P
    <3>1. CASE d = 0
      BY <1>1, <3>1
    <3>2. CASE d # 0
      <4>1. d - 1 \in 0..n /\ d - 1 \in P /\ (d - 1) + 1 = d
        BY <2>2, <3>2
      <4> QED BY <1>2, <4>1
    <3> QED BY <3>1, <3>2
  <2>3. \A d \in N : (\A e \in N : id[e] < id[d] => e \in P) => d \in P
    BY <2>2
  <2> HIDE DEF P, N, id
  <2>4. N \subseteq P
    BY <2>1, <2>3, RankInduction
  <2> QED BY <2>1, <2>4
<1>4. PICK h \in [D -> V] : \A i \in D : rank[i] < n + 1 => h[i] = step[i][h]
  BY <1>3
<1>5. \A i \in D : h[i] = step[i][h]
  BY <1>0, <1>4
<1> QED BY <1>5

-----------------------------------------------------------------------------
(* Policy evaluation.                                                      *)

LEMMA RankType ==
  /\ \A e \in Effects : Rank(e) \in 0..7
  /\ \A e, f \in Effects : Rank(e) = Rank(f) => e = f
<1>1. /\ Rank("deny") = 0 /\ Rank("hide") = 1 /\ Rank("require_approval") = 2
      /\ Rank("redact") = 3 /\ Rank("limit") = 4 /\ Rank("transform") = 5
      /\ Rank("allow") = 6 /\ Rank("log") = 7
  BY DEF Rank
<1> QED
  BY <1>1 DEF Effects

(* Of any policies, one comes first: selection is well defined.            *)
LEMMA SelectedIsFirst ==
  ASSUME NEW g \in Configuration, NEW s, s \subseteq DOMAIN g.policies, s # {}
  PROVE  /\ Selected(g, s) \in s
         /\ \A j \in s : Precedes(g, Selected(g, s), j)
<1> DEFINE rk(i) == Rank(g.policies[i].effect)
<1>1. g.policies \in Seq(Policy) /\ DOMAIN g.policies \subseteq Nat
  BY DEF Configuration
<1>2. \A i \in s : i \in Nat /\ rk(i) \in Nat
  <2> SUFFICES ASSUME NEW i \in s
               PROVE  i \in Nat /\ rk(i) \in Nat
    OBVIOUS
  <2>1. g.policies[i] \in Policy
    BY <1>1
  <2>2. g.policies[i].effect \in Effects
    BY <2>1 DEF Policy
  <2> QED
    BY <1>1, <2>2, RankType
<1> HIDE DEF rk
<1>3. PICK i \in s : \A j \in s : rk(i) <= rk(j)
  <2>1. {rk(j) : j \in s} \subseteq Nat /\ {rk(j) : j \in s} # {}
    BY <1>2
  <2>2. PICK x \in {rk(j) : j \in s} : \A y \in {rk(j) : j \in s} : x <= y
    BY <2>1, LeastNumber
  <2> QED
    BY <2>2
<1> DEFINE T == {j \in s : rk(j) = rk(i)}
<1>4. PICK k \in T : \A j \in T : k <= j
  <2>1. T \subseteq Nat /\ i \in T
    BY <1>2
  <2> QED
    BY <2>1, LeastNumber
<1>5. \A j \in s : rk(k) < rk(j) \/ (rk(k) = rk(j) /\ k <= j)
  <2> SUFFICES ASSUME NEW j \in s
               PROVE  rk(k) < rk(j) \/ (rk(k) = rk(j) /\ k <= j)
    OBVIOUS
  <2>1. rk(k) = rk(i) /\ rk(i) <= rk(j) /\ rk(i) \in Nat /\ rk(j) \in Nat
    BY <1>2, <1>3, <1>4
  <2>2. CASE rk(j) = rk(i)
    BY <1>4, <2>1, <2>2
  <2>3. CASE rk(j) # rk(i)
    BY <2>1, <2>3
  <2> QED
    BY <2>2, <2>3
<1>6. k \in s /\ \A j \in s : Precedes(g, k, j)
  BY <1>4, <1>5 DEF rk, Precedes
<1> QED
  BY <1>6 DEF Selected

(* Of two policies, only one precedes the other.                           *)
LEMMA OnePrecedes ==
  ASSUME NEW g \in Configuration, NEW i \in DOMAIN g.policies, NEW j \in DOMAIN g.policies,
         Precedes(g, i, j), Precedes(g, j, i)
  PROVE  i = j
<1>1. i \in Nat /\ j \in Nat /\ g.policies[i] \in Policy /\ g.policies[j] \in Policy
  BY DEF Configuration
<1>2. Rank(g.policies[i].effect) \in Nat /\ Rank(g.policies[j].effect) \in Nat
  BY <1>1, RankType DEF Policy
<1> QED BY <1>1, <1>2 DEF Precedes

(* Of any policies, the one that precedes all others is the selected one.  *)
LEMMA SelectedIs ==
  ASSUME NEW g \in Configuration, NEW s, s \subseteq DOMAIN g.policies,
         NEW i \in s, \A j \in s : Precedes(g, i, j)
  PROVE  Selected(g, s) = i
<1> DEFINE j == Selected(g, s)
<1>1. j \in s /\ Precedes(g, j, i) /\ Precedes(g, i, j)
  BY SelectedIsFirst
<1> HIDE DEF j
<1>2. i = j
  BY <1>1, OnePrecedes
<1> QED BY <1>2 DEF j

(* Policies without `when` hold of every message.                          *)
LEMMA Unconditional ==
  ASSUME NEW p, p.when \in {"always", "identity"}, NEW x
  PROVE  ConditionHolds(p, x)
BY ConditionsAssumption DEF ConditionHolds

LEMMA DecisionType ==
  ASSUME NEW g \in Configuration, NEW x
  PROVE  Decisions(g, x) \subseteq Decision
<1>1. g.policies \in Seq(Policy) /\ g.default \in {"allow", "deny"} /\ Len(g.policies) \in Nat
  BY DEF Configuration
<1>2. Builtin(g, x) \in Decision
  <2>1. CASE Matching(g, x) = {}
    BY <1>1, <2>1 DEF Builtin, Decision, Effects
  <2>2. CASE Matching(g, x) # {}
    <3> DEFINE i == Selected(g, Matching(g, x))
    <3>1. i \in DOMAIN g.policies
      BY <2>2, SelectedIsFirst DEF Matching
    <3>2. i \in Nat /\ g.policies[i] \in Policy
      BY <1>1, <3>1
    <3> HIDE DEF i
    <3>3. Builtin(g, x) = [effect |-> IF ChecksFail(g.policies[i], x) THEN "deny"
                                      ELSE g.policies[i].effect,
                           by |-> i, implicit |-> FALSE]
      BY <2>2 DEF Builtin, i
    <3> QED
      BY <3>2, <3>3 DEF Decision, Policy, Effects
  <2> QED
    BY <2>1, <2>2
<1>3. External(g) \subseteq Decision
  <2>1. 0..Len(g.policies) + 1 \subseteq Nat
    BY <1>1
  <2> QED
    BY <2>1 DEF External, Decision
<1> QED
  BY <1>2, <1>3 DEF Decisions

(* Conservative precedence.  The effect of a matching policy bounds the    *)
(* decision: a deny or hide policy denies, an approval policy denies or    *)
(* asks, a redact policy does one of these or redacts by its own rule.     *)
LEMMA Precedence ==
  ASSUME NEW g \in Configuration, NEW x, NEW j \in Matching(g, x)
  PROVE  /\ ~Builtin(g, x).implicit
         /\ Builtin(g, x).by \in Matching(g, x)
         /\ Builtin(g, x).effect \in {"deny", g.policies[Builtin(g, x).by].effect}
         /\ g.policies[j].effect \in Denials => Builtin(g, x).effect \in Denials
         /\ g.policies[j].effect = "require_approval" =>
              Builtin(g, x).effect \in Denials \cup {"require_approval"}
         /\ g.policies[j].effect = "redact" =>
              Builtin(g, x).effect \in Denials \cup {"require_approval", "redact"}
<1> DEFINE i == Selected(g, Matching(g, x))
           p == g.policies[i]
           q == g.policies[j]
<1>1. i \in Matching(g, x) /\ Precedes(g, i, j) /\ i \in DOMAIN g.policies /\ j \in DOMAIN g.policies
  BY SelectedIsFirst DEF Matching
<1>2. p \in Policy /\ q \in Policy
  BY <1>1 DEF Configuration
<1>3. Rank(p.effect) <= Rank(q.effect) /\ p.effect \in Effects /\ q.effect \in Effects
  BY <1>1, <1>2, RankType DEF Precedes, Policy
<1> HIDE DEF i
<1>4. Builtin(g, x) = [effect |-> IF ChecksFail(p, x) THEN "deny" ELSE p.effect,
                       by |-> i, implicit |-> FALSE]
  BY DEF Builtin, i
<1>5. /\ q.effect \in Denials => p.effect \in Denials
      /\ q.effect = "require_approval" => p.effect \in Denials \cup {"require_approval"}
      /\ q.effect = "redact" => p.effect \in Denials \cup {"require_approval", "redact"}
  BY <1>3 DEF Rank, Effects, Denials
<1> QED
  BY <1>1, <1>4, <1>5 DEF Denials

-----------------------------------------------------------------------------
(* The invariant.                                                          *)

Passed ==
  \/ message.form = "safe"
  \/ /\ decision \in Decisions(config, Inbound(message))
     /\ ~Refused(config, message, decision)
     /\ Held(config, message, decision) => approved

(* What has been settled at each stage of the handler.                     *)
StageInv ==
  /\ pc # "idle" => message \in Messages
  /\ pc # "over" => reply = "none"
  /\ pc \in {"idle", "received", "decided", "cleared", "armed"} => ~forwarded
  /\ pc \in {"answered", "judged"} => forwarded
  /\ pc = "judged" => message.form = "request" /\ message.method = "call"

(* Nothing is sent that was not decided, approved and announced.           *)
ForwardInv ==
  /\ pc = "decided" => decision \in Decisions(config, Inbound(message))
  /\ (pc \in {"cleared", "armed", "answered", "judged"} \/ forwarded) => Passed
  /\ (pc \in {"armed", "answered", "judged"} \/ forwarded) => (config.strict => intent)

(* The answer to a call was judged, and treated as judged.                 *)
ReplyInv ==
  /\ pc = "judged" => verdict \in Decisions(config, Outbound(message, meets))
  /\ (reply \in {"raw", "rewritten"} /\ message.method = "call") =>
       /\ verdict \in Decisions(config, Outbound(message, meets))
       /\ ~Withheld(config, verdict)
       /\ reply = "rewritten" <=> Rewritten(config, verdict)
  /\ reply = "filtered" =>
       \A c \in Capabilities : \E d \in Decisions(config, Item(c, message.known)) : c \in visible <=> Listed(d)

IInv == TypeOK /\ StageInv /\ ForwardInv /\ ReplyInv /\ DryRunIsTransparent

LEMMA TypeInit == Init => TypeOK
<1>1. Allowed \in Decision
  BY DEF Allowed, Decision, Effects
<1> QED
  BY <1>1 DEF Init, TypeOK

LEMMA TypeStep == TypeOK /\ [Next]_vars => TypeOK'
<1> SUFFICES ASSUME TypeOK, [Next]_vars
             PROVE  TypeOK'
  OBVIOUS
<1> USE DEF TypeOK, exchange
<1> QED
  <2>1. CASE Receive
    BY <2>1 DEF Receive
  <2>2. CASE Evaluate
    BY <2>2, DecisionType DEF Evaluate
  <2>3. CASE Refuse
    BY <2>3 DEF Refuse, End
  <2>4. CASE AskForApproval
    BY <2>4 DEF AskForApproval, End
  <2>5. CASE UseApproval
    BY <2>5 DEF UseApproval
  <2>6. CASE Clear
    BY <2>6 DEF Clear
  <2>7. CASE LogIntent
    BY <2>7 DEF LogIntent, End
  <2>8. CASE Send
    BY <2>8 DEF Send
  <2>9. CASE SendFails
    BY <2>9 DEF SendFails, End
  <2>10. CASE Acknowledge
    BY <2>10 DEF Acknowledge, End
  <2>11. CASE NoResponse
    BY <2>11 DEF NoResponse, End
  <2>12. CASE PassOther
    BY <2>12 DEF PassOther, End
  <2>13. CASE ReplyList
    BY <2>13 DEF ReplyList, End
  <2>14. CASE EvaluateOutput
    BY <2>14, DecisionType DEF EvaluateOutput, End
  <2>15. CASE Release
    BY <2>15 DEF Release, End
  <2>16. CASE EvaluationRaises
    BY <2>16 DEF EvaluationRaises, End
  <2>17. CASE UNCHANGED vars
    BY <2>17 DEF vars
  <2> QED
    BY <2>1, <2>2, <2>3, <2>4, <2>5, <2>6, <2>7, <2>8, <2>9, <2>10, <2>11, <2>12, <2>13, <2>14, <2>15, <2>16, <2>17 DEF Next

(* Every variable keeps its type.                                          *)
THEOREM TypeCorrect == Spec => []TypeOK
BY TypeInit, TypeStep, PTL DEF Spec

LEMMA InvInit == Init => IInv
BY TypeInit DEF Init, IInv, StageInv, ForwardInv, ReplyInv, DryRunIsTransparent

LEMMA InvStep == IInv /\ [Next]_vars => IInv'
<1> SUFFICES ASSUME IInv, [Next]_vars
             PROVE  (StageInv /\ ForwardInv /\ ReplyInv /\ DryRunIsTransparent)'
  BY TypeStep DEF IInv
<1> USE DEF IInv, TypeOK, StageInv, ForwardInv, Passed, ReplyInv, DryRunIsTransparent,
            exchange
<1> QED
  <2>1. CASE Receive
    BY <2>1 DEF Receive
  <2>2. CASE Evaluate
    BY <2>2 DEF Evaluate
  <2>3. CASE Refuse
    BY <2>3 DEF Refuse, End, Refused
  <2>4. CASE AskForApproval
    BY <2>4 DEF AskForApproval, End, Held
  <2>5. CASE UseApproval
    BY <2>5 DEF UseApproval, Held, Refused, Denials
  <2>6. CASE Clear
    BY <2>6 DEF Clear
  <2>7. CASE LogIntent
    BY <2>7 DEF LogIntent, End
  <2>8. CASE Send
    BY <2>8 DEF Send
  <2>9. CASE SendFails
    BY <2>9 DEF SendFails, End
  <2>10. CASE Acknowledge
    BY <2>10 DEF Acknowledge, End
  <2>11. CASE NoResponse
    BY <2>11 DEF NoResponse, End
  <2>12. CASE PassOther
    BY <2>12 DEF PassOther, End
  <2>13. CASE ReplyList
    BY <2>13 DEF ReplyList, End
  <2>14. CASE EvaluateOutput
    BY <2>14 DEF EvaluateOutput, End
  <2>15. CASE Release
    BY <2>15 DEF Release, End, Withheld, Rewritten
  <2>16. CASE EvaluationRaises
    BY <2>16 DEF EvaluationRaises, End
  <2>17. CASE UNCHANGED vars
    BY <2>17 DEF vars
  <2> QED
    BY <2>1, <2>2, <2>3, <2>4, <2>5, <2>6, <2>7, <2>8, <2>9, <2>10, <2>11, <2>12, <2>13, <2>14, <2>15, <2>16, <2>17 DEF Next

LEMMA Invariant == Spec => []IInv
BY InvInit, InvStep, PTL DEF Spec

-----------------------------------------------------------------------------
(* What the invariant implies.                                             *)

LEMMA InvForwarded == IInv => OnlyPermittedIsForwarded
<1> SUFFICES ASSUME IInv, forwarded, Enforced, message.form # "safe"
             PROVE  LET h == Hits(Inbound(message))
                    IN /\ \A p \in h : p.effect \notin Denials
                       /\ \A p \in h : p.effect = "require_approval" => approved
                       /\ h = {} => \/ config.default = "allow"
                                    \/ message.form = "request" /\ message.method = "list"
  BY DEF IInv, ForwardInv, OnlyPermittedIsForwarded
<1> DEFINE x == Inbound(message)
<1>1. /\ decision = Builtin(config, x)
      /\ ~Refused(config, message, decision)
      /\ Held(config, message, decision) => approved
      /\ config \in Configuration /\ ~config.dryRun
  BY DEF IInv, TypeOK, ForwardInv, Passed, Decisions, Enforced
<1> HIDE DEF x
<1>2. ASSUME NEW j \in Matching(config, x)
      PROVE  /\ config.policies[j].effect \notin Denials
             /\ config.policies[j].effect = "require_approval" => approved
  <2>1. ~decision.implicit
    BY <1>1, <1>2, Precedence
  <2>2. decision.effect \notin Denials
    BY <1>1, <2>1 DEF Refused
  <2>3. config.policies[j].effect \notin Denials
    BY <1>1, <1>2, <2>2, Precedence
  <2>4. config.policies[j].effect = "require_approval" => decision.effect = "require_approval"
    BY <1>1, <1>2, <2>2, Precedence
  <2> QED
    BY <1>1, <2>3, <2>4 DEF Held, Refused
<1>3. Matching(config, x) = {} => decision.implicit /\ decision.effect = config.default
  BY <1>1 DEF Builtin
<1>4. Matching(config, x) = {} =>
        config.default = "allow" \/ (message.form = "request" /\ message.method = "list")
  BY <1>1, <1>3 DEF Refused, Denials, Configuration
<1> QED
  BY <1>2, <1>4 DEF Hits, x

LEMMA InvGuarded == IInv => AnswersAreGuarded
<1> SUFFICES ASSUME IInv, Enforced, message.method = "call", reply \in {"raw", "rewritten"}
             PROVE  LET h == Hits(Outbound(message, meets))
                    IN /\ \A p \in h : p.effect \notin Denials
                       /\ reply = "raw" =>
                            \/ \A p \in h : p.effect # "redact"
                            \/ \E p \in h : p.effect = "redact" /\ p.output = "none"
                            \/ \E p \in h : p.effect = "require_approval"
  BY DEF AnswersAreGuarded
<1> DEFINE x == Outbound(message, meets)
<1>1. /\ verdict = Builtin(config, x)
      /\ ~Withheld(config, verdict)
      /\ reply = "rewritten" <=> Rewritten(config, verdict)
      /\ config \in Configuration /\ ~config.dryRun
  BY DEF IInv, TypeOK, ReplyInv, Decisions, Enforced
<1> HIDE DEF x
<1>2. ASSUME NEW j \in Matching(config, x)
      PROVE  config.policies[j].effect \notin Denials
  <2>1. ~verdict.implicit
    BY <1>1, Precedence
  <2>2. verdict.effect \notin Denials
    BY <1>1, <2>1 DEF Withheld
  <2> QED
    BY <1>1, <2>2, Precedence
<1>3. ASSUME NEW j \in Matching(config, x), config.policies[j].effect = "redact", reply = "raw"
      PROVE  \E k \in Matching(config, x) :
               \/ config.policies[k].effect = "redact" /\ config.policies[k].output = "none"
               \/ config.policies[k].effect = "require_approval"
  <2> DEFINE k == verdict.by
             p == config.policies[k]
  <2>1. /\ ~verdict.implicit /\ k \in Matching(config, x)
        /\ verdict.effect \in {"deny", p.effect}
        /\ verdict.effect \in Denials \cup {"require_approval", "redact"}
    BY <1>1, <1>3, Precedence
  <2>2. verdict.effect \notin Denials
    BY <1>1, <2>1 DEF Withheld
  <2>3. verdict.effect = p.effect /\ p.effect \in {"require_approval", "redact"}
    BY <2>1, <2>2 DEF Denials
  <2>4. CASE p.effect = "redact"
    <3>1. k \in DOMAIN config.policies /\ p \in Policy
      BY <1>1, <2>1 DEF Matching, Configuration
    <3>2. Rule(config, verdict) = p.output /\ p.output \in {"none", "rewrites", "refuses"}
      BY <3>1 DEF Rule, Policy
    <3>3. p.output # "refuses"
      BY <1>1, <2>1, <2>3, <2>4, <3>2 DEF Withheld, Rewriting
    <3>4. p.output # "rewrites"
      BY <1>1, <1>3, <2>3, <2>4, <3>2 DEF Rewritten, Rewriting
    <3> QED
      BY <2>1, <2>4, <3>2, <3>3, <3>4
  <2> QED
    BY <2>1, <2>3, <2>4
<1> QED
  BY <1>2, <1>3 DEF Hits, x

LEMMA InvHidden == IInv => HiddenIsUncallable
<1> SUFFICES ASSUME IInv, Enforced, reply = "filtered",
                    NEW c \in Capabilities, NEW i \in DOMAIN config.policies,
                    config.policies[i].effect \in Denials,
                    config.policies[i].when = "always",
                    config.policies[i].methods = Methods,
                    c \in config.policies[i].covers
             PROVE  /\ c \notin visible
                    /\ \A x \in Calls(c) : Builtin(config, x).effect \in Denials
  BY DEF HiddenIsUncallable
<1>1. config \in Configuration
  BY DEF IInv, TypeOK
<1>2. /\ i \in Matching(config, Item(c, message.known))
      /\ \A x \in Calls(c) : i \in Matching(config, x)
  BY Unconditional DEF Matching, Matches, MatchesStructurally, Item, Calls, Methods
<1>3. /\ Builtin(config, Item(c, message.known)).effect \in Denials
      /\ \A x \in Calls(c) : Builtin(config, x).effect \in Denials
  BY <1>1, <1>2, Precedence
<1>4. c \in visible <=> Listed(Builtin(config, Item(c, message.known)))
  BY DEF IInv, ReplyInv, Decisions, Enforced
<1> QED
  BY <1>3, <1>4 DEF Listed

LEMMA InvExternal == IInv => ExternalVerdictsFailClosed
<1> SUFFICES ASSUME IInv, config.adapter = "opa", ~config.dryRun, message.method = "call",
                    reply \in {"raw", "rewritten"}
             PROVE  /\ reply = "raw" => verdict.effect \in {"allow", "log"}
                    /\ reply = "rewritten" => verdict.by \in DOMAIN config.policies
  BY DEF ExternalVerdictsFailClosed
<1>1. /\ verdict \in External(config)
      /\ ~Withheld(config, verdict)
      /\ reply = "rewritten" <=> Rewritten(config, verdict)
      /\ config \in Configuration
  BY DEF IInv, TypeOK, ReplyInv, Decisions
<1>2. verdict.effect \in Effects /\ ~verdict.implicit
  BY <1>1 DEF External
<1>3. Rule(config, verdict) \in {"none", "rewrites", "refuses", "missing"}
  <2>1. verdict.by \in DOMAIN config.policies => config.policies[verdict.by] \in Policy
    BY <1>1 DEF Configuration
  <2> QED
    BY <2>1 DEF Rule, Policy
<1> QED
  BY <1>1, <1>2, <1>3 DEF Withheld, Rewritten, Effects, Denials, Rewriting, Rule

(* Whatever the policies, their number and their order: what a deny or     *)
(* hide policy matches is never forwarded, what an approval policy matches *)
(* only with an approval, and under strict audit nothing unannounced.      *)
THEOREM ForwardingIsPermitted == Spec => []OnlyPermittedIsForwarded
BY Invariant, InvForwarded, PTL

(* No answer that matches a deny or hide policy reaches the client, and    *)
(* redactions with a rule are applied unless an approval policy matches.   *)
THEOREM OutputIsGuarded == Spec => []AnswersAreGuarded
BY Invariant, InvGuarded, PTL

(* Dry run never blocks, holds, hides or rewrites.                         *)
THEOREM DryRunOnlyObserves == Spec => []DryRunIsTransparent
<1>1. IInv => DryRunIsTransparent
  BY DEF IInv
<1> QED
  BY <1>1, Invariant, PTL

(* What an unconditional deny or hide policy takes out of a list cannot be *)
(* called either.                                                          *)
THEOREM HidingIsConsistent == Spec => []HiddenIsUncallable
BY Invariant, InvHidden, PTL

(* An answer an external engine did not plainly allow is never raw.        *)
THEOREM ExternalFailsClosed == Spec => []ExternalVerdictsFailClosed
BY Invariant, InvExternal, PTL
-----------------------------------------------------------------------------
(* What the risk report knows about calls.                                 *)

(* What the report sees where an unconditional policy without checks       *)
(* allows a call: the same, or a policy the call escapes because it does   *)
(* not meet a condition that what is missing meets.                        *)
LEMMA ProbeSees ==
  ASSUME IInv, NEW x, x.method = "call", NEW v \in BOOLEAN,
         NEW i \in Matching(config, x), i = Builtin(config, x).by,
         Builtin(config, x).effect = "allow",
         config.policies[i].when = "always", ~config.policies[i].checked
  PROVE  \/ Builtin(config, Probe(x.capability, "call", v)).effect = "allow"
         \/ Overshadowed(x, Builtin(config, x))
<1> DEFINE y == Probe(x.capability, "call", v)
           j == Selected(config, Matching(config, y))
           q == config.policies[j]
<1>0. config \in Configuration
  BY DEF IInv, TypeOK
<1>1. y.capability = x.capability /\ y.method = x.method /\ ~y.known /\ y.holds = Absent
  BY DEF Probe
<1> HIDE DEF y
<1>2. i = Selected(config, Matching(config, x)) /\ config.policies[i].effect = "allow"
  BY DEF Builtin, ChecksFail
<1>3. i \in Matching(config, y)
  BY <1>1, Unconditional DEF Matching, Matches, MatchesStructurally
<1>4. j \in Matching(config, y) /\ Precedes(config, j, i)
  BY <1>0, <1>3, SelectedIsFirst DEF Matching
<1>5. Builtin(config, y) = [effect |-> IF ChecksFail(q, y) THEN "deny" ELSE q.effect,
                            by |-> j, implicit |-> FALSE]
  BY <1>3 DEF Builtin
<1>6. j \in DOMAIN config.policies /\ Matches(q, y)
  BY <1>4 DEF Matching
<1> HIDE DEF j
<1>7. CASE q.effect = "allow" /\ ~q.checked
  BY <1>5, <1>7 DEF ChecksFail, y
<1>8. CASE q.effect # "allow" \/ q.checked
  <2>1. j \notin Matching(config, x)
    <3> SUFFICES ASSUME j \in Matching(config, x) PROVE FALSE
      OBVIOUS
    <3>1. Precedes(config, i, j)
      BY <1>0, <1>2, SelectedIsFirst DEF Matching
    <3>2. i = j
      BY <1>0, <1>4, <3>1, OnePrecedes DEF Matching
    <3> QED BY <1>2, <1>8, <3>2
  <2>2. q.when # "identity" /\ MatchesStructurally(q, x)
    BY <1>1, <1>6 DEF Matches, MatchesStructurally
  <2>3. q.when \in Conditions /\ q.when \notin x.holds
    BY <1>6, <2>1, <2>2 DEF Matching, Matches, ConditionHolds
  <2>4. q.when \in Absent
    BY <1>1, <1>6, <2>3 DEF Matches, ConditionHolds
  <2> QED BY <1>4, <1>6, <1>8, <2>2, <2>3, <2>4 DEF Overshadowed
<1> QED BY <1>7, <1>8

LEMMA InvReported == IInv => RisksAreReported
<1> SUFFICES ASSUME IInv, forwarded, Enforced, message.method = "call", decision.effect = "allow",
                    Severe(config.mappings[message.capability]),
                    \/ decision.by = 0
                    \/ /\ config.policies[decision.by].when = "always"
                       /\ ~config.policies[decision.by].checked,
                    NEW analysed \in Analysed(config), message.capability \in analysed,
                    NEW valid \in [Capabilities -> BOOLEAN]
             PROVE  \/ Failed(config, analysed, Coverage(config, valid))
                    \/ Overshadowed(Inbound(message), decision)
  BY DEF RisksAreReported, ExitCode
<1> DEFINE x == Inbound(message)
           c == message.capability
<1>1. message \in Messages /\ message.form # "safe" /\ c \in Capabilities
  BY DEF IInv, StageInv, TypeOK, Messages
<1>2. decision = Builtin(config, x) /\ config \in Configuration
  BY <1>1 DEF IInv, TypeOK, ForwardInv, Passed, Decisions, Enforced
<1>3. x.method = "call" /\ x.capability = c
  BY DEF Inbound
<1> HIDE DEF x, c
<1>4. CASE Matching(config, x) = {}
  BY <1>2, <1>4 DEF Builtin, Failed
<1>5. CASE Matching(config, x) # {}
  <2>1. decision.by \in Matching(config, x)
    BY <1>2, <1>5, Precedence
  <2>2. decision.by # 0
    BY <1>2, <2>1 DEF Matching, Configuration
  <2>3. \/ Builtin(config, Probe(c, "call", valid[c])).effect = "allow"
        \/ Overshadowed(x, decision)
    BY <1>1, <1>2, <1>3, <2>1, <2>2, ProbeSees
  <2>4. CASE Builtin(config, Probe(c, "call", valid[c])).effect = "allow"
    <3>1. Coverage(config, valid)[c] = Builtin(config, Probe(c, "call", valid[c]))
      BY <1>1 DEF Coverage
    <3>2. SevereFinding(config, c, Coverage(config, valid)[c])
      BY <2>4, <3>1 DEF SevereFinding, c
    <3> QED BY <3>2 DEF Failed, c
  <2> QED BY <2>3, <2>4 DEF x
<1> QED BY <1>4, <1>5

(* `mcpzt policy risks` fails for every unconditional allowance of a       *)
(* severe capability that a call makes use of, for lists of policies of    *)
(* any length, unless a policy that precedes it applies to the empty call  *)
(* of the report alone (policy/analysis.py, _coverage_risks and _context). *)
THEOREM ReportedRisks == Spec => []RisksAreReported
BY Invariant, InvReported, PTL
-----------------------------------------------------------------------------
(* Sets of numbers in order.                                               *)

Increasing(k) == \A i, j \in DOMAIN k : i < j => k[i] < k[j]

Onto(k, s) == \A a \in s : \E i \in DOMAIN k : k[i] = a

(* Any set of numbers up to n can be put in order: by induction on n, the  *)
(* number n + 1 coming last if it is in the set.                           *)
LEMMA Ordered ==
  ASSUME NEW n \in Nat, NEW s \in SUBSET (1..n)
  PROVE  \E m \in Nat : \E k \in [1..m -> s] : Increasing(k) /\ Onto(k, s)
<1> DEFINE Fine(t) == \E m \in Nat : \E k \in [1..m -> t] : Increasing(k) /\ Onto(k, t)
           T == {a \in Nat : \E t \in SUBSET (1..a) : ~Fine(t)}
<1> SUFFICES ASSUME T # {} PROVE FALSE
  OBVIOUS
<1>1. PICK a \in T : \A b \in T : a <= b
  BY LeastNumber
<1>2. PICK t \in SUBSET (1..a) : ~Fine(t)
  OBVIOUS
<1> HIDE DEF Fine
<1>3. a # 0
  <2> SUFFICES ASSUME a = 0 PROVE FALSE
    OBVIOUS
  <2>1. t = {} /\ 1..0 = {}
    OBVIOUS
  <2> DEFINE k == [i \in 1..0 |-> i]
  <2>2. k \in [1..0 -> t] /\ Increasing(k) /\ Onto(k, t)
    BY <2>1 DEF Increasing, Onto
  <2>3. Fine(t)
    BY <2>2 DEF Fine
  <2> QED BY <1>2, <2>3
<1>4. a \in Nat /\ a - 1 \in Nat /\ a - 1 \notin T
  BY <1>1, <1>3
<1> DEFINE r == t \ {a}
<1>5. r \in SUBSET (1..a - 1) /\ \A b \in r : b \in Nat /\ b < a
  BY <1>4
<1>6. Fine(r)
  BY <1>4, <1>5
<1>7. PICK m \in Nat : \E k \in [1..m -> r] : Increasing(k) /\ Onto(k, r)
  BY <1>6 DEF Fine
<1>8. PICK k \in [1..m -> r] : Increasing(k) /\ Onto(k, r)
  BY <1>7
<1>9. CASE a \notin t
  BY <1>2, <1>6, <1>9
<1>10. CASE a \in t
  <2> DEFINE h == [i \in 1..m + 1 |-> IF i = m + 1 THEN a ELSE k[i]]
  <2>1. \A i \in 1..m + 1 : i = m + 1 \/ i \in 1..m
    OBVIOUS
  <2>2. h \in [1..m + 1 -> t]
    BY <1>8, <1>10, <2>1
  <2>3. Increasing(h)
    <3> SUFFICES ASSUME NEW i \in 1..m + 1, NEW j \in 1..m + 1, i < j PROVE h[i] < h[j]
      BY DEF Increasing
    <3>1. i \in 1..m /\ h[i] = k[i] /\ k[i] \in r
      BY <1>8
    <3>2. CASE j = m + 1
      BY <1>5, <3>1, <3>2
    <3>3. CASE j # m + 1
      BY <1>8, <3>1, <3>3 DEF Increasing
    <3> QED BY <3>2, <3>3
  <2>4. Onto(h, t)
    <3> SUFFICES ASSUME NEW b \in t PROVE \E i \in 1..m + 1 : h[i] = b
      BY DEF Onto
    <3>1. CASE b = a
      BY <3>1
    <3>2. CASE b # a
      <4>1. PICK i \in 1..m : k[i] = b
        BY <1>8, <3>2 DEF Onto
      <4> QED BY <4>1
    <3> QED BY <3>1, <3>2
  <2>5. Fine(t)
    BY <2>2, <2>3, <2>4 DEF Fine
  <2> QED BY <1>2, <2>5
<1> QED BY <1>9, <1>10

LEMMA NumbersUpTo ==
  ASSUME NEW n \in Nat
  PROVE  IsFiniteSet(1..n) /\ Cardinality(1..n) = n
<1>1. IsFiniteSet(1..n)
  BY FS_Interval
<1>2. Cardinality(1..n) = n
  BY FS_Interval, SMTT(20)
<1> QED BY <1>1, <1>2

(* InOrder is what its name says.                                          *)
LEMMA InOrderIs ==
  ASSUME NEW n \in Nat, NEW s \in SUBSET (1..n)
  PROVE  /\ Cardinality(s) \in Nat
         /\ InOrder(s) \in [1..Cardinality(s) -> s]
         /\ Increasing(InOrder(s)) /\ Onto(InOrder(s), s)
<1>1. IsFiniteSet(s) /\ Cardinality(s) \in Nat
  <2>1. IsFiniteSet(1..n)
    BY FS_Interval
  <2>2. IsFiniteSet(s)
    BY <2>1, FS_Subset
  <2> QED BY <2>2, FS_CardinalityType
<1>11. \A a \in s : a \in Nat
  OBVIOUS
<1>12. PICK m \in Nat : \E k \in [1..m -> s] : Increasing(k) /\ Onto(k, s)
  BY Ordered
<1>2. PICK k \in [1..m -> s] : Increasing(k) /\ Onto(k, s)
  BY <1>12
<1>3. \A i, j \in 1..m : k[i] = k[j] => i = j
  <2> SUFFICES ASSUME NEW i \in 1..m, NEW j \in 1..m, i < j PROVE k[i] # k[j]
    OBVIOUS
  <2>1. k[i] < k[j]
    BY <1>2 DEF Increasing
  <2>2. k[i] \in s /\ k[j] \in s
    BY <1>2
  <2>3. k[i] \in Nat /\ k[j] \in Nat
    BY <1>11, <2>2
  <2> QED BY <2>1, <2>3
<1>4. k \in Bijection(1..m, s)
  BY <1>2, <1>3 DEF Bijection, Injection, Surjection, IsInjective, Onto
<1>5. Cardinality(s) = m
  BY <1>4, FS_CountingElements DEF ExistsBijection
<1> DEFINE o == InOrder(s)
<1>6. o \in [1..m -> s] /\ Increasing(o)
  BY <1>2, <1>5 DEF InOrder, Increasing
<1> HIDE DEF o
<1>7. \A i, j \in 1..m : o[i] = o[j] => i = j
  <2> SUFFICES ASSUME NEW i \in 1..m, NEW j \in 1..m, i < j PROVE o[i] # o[j]
    OBVIOUS
  <2>1. o[i] < o[j]
    BY <1>6 DEF Increasing
  <2>2. o[i] \in s /\ o[j] \in s
    BY <1>6
  <2>3. o[i] \in Nat /\ o[j] \in Nat
    BY <1>11, <2>2
  <2> QED BY <2>1, <2>3
<1>8. o \in Injection(1..m, s)
  BY <1>6, <1>7 DEF Injection, IsInjective
<1>9. Cardinality(1..m) = m
  BY NumbersUpTo
<1>10. o \in Surjection(1..m, s)
  BY <1>1, <1>5, <1>8, <1>9, FS_Injection
<1>13. Onto(o, s)
  BY <1>6, <1>10 DEF Surjection, Onto
<1> QED BY <1>1, <1>5, <1>6, <1>13 DEF o
-----------------------------------------------------------------------------
(* What the report of unused policies promises.                            *)

(* Deleting policies that do not match x changes neither the decision on x *)
(* nor the policy that makes it: those that are left keep their order.     *)
LEMMA OthersDecide ==
  ASSUME NEW g \in Configuration, NEW s, s \subseteq DOMAIN g.policies,
         NEW x, Matching(g, x) \cap s = {}
  PROVE  Deciding(Without(g, s), x) = Deciding(g, x)
<1> DEFINE keep == InOrder(DOMAIN g.policies \ s)
           h == Without(g, s)
<1>1. PICK n \in Nat : DOMAIN g.policies = 1..n /\ n = Len(g.policies)
  BY DEF Configuration
<1>2. PICK m \in Nat : /\ keep \in [1..m -> DOMAIN g.policies \ s]
                       /\ Increasing(keep) /\ Onto(keep, DOMAIN g.policies \ s)
  <2>1. DOMAIN g.policies \ s \in SUBSET (1..n)
    BY <1>1
  <2> QED BY <2>1, InOrderIs
<1>3. h = [g EXCEPT !.policies = [k \in 1..m |-> g.policies[keep[k]]]]
  BY <1>2 DEF Without
<1> HIDE DEF keep, h
<1>4. /\ h.policies = [k \in 1..m |-> g.policies[keep[k]]]
      /\ DOMAIN h.policies = 1..m /\ h.default = g.default
  BY <1>3 DEF Configuration
<1>5. \A k \in 1..m : keep[k] \in DOMAIN g.policies \ s /\ h.policies[k] = g.policies[keep[k]]
  BY <1>2, <1>4
<1>6. h.policies \in Seq(Policy) /\ h \in Configuration
  <2>1. \A k \in 1..m : g.policies[keep[k]] \in Policy
    BY <1>5 DEF Configuration
  <2>2. h.policies \in [1..m -> Policy]
    BY <1>4, <2>1
  <2>3. h.policies \in Seq(Policy)
    BY <2>2, SeqDef
  <2> QED BY <1>3, <1>4, <2>3 DEF Configuration
<1>7. \A k \in 1..m : k \in Matching(h, x) <=> keep[k] \in Matching(g, x)
  BY <1>4, <1>5 DEF Matching
<1>8. \A i \in Matching(g, x) : \E k \in 1..m : keep[k] = i
  BY <1>2 DEF Matching, Onto
<1>9. CASE Matching(g, x) = {}
  <2>1. Matching(h, x) = {}
    BY <1>4, <1>7, <1>9 DEF Matching
  <2> QED BY <1>4, <1>9, <2>1 DEF Deciding, Builtin, h
<1>10. CASE Matching(g, x) # {}
  <2> DEFINE a == Selected(h, Matching(h, x))
  <2>1. Matching(h, x) # {} /\ Matching(h, x) \subseteq DOMAIN h.policies
    BY <1>7, <1>8, <1>10 DEF Matching
  <2>2. a \in Matching(h, x) /\ \A k \in Matching(h, x) : Precedes(h, a, k)
    BY <1>6, <2>1, SelectedIsFirst
  <2>3. a \in 1..m
    BY <1>4, <2>1, <2>2
  <2> HIDE DEF a
  <2>4. keep[a] \in Matching(g, x)
    BY <1>7, <2>2, <2>3
  <2>5. \A j \in Matching(g, x) : Precedes(g, keep[a], j)
    <3> SUFFICES ASSUME NEW j \in Matching(g, x) PROVE Precedes(g, keep[a], j)
      OBVIOUS
    <3>1. PICK k \in 1..m : keep[k] = j
      BY <1>8
    <3>2. Precedes(h, a, k)
      BY <1>7, <2>2, <3>1
    <3>3. a <= k => keep[a] <= keep[k]
      <4>1. keep[a] \in Nat
        BY <1>1, <1>5, <2>3
      <4>2. a < k => keep[a] < keep[k]
        BY <1>2, <2>3 DEF Increasing
      <4> QED BY <1>1, <1>5, <2>3, <4>1, <4>2
    <3>4. h.policies[a] = g.policies[keep[a]] /\ h.policies[k] = g.policies[keep[k]]
      BY <1>5, <2>3
    <3> QED BY <3>1, <3>2, <3>3, <3>4 DEF Precedes
  <2>6. Selected(g, Matching(g, x)) = keep[a]
    BY <2>4, <2>5, SelectedIs DEF Matching
  <2>7. h.policies[a] = g.policies[keep[a]]
    BY <1>5, <2>3
  <2>8. /\ Builtin(g, x) = [effect |-> IF ChecksFail(g.policies[keep[a]], x) THEN "deny"
                                       ELSE g.policies[keep[a]].effect,
                            by |-> keep[a], implicit |-> FALSE]
        /\ Builtin(h, x) = [effect |-> IF ChecksFail(h.policies[a], x) THEN "deny"
                                       ELSE h.policies[a].effect,
                            by |-> a, implicit |-> FALSE]
    BY <1>10, <2>1, <2>6 DEF Builtin, a
  <2>9. Builtin(h, x).effect = Builtin(g, x).effect
    BY <2>7, <2>8
  <2>10. /\ ~Builtin(h, x).implicit /\ ~Builtin(g, x).implicit
         /\ h.policies[Builtin(h, x).by] = g.policies[Builtin(g, x).by]
    BY <2>7, <2>8
  <2> QED BY <2>9, <2>10 DEF Deciding, h
<1> QED BY <1>9, <1>10

LEMMA InvUnused == TypeOK => UnusedCanGo
<1> SUFFICES ASSUME TypeOK, config.adapter = "builtin",
                    NEW analysed \in Analysed(config),
                    NEW x \in [capability : analysed, method : {"call", "list"},
                               known : BOOLEAN,
                               holds : SUBSET (Conditions \cap Asked(config)),
                               valid : BOOLEAN]
             PROVE  LET unused == {i \in Unused(config, analysed) :
                                     config.policies[i].when # "identity"}
                    IN  Deciding(Without(config, unused), x) = Deciding(config, x)
  BY DEF UnusedCanGo
<1> DEFINE unused == {i \in Unused(config, analysed) : config.policies[i].when # "identity"}
<1>1. config \in Configuration /\ unused \subseteq DOMAIN config.policies
  BY DEF TypeOK, Unused
<1>2. x.capability \in analysed /\ x.method \in {"call", "list"}
  OBVIOUS
<1>3. Matching(config, x) \cap unused = {}
  <2> SUFFICES ASSUME NEW i \in unused, Matches(config.policies[i], x) PROVE FALSE
    BY DEF Matching
  <2>1. ~MatchesStructurally(config.policies[i], Probe(x.capability, x.method, FALSE))
    BY <1>2 DEF Unused
  <2>2. /\ Probe(x.capability, x.method, FALSE).capability = x.capability
        /\ Probe(x.capability, x.method, FALSE).method = x.method
    BY DEF Probe
  <2> QED BY <2>1, <2>2 DEF Matches, MatchesStructurally
<1> HIDE DEF unused
<1>4. Deciding(Without(config, unused), x) = Deciding(config, x)
  BY <1>1, <1>3, OthersDecide
<1> QED BY <1>4 DEF unused

(* Policies reported as unused can be deleted: no call and no listing of   *)
(* an analysed capability is decided differently or by another policy, for *)
(* lists of policies of any length (policy/analysis.py, unused_policies).  *)
THEOREM UnusedIsUseless == Spec => []UnusedCanGo
BY TypeCorrect, InvUnused, PTL
-----------------------------------------------------------------------------
(* Onboarding.                                                             *)

LEMMA GeneratedType ==
  ASSUME NEW e \in Effects, NEW s \in SUBSET Everything, NEW m \in SUBSET Methods,
         NEW b \in BOOLEAN, NEW o \in {"none", "rewrites", "refuses"}
  PROVE  Generated(e, s, m, b, o) \in Policy
BY DEF Generated, Policy

LEMMA InferredType ==
  ASSUME NEW e \in Entry
  PROVE  Inferred(e) \in Metadata
<1>1. InferAccess(e) \in Accesses
  BY DEF InferAccess, Accesses, Entry
<1>2. InferRisk(e) \in Risks
  BY DEF InferRisk, Risks
<1> QED BY <1>1, <1>2 DEF Inferred, Metadata, Entry

LEMMA MappingsType ==
  ASSUME NEW l \in Listings
  PROVE  /\ Mappings(l) \in [Capabilities -> Metadata \cup {Unmapped}]
         /\ Consistent(l) =>
              \A i \in DOMAIN l : Mappings(l)[l[i].capability] = Inferred(l[i])
<1>1. l \in Seq(Entry)
  BY ListingAssumption
<1>2. PICK n \in Nat : DOMAIN l = 1..n /\ \A i \in 1..n : l[i] \in Entry
  <2>1. Len(l) \in Nat /\ DOMAIN l = 1..Len(l) /\ \A i \in 1..Len(l) : l[i] \in Entry
    BY <1>1
  <2> QED BY <2>1
<1> DEFINE Named(c) == {i \in DOMAIN l : l[i].capability = c}
           Latest(s) == CHOOSE i \in s : \A j \in s : j <= i
<1>3. \A c \in Capabilities :
        Mappings(l)[c] = IF Named(c) = {} THEN Unmapped ELSE Inferred(l[Latest(Named(c))])
  BY DEF Mappings
<1>4. ASSUME NEW c \in Capabilities, Named(c) # {}
      PROVE  Latest(Named(c)) \in DOMAIN l
  <2> DEFINE T == {n + 1 - i : i \in Named(c)}
  <2>1. T \subseteq Nat /\ T # {}
    BY <1>2, <1>4
  <2>2. PICK a \in T : \A b \in T : a <= b
    BY <2>1, LeastNumber
  <2>3. PICK i \in Named(c) : a = n + 1 - i
    OBVIOUS
  <2>4. \A j \in Named(c) : j <= i
    <3> SUFFICES ASSUME NEW j \in Named(c) PROVE j <= i
      OBVIOUS
    <3>1. n + 1 - i <= n + 1 - j
      BY <2>2, <2>3
    <3> QED BY <1>2, <3>1
  <2>5. Latest(Named(c)) \in Named(c)
    BY <2>4
  <2> QED BY <2>5
<1>5. ASSUME NEW c \in Capabilities
      PROVE  Mappings(l)[c] \in Metadata \cup {Unmapped}
  <2>1. CASE Named(c) = {}
    BY <1>3, <2>1
  <2>2. CASE Named(c) # {}
    <3>1. l[Latest(Named(c))] \in Entry
      BY <1>2, <1>4, <2>2
    <3> QED BY <1>3, <2>2, <3>1, InferredType
  <2> QED BY <2>1, <2>2
<1>6. Mappings(l) \in [Capabilities -> Metadata \cup {Unmapped}]
  BY <1>5 DEF Mappings
<1>7. ASSUME Consistent(l), NEW i \in DOMAIN l
      PROVE  Mappings(l)[l[i].capability] = Inferred(l[i])
  <2>1. l[i].capability \in Capabilities
    BY <1>2 DEF Entry
  <2>2. Named(l[i].capability) = {i}
    BY <1>7 DEF Consistent
  <2>3. i <= i
    BY <1>2
  <2>4. Latest({i}) = i
    BY <2>3
  <2> QED BY <1>3, <2>1, <2>2, <2>4
<1> QED BY <1>6, <1>7

LEMMA PoliciesType ==
  ASSUME NEW l \in Listings
  PROVE  /\ Policies(l) \in Seq(Policy)
         /\ \A i \in 1..7 : /\ i \in DOMAIN Policies(l)
                            /\ Policies(l)[i] = Cautious(Mappings(l))[i]
<1> DEFINE a == Cautious(Mappings(l))
           b == ReadOnlySql(l)
<1>2. {"other"} \in SUBSET Methods /\ Methods \in SUBSET Methods
  BY DEF Methods
<1>3. {"allow", "hide", "require_approval", "redact"} \subseteq Effects
  BY DEF Effects
<1>4. a \in Seq(Policy) /\ Len(a) = 7
  <2>1. \A s : Where(Mappings(l), s) \in SUBSET Everything
    BY DEF Where, Everything
  <2>2. Generated("allow", {Method}, {"other"}, FALSE, "none") \in Policy
    BY <1>2, <1>3, GeneratedType DEF Everything
  <2>3. \A s, e, o : (/\ e \in {"allow", "hide", "require_approval", "redact"}
                     /\ o \in {"none", "rewrites"}) =>
          Generated(e, Where(Mappings(l), s), Methods, FALSE, o) \in Policy
    BY <1>2, <1>3, <2>1, GeneratedType
  <2>4. PICK p1, p2, p3, p4, p5, p6, p7 \in Policy : a = <<p1, p2, p3, p4, p5, p6, p7>>
    BY <2>2, <2>3 DEF Cautious
  <2> QED BY <2>4
<1>5. b \in Seq(Policy)
  <2>1. PICK n \in Nat : DOMAIN l = 1..n /\ \A i \in 1..n : l[i] \in Entry
    <3>1. l \in Seq(Entry)
      BY ListingAssumption
    <3>2. Len(l) \in Nat /\ DOMAIN l = 1..Len(l) /\ \A i \in 1..Len(l) : l[i] \in Entry
      BY <3>1
    <3> QED BY <3>2
  <2>2. PICK m \in Nat : SqlTools(l) \in [1..m -> 1..n]
    <3>1. ASSUME NEW s \in SUBSET (1..n)
          PROVE  \E m \in Nat : InOrder(s) \in [1..m -> 1..n]
      <4>1. Cardinality(s) \in Nat /\ InOrder(s) \in [1..Cardinality(s) -> s]
        BY InOrderIs
      <4>2. InOrder(s) \in [1..Cardinality(s) -> 1..n]
        BY <4>1
      <4> QED BY <4>1, <4>2
    <3> QED BY <2>1, <3>1 DEF SqlTools
  <2>3. \A k \in 1..m : {l[SqlTools(l)[k]].capability} \in SUBSET Everything
    <3> SUFFICES ASSUME NEW k \in 1..m PROVE {l[SqlTools(l)[k]].capability} \in SUBSET Everything
      OBVIOUS
    <3>1. SqlTools(l)[k] \in 1..n
      BY <2>2
    <3>2. l[SqlTools(l)[k]] \in Entry
      BY <2>1, <3>1
    <3> QED BY <3>2 DEF Entry, Everything
  <2>4. b \in [1..m -> Policy]
    BY <1>2, <1>3, <2>2, <2>3, GeneratedType DEF ReadOnlySql
  <2> QED BY <2>4, SeqDef
<1> HIDE DEF a, b
<1>6. a \o b \in Seq(Policy)
  BY <1>4, <1>5
<1>7. \A i \in 1..7 : i \in DOMAIN (a \o b) /\ (a \o b)[i] = a[i]
  <2>1. a \in Seq(Policy) /\ b \in Seq(Policy) /\ Len(a) = 7 /\ Len(b) \in Nat
    BY <1>4, <1>5
  <2>2. /\ Len(a \o b) = Len(a) + Len(b)
        /\ \A i \in 1..Len(a) + Len(b) :
             (a \o b)[i] = IF i <= Len(a) THEN a[i] ELSE b[i - Len(a)]
    BY <2>1, ConcatProperties
  <2>3. \A i \in 1..7 : i \in 1..Len(a) + Len(b) /\ i <= Len(a)
    BY <2>1
  <2> QED BY <1>6, <2>1, <2>2, <2>3
<1> QED BY <1>6, <1>7 DEF Policies, a, b

LEMMA CautiousIs ==
  ASSUME NEW m
  PROVE  /\ Cautious(m)[3] = Generated("hide", Where(m, {d \in Metadata : d.destructive}),
                                       Methods, FALSE, "none")
         /\ Cautious(m)[4] = Generated("require_approval",
                                       Where(m, {d \in Metadata : d.risk = "critical"}),
                                       Methods, FALSE, "none")
         /\ Cautious(m)[5] = Generated("require_approval",
                                       Where(m, {d \in Metadata : d.risk = "high"}),
                                       Methods, FALSE, "none")
         /\ Cautious(m)[6] = Generated("allow",
                                       Where(m, {d \in Metadata : d.risk = "low" /\ d.access = "read"}),
                                       Methods, FALSE, "none")
         /\ Cautious(m)[7] = Generated("redact", Where(m, {d \in Metadata : d.confidential}),
                                       Methods, FALSE, "rewrites")
<1> DEFINE p1 == Generated("allow", {Method}, {"other"}, FALSE, "none")
           p3 == Generated("hide", Where(m, {d \in Metadata : d.destructive}),
                           Methods, FALSE, "none")
           p4 == Generated("require_approval", Where(m, {d \in Metadata : d.risk = "critical"}),
                           Methods, FALSE, "none")
           p5 == Generated("require_approval", Where(m, {d \in Metadata : d.risk = "high"}),
                           Methods, FALSE, "none")
           p6 == Generated("allow", Where(m, {d \in Metadata : d.risk = "low" /\ d.access = "read"}),
                           Methods, FALSE, "none")
           p7 == Generated("redact", Where(m, {d \in Metadata : d.confidential}),
                           Methods, FALSE, "rewrites")
<1>1. Cautious(m) = <<p1, p1, p3, p4, p5, p6, p7>>
  BY DEF Cautious
<1> HIDE DEF p1, p3, p4, p5, p6, p7
<1>2. /\ Cautious(m)[3] = p3 /\ Cautious(m)[4] = p4 /\ Cautious(m)[5] = p5
      /\ Cautious(m)[6] = p6 /\ Cautious(m)[7] = p7
  BY <1>1
<1> QED BY <1>2 DEF p3, p4, p5, p6, p7

(* A generated policy that covers metadata of some kind matches whatever   *)
(* is asked of an entry that has it.                                       *)
LEMMA CoveredMatches ==
  ASSUME NEW l \in Listings, Consistent(l), NEW i \in DOMAIN l,
         NEW g \in Configuration, g.policies = Policies(l),
         NEW x, x.capability = l[i].capability, x.method \in Methods,
         NEW k \in 1..7, NEW e, NEW s, NEW o, Inferred(l[i]) \in s,
         Cautious(Mappings(l))[k] = Generated(e, Where(Mappings(l), s), Methods, FALSE, o)
  PROVE  k \in Matching(g, x)
<1>1. l[i].capability \in Capabilities
  <2>1. l \in Seq(Entry)
    BY ListingAssumption
  <2>2. l[i] \in Entry
    BY <2>1
  <2> QED BY <2>2 DEF Entry
<1>2. l[i].capability \in Where(Mappings(l), s)
  BY <1>1, MappingsType DEF Where
<1>3. k \in DOMAIN g.policies /\ g.policies[k] = Generated(e, Where(Mappings(l), s), Methods, FALSE, o)
  BY PoliciesType
<1>4. /\ g.policies[k].covers = Where(Mappings(l), s) /\ g.policies[k].methods = Methods
      /\ g.policies[k].when = "always"
  BY <1>3 DEF Generated
<1>5. Matches(g.policies[k], x)
  BY <1>2, <1>4, Unconditional DEF Matches, MatchesStructurally
<1> QED BY <1>3, <1>5 DEF Matching

(* What each entry of a listing is decided by.                             *)
LEMMA EntryIsCovered ==
  ASSUME NEW l \in Listings, Consistent(l), NEW i \in DOMAIN l,
         NEW g \in Configuration, g.policies = Policies(l),
         NEW x, x.capability = l[i].capability, x.method \in Methods
  PROVE  LET m == Inferred(l[i])
         IN  /\ m.destructive => 3 \in Matching(g, x)
             /\ m.risk = "critical" => 4 \in Matching(g, x)
             /\ m.risk = "high" => 5 \in Matching(g, x)
             /\ m.risk = "low" /\ m.access = "read" => 6 \in Matching(g, x)
             /\ m.confidential => 7 \in Matching(g, x)
<1> DEFINE m == Inferred(l[i])
           a == Cautious(Mappings(l))
           s3 == {d \in Metadata : d.destructive}
           s4 == {d \in Metadata : d.risk = "critical"}
           s5 == {d \in Metadata : d.risk = "high"}
           s6 == {d \in Metadata : d.risk = "low" /\ d.access = "read"}
           s7 == {d \in Metadata : d.confidential}
<1>1. m \in Metadata
  <2>1. l \in Seq(Entry)
    BY ListingAssumption
  <2>2. l[i] \in Entry
    BY <2>1
  <2> QED BY <2>2, InferredType
<1>2. /\ m.destructive => m \in s3
      /\ m.risk = "critical" => m \in s4
      /\ m.risk = "high" => m \in s5
      /\ m.risk = "low" /\ m.access = "read" => m \in s6
      /\ m.confidential => m \in s7
  BY <1>1
<1>3. /\ a[3] = Generated("hide", Where(Mappings(l), s3), Methods, FALSE, "none")
      /\ a[4] = Generated("require_approval", Where(Mappings(l), s4), Methods, FALSE, "none")
      /\ a[5] = Generated("require_approval", Where(Mappings(l), s5), Methods, FALSE, "none")
      /\ a[6] = Generated("allow", Where(Mappings(l), s6), Methods, FALSE, "none")
      /\ a[7] = Generated("redact", Where(Mappings(l), s7), Methods, FALSE, "rewrites")
  BY CautiousIs, Zenon
<1> HIDE DEF s3, s4, s5, s6, s7
<1>5. ASSUME NEW k \in 1..7, NEW e, NEW s, NEW o, m \in s,
             a[k] = Generated(e, Where(Mappings(l), s), Methods, FALSE, o)
      PROVE  k \in Matching(g, x)
  BY <1>5, CoveredMatches, Zenon
<1> HIDE DEF a, m
<1>4. /\ m \in s3 => 3 \in Matching(g, x)
      /\ m \in s4 => 4 \in Matching(g, x)
      /\ m \in s5 => 5 \in Matching(g, x)
      /\ m \in s6 => 6 \in Matching(g, x)
      /\ m \in s7 => 7 \in Matching(g, x)
  <2>2. m \in s3 => 3 \in Matching(g, x)
    <3>1. 3 \in 1..7 /\ a[3] = Generated("hide", Where(Mappings(l), s3), Methods, FALSE, "none")
      BY <1>3
    <3> QED BY <1>5, <3>1
  <2>3. m \in s4 => 4 \in Matching(g, x)
    <3>1. 4 \in 1..7 /\ a[4] = Generated("require_approval", Where(Mappings(l), s4), Methods, FALSE, "none")
      BY <1>3
    <3> QED BY <1>5, <3>1
  <2>4. m \in s5 => 5 \in Matching(g, x)
    <3>1. 5 \in 1..7 /\ a[5] = Generated("require_approval", Where(Mappings(l), s5), Methods, FALSE, "none")
      BY <1>3
    <3> QED BY <1>5, <3>1
  <2>5. m \in s6 => 6 \in Matching(g, x)
    <3>1. 6 \in 1..7 /\ a[6] = Generated("allow", Where(Mappings(l), s6), Methods, FALSE, "none")
      BY <1>3
    <3> QED BY <1>5, <3>1
  <2>6. m \in s7 => 7 \in Matching(g, x)
    <3>1. 7 \in 1..7 /\ a[7] = Generated("redact", Where(Mappings(l), s7), Methods, FALSE, "rewrites")
      BY <1>3
    <3> QED BY <1>5, <3>1
  <2> QED BY <2>2, <2>3, <2>4, <2>5, <2>6
<1> QED BY <1>2, <1>4 DEF m

(* What is inferred is never without one of those policies, and asks for   *)
(* an approval policy unless it is taken for a read.                       *)
LEMMA InferenceIsCautious ==
  ASSUME NEW e \in Entry
  PROVE  LET m == Inferred(e)
         IN  /\ m.access = InferAccess(e)
             /\ m.access # "read" => m.risk \in {"critical", "high"}
             /\ m.access = "read" => m.risk = "low" \/ m.confidential
             /\ (e.kind = "tool" /\ e.hint # "readOnly" /\ "destructive" \in e.words) =>
                  m.destructive
             /\ (e.kind = "tool" /\ e.hint = "none" /\ e.described) => m.access # "read"
<1>1. /\ Inferred(e).access = InferAccess(e) /\ Inferred(e).risk = InferRisk(e)
      /\ Inferred(e).destructive <=> InferAccess(e) \in {"delete", "admin"}
      /\ Inferred(e).confidential <=> "confidential" \in Text(e)
  BY DEF Inferred
<1>2. InferAccess(e) # "read" => InferRisk(e) \in {"critical", "high"}
  BY DEF InferRisk
<1>3. InferAccess(e) = "read" => InferRisk(e) = "low" \/ "confidential" \in Text(e)
  BY DEF InferRisk
<1>4. (e.kind = "tool" /\ e.hint # "readOnly" /\ "destructive" \in e.words) =>
        InferAccess(e) = "delete"
  BY DEF InferAccess, Text, Entry
<1>5. (e.kind = "tool" /\ e.hint = "none" /\ e.described) => InferAccess(e) \in {"delete", "execute"}
  BY DEF InferAccess, Text
<1> QED BY <1>1, <1>2, <1>3, <1>4, <1>5

LEMMA InvOnboarded == TypeOK => OnboardedIsGuarded
<1> SUFFICES ASSUME TypeOK, NEW l \in Listings, Consistent(l), NEW i \in DOMAIN l,
                    NEW x \in Calls(l[i].capability)
             PROVE  LET g == Onboarded(config, l)
                        e == l[i]
                        d == Builtin(g, x)
                    IN /\ ~d.implicit
                       /\ e.kind = "tool" /\ InferAccess(e) # "read" =>
                            d.effect \in Denials \cup {"require_approval"}
                       /\ e.kind = "tool" /\ e.hint # "readOnly" /\ "destructive" \in e.words =>
                            /\ d.effect \in Denials
                            /\ Builtin(g, Item(e.capability, x.known)).effect \in Denials
                       /\ e.kind = "tool" /\ e.hint = "none" /\ e.described =>
                            d.effect \in Denials \cup {"require_approval"}
  BY DEF OnboardedIsGuarded
<1> DEFINE g == Onboarded(config, l)
           e == l[i]
           y == Item(e.capability, x.known)
           m == Inferred(e)
<1>1. e \in Entry
  BY ListingAssumption
<1>2. g.policies = Policies(l) /\ g \in Configuration
  <2>1. config \in Configuration
    BY DEF TypeOK
  <2>2. Policies(l) \in Seq(Policy) /\ Mappings(l) \in [Capabilities -> Metadata \cup {Unmapped}]
    BY PoliciesType, MappingsType
  <2> QED BY <2>1, <2>2 DEF Onboarded, Configuration
<1>3. /\ x.capability = e.capability /\ x.method \in Methods
      /\ y.capability = e.capability /\ y.method \in Methods
  BY DEF Calls, Item, Methods
<1> HIDE DEF g, y
<1>4. /\ m.destructive => 3 \in Matching(g, x) \cap Matching(g, y)
      /\ m.risk = "critical" => 4 \in Matching(g, x)
      /\ m.risk = "high" => 5 \in Matching(g, x)
      /\ m.risk = "low" /\ m.access = "read" => 6 \in Matching(g, x)
      /\ m.confidential => 7 \in Matching(g, x)
  BY <1>2, <1>3, EntryIsCovered
<1>5. /\ m.access = InferAccess(e)
      /\ m.access # "read" => m.risk \in {"critical", "high"}
      /\ m.access = "read" => m.risk = "low" \/ m.confidential
      /\ (e.kind = "tool" /\ e.hint # "readOnly" /\ "destructive" \in e.words) => m.destructive
      /\ (e.kind = "tool" /\ e.hint = "none" /\ e.described) => m.access # "read"
  BY <1>1, InferenceIsCautious
<1>6. /\ g.policies[3].effect = "hide"
      /\ g.policies[4].effect = "require_approval" /\ g.policies[5].effect = "require_approval"
  <2>1. \A k \in 3..5 : g.policies[k] = Cautious(Mappings(l))[k]
    BY <1>2, PoliciesType
  <2> QED BY <2>1 DEF Cautious, Generated
<1> HIDE DEF m, e
<1>7. ~Builtin(g, x).implicit
  <2>1. \E j : j \in Matching(g, x)
    BY <1>4, <1>5
  <2> QED BY <1>2, <2>1, Precedence
<1>8. m.access # "read" => Builtin(g, x).effect \in Denials \cup {"require_approval"}
  BY <1>2, <1>4, <1>5, <1>6, Precedence
<1>9. m.destructive => Builtin(g, x).effect \in Denials /\ Builtin(g, y).effect \in Denials
  BY <1>2, <1>4, <1>6, Precedence DEF Denials
<1> QED BY <1>5, <1>7, <1>8, <1>9 DEF g, y, m, e

(* What onboarding generates lets no tool be called without approval       *)
(* unless it is taken for a read, and what it takes for destructive not at *)
(* all, for listings and entries of any number and any base configuration  *)
(* (capabilities/onboarding.py, _generate_policies and its inferences).    *)
THEOREM OnboardingIsCautious == Spec => []OnboardedIsGuarded
BY TypeCorrect, InvOnboarded, PTL
-----------------------------------------------------------------------------
(* Import of client configurations.                                        *)

(* Fewer names are used than there are numbers to try.                     *)
LEMMA SomeNumberIsFree ==
  ASSUME NEW base \in Seq(Nat), NEW used, IsFiniteSet(used)
  PROVE  \E n \in 2..Cardinality(used) + 2 : Append(base, n) \notin used
<1> SUFFICES ASSUME \A n \in 2..Cardinality(used) + 2 : Append(base, n) \in used
             PROVE  FALSE
  OBVIOUS
<1> DEFINE c == Cardinality(used)
           f == [n \in 2..c + 2 |-> Append(base, n)]
<1>1. c \in Nat
  BY FS_CardinalityType
<1>2. f \in [2..c + 2 -> used]
  OBVIOUS
<1>3. IsFiniteSet(2..c + 2) /\ Cardinality(2..c + 2) = c + 1
  <2>1. 2 \in Int /\ c + 2 \in Int /\ ~(2 > c + 2) /\ (c + 2) - 2 + 1 = c + 1
    BY <1>1
  <2> HIDE DEF c
  <2> QED BY <2>1, FS_Interval
<1>4. c < c + 1
  BY <1>1
<1> HIDE DEF f, c
<1>5. \E x, y \in 2..c + 2 : x # y /\ f[x] = f[y]
  BY <1>2, <1>3, <1>4, FS_PigeonHole DEF c
<1>6. PICK x \in 2..c + 2 : \E y \in 2..c + 2 : x # y /\ f[x] = f[y]
  BY <1>5
<1>7. PICK y \in 2..c + 2 : x # y /\ f[x] = f[y]
  BY <1>6
<1>8. x \in Nat /\ y \in Nat
  BY <1>1
<1>9. Append(base, x) = Append(base, y)
  BY <1>7 DEF f
<1>10. Append(base, x)[Len(base) + 1] = x /\ Append(base, y)[Len(base) + 1] = y
  BY <1>8
<1> QED BY <1>7, <1>9, <1>10

LEMMA UniqueNameIsUnused ==
  ASSUME NEW base \in Seq(Nat), NEW used, IsFiniteSet(used)
  PROVE  /\ UniqueLogicalName(base, used) \in Seq(Nat)
         /\ UniqueLogicalName(base, used) \notin used
<1> DEFINE free == {n \in 2..Cardinality(used) + 2 : Append(base, n) \notin used}
           least == CHOOSE n \in free : \A k \in free : n <= k
<1>1. Cardinality(used) \in Nat
  BY FS_CardinalityType
<1>2. free \subseteq Nat /\ free # {}
  BY <1>1, SomeNumberIsFree
<1>3. least \in free
  BY <1>2, LeastNumber
<1>4. least \in Nat /\ Append(base, least) \notin used
  BY <1>1, <1>3
<1>5. Append(base, least) \in Seq(Nat)
  BY <1>4
<1>6. UniqueLogicalName(base, used) = IF base \in used THEN Append(base, least) ELSE base
  BY DEF UniqueLogicalName
<1> HIDE DEF least
<1> QED BY <1>4, <1>5, <1>6

Earlier(f, i) == {f[j] : j \in 1..i - 1}

LEMMA EarlierIsFinite ==
  ASSUME NEW f, NEW i \in Nat
  PROVE  IsFiniteSet(Earlier(f, i))
<1> DEFINE h == [j \in 1..i - 1 |-> f[j]]
<1>1. IsFiniteSet(1..i - 1)
  BY FS_Interval
<1>2. h \in [1..i - 1 -> Earlier(f, i)]
  BY DEF Earlier
<1>3. \A a \in Earlier(f, i) : \E j \in 1..i - 1 : h[j] = a
  BY DEF Earlier
<1>4. h \in Surjection(1..i - 1, Earlier(f, i))
  BY <1>2, <1>3 DEF Surjection
<1> QED BY <1>1, <1>4, FS_Surjection

(* Names can be given one after the other: the recursion has a solution.   *)
LEMMA NamesExist ==
  ASSUME NEW n \in Nat, NEW base \in [1..n -> Seq(Nat)]
  PROVE  \E f \in [1..n -> Seq(Nat)] :
           \A i \in 1..n : f[i] = UniqueLogicalName(base[i], Earlier(f, i))
<1> DEFINE D == 1..n
           rank == [i \in D |-> i]
           step == [i \in D |-> [g \in [D -> Seq(Nat)] |->
                                   UniqueLogicalName(base[i], Earlier(g, i))]]
<1>1. ASSUME NEW i \in D, NEW g \in [D -> Seq(Nat)]
      PROVE  UniqueLogicalName(base[i], Earlier(g, i)) \in Seq(Nat)
  <2>1. base[i] \in Seq(Nat) /\ i \in Nat
    OBVIOUS
  <2> QED BY <2>1, EarlierIsFinite, UniqueNameIsUnused
<1>2. ASSUME NEW i \in D, NEW g \in [D -> Seq(Nat)], NEW h \in [D -> Seq(Nat)],
             \A j \in D : rank[j] < rank[i] => g[j] = h[j]
      PROVE  step[i][g] = step[i][h]
  <2>1. \A j \in 1..i - 1 : g[j] = h[j]
    BY <1>2
  <2>2. Earlier(g, i) = Earlier(h, i)
    BY <2>1 DEF Earlier
  <2> QED BY <2>2
<1>3. Descends(D, Seq(Nat), rank, step)
  <2>1. rank \in [D -> Nat] /\ \A i \in D : rank[i] <= n
    OBVIOUS
  <2>2. step \in [D -> [[D -> Seq(Nat)] -> Seq(Nat)]]
    <3> HIDE DEF D
    <3> QED BY <1>1
  <2>3. <<>> \in Seq(Nat)
    OBVIOUS
  <2> HIDE DEF rank, step, D
  <2> QED BY <1>2, <2>1, <2>2, <2>3 DEF Descends
<1>4. PICK h \in [D -> Seq(Nat)] : h = [i \in D |-> step[i][h]]
  <2> HIDE DEF rank, step, D
  <2> QED BY <1>3, Recursion
<1>5. \A i \in D : h[i] = step[i][h]
  BY <1>4
<1> QED BY <1>5

(* However the names of entries collide, theirs as servers do not.         *)
LEMMA NamesAreUnique ==
  ASSUME NEW l \in Clients
  PROVE  \A i, j \in DOMAIN l : LogicalNames(l)[i] = LogicalNames(l)[j] => i = j
<1>1. PICK n \in Nat : DOMAIN l = 1..n /\ \A i \in 1..n : l[i] \in ClientEntry
  <2>1. l \in Seq(ClientEntry)
    BY ClientAssumption
  <2>2. Len(l) \in Nat /\ DOMAIN l = 1..Len(l) /\ \A i \in 1..Len(l) : l[i] \in ClientEntry
    BY <2>1
  <2> QED BY <2>2
<1> DEFINE base == [i \in 1..n |-> l[i].base]
           Step(f) == [i \in DOMAIN l |-> UniqueLogicalName(l[i].base, Earlier(f, i))]
           names == LogicalNames(l)
<1>2. base \in [1..n -> Seq(Nat)]
  BY <1>1 DEF ClientEntry
<1>3. \E f : f = Step(f)
  <2>1. PICK f \in [1..n -> Seq(Nat)] :
          \A i \in 1..n : f[i] = UniqueLogicalName(base[i], Earlier(f, i))
    BY <1>2, NamesExist, Zenon
  <2>2. f = [i \in 1..n |-> f[i]]
    BY <2>1
  <2>3. \A i \in 1..n : f[i] = UniqueLogicalName(l[i].base, Earlier(f, i))
    BY <2>1
  <2>4. f = Step(f)
    BY <1>1, <2>2, <2>3
  <2> QED BY <2>4
<1>4. names = CHOOSE f : f = Step(f)
  BY DEF LogicalNames, Earlier
<1> HIDE DEF Step, names
<1>5. names = Step(names)
  BY <1>3, <1>4
<1>6. \A i \in 1..n : names[i] = UniqueLogicalName(l[i].base, Earlier(names, i))
  BY <1>1, <1>5 DEF Step
<1>7. \A i \in 1..n : names[i] \notin Earlier(names, i)
  <2> SUFFICES ASSUME NEW i \in 1..n PROVE names[i] \notin Earlier(names, i)
    OBVIOUS
  <2>1. l[i].base \in Seq(Nat) /\ i \in Nat
    BY <1>1 DEF ClientEntry
  <2>2. IsFiniteSet(Earlier(names, i))
    BY <2>1, EarlierIsFinite
  <2> QED BY <1>6, <2>1, <2>2, UniqueNameIsUnused
<1>8. \A i, j \in 1..n : j < i => names[j] # names[i]
  <2> SUFFICES ASSUME NEW i \in 1..n, NEW j \in 1..n, j < i PROVE names[j] # names[i]
    OBVIOUS
  <2>1. j \in 1..i - 1
    OBVIOUS
  <2>2. names[j] \in Earlier(names, i)
    BY <2>1 DEF Earlier
  <2> QED BY <1>7, <2>2
<1>9. \A i, j \in 1..n : i = j \/ i < j \/ j < i
  OBVIOUS
<1> QED BY <1>1, <1>8, <1>9 DEF names

LEMMA ImportIsRouted ==
  ASSUME NEW l \in Clients, NEW i \in DOMAIN Import(l).clients
  PROVE  LET r == Import(l)
             c == r.clients[i]
         IN /\ r.mode = "stdio" => c.transport = "stdio"
            /\ {s.target : s \in Reached(r, c)} = {i}
            /\ \A j \in DOMAIN r.servers : r.servers[j].name = c.name => j = i
            /\ ~c.headers
            /\ \A s \in Reached(r, c) :
                 /\ s.headers = l[i].headers
                 /\ ChildEnvironment(s, c) = IF l[i].env = "blank" THEN "refused" ELSE l[i].env
<1> DEFINE r == Import(l)
           names == LogicalNames(l)
           e == l[i]
           server(j) == Upstream(names[j], l[j], j)
           client(j) == Wrapped(names[j], l[j])
<1>1. DOMAIN Refusal.clients = {}
  BY DEF Refusal
<1>2. /\ l # <<>> /\ \A j \in DOMAIN l : Valid(l[j])
      /\ r = [servers |-> [j \in DOMAIN l |-> server(j)],
              clients |-> [j \in DOMAIN l |-> client(j)],
              mode |-> RuntimeMode([j \in DOMAIN l |-> server(j)])]
  BY <1>1 DEF Import
<1> HIDE DEF names, r
<1>3. /\ DOMAIN r.servers = DOMAIN l /\ \A j \in DOMAIN l : r.servers[j] = server(j)
      /\ DOMAIN r.clients = DOMAIN l /\ \A j \in DOMAIN l : r.clients[j] = client(j)
      /\ r.mode = RuntimeMode(r.servers)
  BY <1>2
<1>4. i \in DOMAIN l /\ Valid(e) /\ e \in ClientEntry
  <2>1. i \in DOMAIN l
    BY <1>3 DEF r
  <2>2. l \in Seq(ClientEntry)
    BY ClientAssumption
  <2> QED BY <1>2, <2>1, <2>2
<1>5. \A j \in DOMAIN l : /\ server(j).name = names[j] /\ server(j).target = j
                          /\ server(j).transport = IF IsHttp(l[j]) THEN "http" ELSE "stdio"
  BY DEF Upstream
<1>6. /\ client(i).name = names[i] /\ ~client(i).headers /\ client(i).env = e.env
      /\ client(i).transport = server(i).transport
  BY <1>4, <1>5 DEF Wrapped
<1>7. \A j \in DOMAIN l : server(j).name = names[i] => j = i
  BY <1>4, <1>5, NamesAreUnique DEF names
<1>8. /\ server(i).headers = e.headers
      /\ server(i).refers <=> ~IsHttp(e) /\ e.env \in {"set", "blank"}
      /\ IsHttp(e) => e.env = "none"
  BY <1>4 DEF Upstream, Valid, ClientEntry
<1>9. Reached(r, client(i)) = {server(i)}
  <2> HIDE DEF server, client
  <2>1. \A j \in DOMAIN l : server(j).name = client(i).name => j = i
    BY <1>6, <1>7
  <2>2. server(i).name = client(i).name /\ server(i).transport = client(i).transport
    BY <1>4, <1>5, <1>6
  <2>3. {r.servers[j] : j \in DOMAIN r.servers} = {server(j) : j \in DOMAIN l}
    BY <1>3
  <2> QED BY <1>4, <2>1, <2>2, <2>3 DEF Reached
<1>10. r.mode = "stdio" => client(i).transport = "stdio"
  <2> HIDE DEF server, client
  <2>1. r.mode = "stdio" => r.servers[i].transport = "stdio"
    BY <1>3, <1>4 DEF RuntimeMode
  <2> QED BY <1>3, <1>4, <1>6, <2>1
<1>11. ChildEnvironment(server(i), client(i)) = IF e.env = "blank" THEN "refused" ELSE e.env
  <2> HIDE DEF server, client, e
  <2> QED BY <1>6, <1>8 DEF ChildEnvironment
<1> HIDE DEF server, client
<1>12. {s.target : s \in Reached(r, client(i))} = {i}
  BY <1>4, <1>5, <1>9
<1> QED BY <1>3, <1>4, <1>6, <1>7, <1>8, <1>9, <1>10, <1>11, <1>12 DEF r

(* Until they are reviewed, the policies of an import ask about tools and  *)
(* let the rest through.                                                   *)
LEMMA DefaultsApply ==
  ASSUME NEW g \in Configuration, NEW kindOf \in [Capabilities -> {"tool", "resource", "prompt"}],
         g.policies = DefaultImportPolicies(kindOf),
         NEW x, x.capability \in Capabilities, x.method \in Methods
  PROVE  Builtin(g, x).effect = IF kindOf[x.capability] = "tool" THEN "require_approval" ELSE "allow"
<1> DEFINE Of(kind) == {c \in Capabilities : kindOf[c] = kind}
           p1 == Generated("allow", {Method}, {"other"}, FALSE, "none")
           p3 == Generated("require_approval", Of("tool"), Methods, FALSE, "none")
           p4 == Generated("allow", Of("resource"), Methods, FALSE, "none")
           p5 == Generated("allow", Of("prompt"), Methods, FALSE, "none")
           c == x.capability
<1>1. g.policies = <<p1, p1, p3, p4, p5>>
  BY DEF DefaultImportPolicies
<1>2. /\ p1.covers = {Method} /\ p3.covers = Of("tool") /\ p4.covers = Of("resource")
      /\ p5.covers = Of("prompt")
      /\ p3.effect = "require_approval" /\ p4.effect = "allow" /\ p5.effect = "allow"
      /\ \A p \in {p3, p4, p5} : p.methods = Methods /\ p.when = "always" /\ ~p.checked
  BY DEF Generated
<1> HIDE DEF p1, p3, p4, p5
<1>3. /\ DOMAIN g.policies = 1..5
      /\ g.policies[1] = p1 /\ g.policies[2] = p1 /\ g.policies[3] = p3
      /\ g.policies[4] = p4 /\ g.policies[5] = p5
  BY <1>1
<1>4. ~Matches(p1, x)
  BY <1>2 DEF Matches, MatchesStructurally
<1>5. /\ Matches(p3, x) <=> kindOf[c] = "tool"
      /\ Matches(p4, x) <=> kindOf[c] = "resource"
      /\ Matches(p5, x) <=> kindOf[c] = "prompt"
  BY <1>2, Unconditional DEF Matches, MatchesStructurally
<1>6. kindOf[c] \in {"tool", "resource", "prompt"}
  OBVIOUS
<1> HIDE DEF c
<1>7. Matching(g, x) = IF kindOf[c] = "tool" THEN {3} ELSE IF kindOf[c] = "resource" THEN {4} ELSE {5}
  <2>1. \A k \in 1..5 : k = 1 \/ k = 2 \/ k = 3 \/ k = 4 \/ k = 5
    OBVIOUS
  <2> QED BY <1>3, <1>4, <1>5, <1>6, <2>1 DEF Matching
<1>8. Matching(g, x) # {} /\ Selected(g, Matching(g, x)) \in Matching(g, x)
  <2>1. Matching(g, x) # {} /\ Matching(g, x) \subseteq DOMAIN g.policies
    BY <1>7 DEF Matching
  <2> QED BY <2>1, SelectedIsFirst
<1> DEFINE k == Selected(g, Matching(g, x))
<1> HIDE DEF k
<1>9. k = IF kindOf[c] = "tool" THEN 3 ELSE IF kindOf[c] = "resource" THEN 4 ELSE 5
  BY <1>7, <1>8 DEF k
<1>10. /\ g.policies[k].effect = IF kindOf[c] = "tool" THEN "require_approval" ELSE "allow"
       /\ ~g.policies[k].checked
  BY <1>2, <1>3, <1>9
<1>11. Builtin(g, x).effect = g.policies[k].effect
  BY <1>8, <1>10 DEF Builtin, ChecksFail, k
<1> QED BY <1>10, <1>11 DEF c

LEMMA InvImported == TypeOK => ImportedServersRun
<1> SUFFICES ASSUME TypeOK
             PROVE  \A kindOf \in [Capabilities -> {"tool", "resource", "prompt"}] :
                      LET g == [config EXCEPT !.policies = DefaultImportPolicies(kindOf)]
                      IN \A c \in Capabilities : \A x \in Calls(c) :
                           /\ Listed(Builtin(g, Item(c, x.known)))
                           /\ Builtin(g, x).effect =
                                IF kindOf[c] = "tool" THEN "require_approval" ELSE "allow"
  BY ImportIsRouted, Zenon DEF ImportedServersRun
<1> SUFFICES ASSUME NEW kindOf \in [Capabilities -> {"tool", "resource", "prompt"}],
                    NEW c \in Capabilities, NEW x \in Calls(c)
             PROVE  LET g == [config EXCEPT !.policies = DefaultImportPolicies(kindOf)]
                    IN /\ Listed(Builtin(g, Item(c, x.known)))
                       /\ Builtin(g, x).effect =
                            IF kindOf[c] = "tool" THEN "require_approval" ELSE "allow"
  OBVIOUS
<1> DEFINE g == [config EXCEPT !.policies = DefaultImportPolicies(kindOf)]
<1>1. config \in Configuration
  BY DEF TypeOK
<1>2. DefaultImportPolicies(kindOf) \in Seq(Policy)
  <2> DEFINE Of(kind) == {a \in Capabilities : kindOf[a] = kind}
  <2>1. \A kind : Of(kind) \in SUBSET Everything
    BY DEF Everything
  <2>2. {"other"} \in SUBSET Methods /\ Methods \in SUBSET Methods
    BY DEF Methods
  <2>3. "allow" \in Effects /\ "require_approval" \in Effects
    BY DEF Effects
  <2>4. Generated("allow", {Method}, {"other"}, FALSE, "none") \in Policy
    BY <2>2, <2>3, GeneratedType DEF Everything
  <2>5. \A kind : /\ Generated("allow", Of(kind), Methods, FALSE, "none") \in Policy
                  /\ Generated("require_approval", Of(kind), Methods, FALSE, "none") \in Policy
    BY <2>1, <2>2, <2>3, GeneratedType
  <2>6. PICK p1, p2, p3, p4, p5 \in Policy :
          DefaultImportPolicies(kindOf) = <<p1, p2, p3, p4, p5>>
    BY <2>4, <2>5 DEF DefaultImportPolicies
  <2> QED BY <2>6
<1>3. g \in Configuration /\ g.policies = DefaultImportPolicies(kindOf)
  BY <1>1, <1>2 DEF Configuration
<1> HIDE DEF g
<1>4. /\ Item(c, x.known).capability = c /\ Item(c, x.known).method \in Methods
      /\ x.capability = c /\ x.method \in Methods
  BY DEF Item, Calls, Methods
<1>5. /\ Builtin(g, Item(c, x.known)).effect =
           IF kindOf[c] = "tool" THEN "require_approval" ELSE "allow"
      /\ Builtin(g, x).effect =
           IF kindOf[c] = "tool" THEN "require_approval" ELSE "allow"
  BY <1>3, <1>4, DefaultsApply
<1>6. Listed(Builtin(g, Item(c, x.known)))
  BY <1>5 DEF Listed, Denials
<1> QED BY <1>5, <1>6 DEF g

(* An imported configuration works, for client configurations of any       *)
(* length and names that collide in any way: every entry reaches the       *)
(* server it was about and no other, with its credentials and variables,   *)
(* and the default policies ask about tools only (client_import.py).       *)
THEOREM ImportWorks == Spec => []ImportedServersRun
BY TypeCorrect, InvImported, PTL
-----------------------------------------------------------------------------
(* The descent through nested arguments.                                   *)

LEMMA FieldType ==
  ASSUME NEW f \in Fields
  PROVE  /\ f \in Seq(Range(f)) /\ Len(f) \in Nat /\ Len(f) # 0
         /\ DOMAIN f = 1..Len(f)
BY FieldAssumption

LEMMA FrontOfField ==
  ASSUME NEW f \in Fields
  PROVE  /\ Len(Front(f)) = Len(f) - 1
         /\ \A i \in 1..Len(f) - 1 : Front(f)[i] = f[i]
         /\ Len(f) = 1 => Front(f) = <<>>
<1>1. f \in Seq(Range(f)) /\ Len(f) \in Nat /\ Len(f) # 0
  BY FieldType
<1>2. Front(f) = SubSeq(f, 1, Len(f) - 1)
  BY DEF Front
<1> DEFINE n == Len(f) - 1
           S == Range(f)
<1>3. n \in Nat /\ n - 1 + 1 = n /\ \A i \in 1..n : f[i] \in S
  BY <1>1
<1> HIDE DEF n, S
<1>4. /\ Len(SubSeq(f, 1, n)) = IF 1 <= n THEN n - 1 + 1 ELSE 0
      /\ \A i \in 1..n - 1 + 1 : SubSeq(f, 1, n)[i] = f[1 + i - 1]
  BY <1>3, SubSeqProperties
<1>5. Len(SubSeq(f, 1, n)) = n
  BY <1>3, <1>4
<1>6. \A i \in 1..n : SubSeq(f, 1, n)[i] = f[i]
  BY <1>3, <1>4
<1>7. n = 0 => SubSeq(f, 1, n) = <<>>
  BY SubSeqEmpty
<1>8. Len(f) = 1 => n = 0
  BY DEF n
<1> QED BY <1>2, <1>5, <1>6, <1>7, <1>8 DEF n

(* How deep finite arguments can be nested.                                *)
LEMMA DepthIsBounded ==
  ASSUME NEW x \in Arguments
  PROVE  \E n \in Nat : \A f \in DOMAIN x.at : Len(f) <= n
<1> DEFINE n == Cardinality(DOMAIN x.at)
<1>1. IsFiniteSet(DOMAIN x.at) /\ DOMAIN x.at \subseteq Fields
  BY ArgumentAssumption
<1>2. n \in Nat
  BY <1>1, FS_CardinalityType
<1>3. ASSUME NEW f \in DOMAIN x.at
      PROVE  Len(f) <= n
  <2> DEFINE h == [i \in 1..Len(f) |-> SubSeq(f, 1, i)]
  <2>1. f \in Seq(Range(f)) /\ Len(f) \in Nat
    BY <1>1, FieldType
  <2>2. \A i \in 1..Len(f) : SubSeq(f, 1, i) \in DOMAIN x.at /\ Len(SubSeq(f, 1, i)) = i
    <3> SUFFICES ASSUME NEW i \in 1..Len(f)
                 PROVE  SubSeq(f, 1, i) \in DOMAIN x.at /\ Len(SubSeq(f, 1, i)) = i
      OBVIOUS
    <3>1. Len(SubSeq(f, 1, i)) = i
      BY <2>1
    <3>2. CASE i = Len(f)
      <4>1. SubSeq(f, 1, Len(f)) = f
        BY <2>1
      <4> QED BY <3>1, <3>2, <4>1
    <3>3. CASE i # Len(f)
      <4>1. i \in 1..Len(f) - 1
        BY <2>1, <3>3
      <4> QED BY <3>1, <4>1, ArgumentAssumption
    <3> QED BY <3>2, <3>3
  <2>3. h \in [1..Len(f) -> DOMAIN x.at]
    BY <2>2
  <2>4. \A i, j \in 1..Len(f) : h[i] = h[j] => i = j
    <3> SUFFICES ASSUME NEW i \in 1..Len(f), NEW j \in 1..Len(f), h[i] = h[j] PROVE i = j
      OBVIOUS
    <3>1. Len(h[i]) = i /\ Len(h[j]) = j
      BY <2>2
    <3> QED BY <3>1
  <2> HIDE DEF h
  <2>5. h \in Injection(1..Len(f), DOMAIN x.at)
    <3>1. DOMAIN h = 1..Len(f)
      BY <2>3
    <3>2. IsInjective(h)
      BY <2>4, <3>1, Zenon DEF IsInjective
    <3> QED BY <2>3, <3>2, Zenon DEF Injection
  <2>6. Cardinality(1..Len(f)) = Len(f)
    BY <2>1, NumbersUpTo
  <2> QED BY <1>1, <2>5, <2>6, FS_Injection
<1> QED BY <1>2, <1>3

Places(x) == {<<>>} \cup DOMAIN x.at

Children(x, f) == {k \in DOMAIN x.at : Front(k) = f}

\* What a field adds to what is disallowed, if below says what does below it.
Adds(below, k, allowed) ==
  IF IsAllowedLeaf(k, allowed) THEN {}
  ELSE IF IsAllowedAncestor(k, allowed) THEN below[k] ELSE {k}

Found(below, f, x, allowed) ==
  IF f # <<>> /\ x.at[f] # "object" THEN {f}
  ELSE UNION {Adds(below, k, allowed) : k \in Children(x, f)}

LEMMA ChildIsLonger ==
  ASSUME NEW x \in Arguments, NEW f \in Places(x), NEW k \in Children(x, f)
  PROVE  /\ k \in DOMAIN x.at /\ Len(k) = Len(f) + 1
         /\ Len(f) \in Nat
<1>1. k \in DOMAIN x.at /\ k \in Fields /\ Front(k) = f
  BY ArgumentAssumption DEF Children
<1>2. Len(k) \in Nat /\ Len(k) # 0 /\ Len(f) = Len(k) - 1
  BY <1>1, FieldType, FrontOfField
<1> QED BY <1>1, <1>2

(* What is found is found from below: only what is added matters.          *)
LEMMA FoundFromBelow ==
  ASSUME NEW x, NEW f, NEW allowed, NEW g, NEW h,
         \A k \in Children(x, f) : g[k] = h[k]
  PROVE  Found(g, f, x, allowed) = Found(h, f, x, allowed)
<1>1. \A k \in Children(x, f) : Adds(g, k, allowed) = Adds(h, k, allowed)
  BY DEF Adds
<1>2. {Adds(g, k, allowed) : k \in Children(x, f)} = {Adds(h, k, allowed) : k \in Children(x, f)}
  BY <1>1
<1> QED BY <1>2 DEF Found

(* The recursion has a solution, as the depth of fields is bounded.        *)
LEMMA DescentExists ==
  ASSUME NEW x \in Arguments, NEW allowed
  PROVE  \E h : h = [f \in Places(x) |-> Found(h, f, x, allowed)]
<1> DEFINE D == Places(x)
           V == SUBSET D
<1>1. PICK n \in Nat : \A f \in D : Len(f) \in Nat /\ Len(f) <= n
  <2>1. PICK n \in Nat : \A f \in DOMAIN x.at : Len(f) <= n
    BY DepthIsBounded
  <2>2. \A f \in DOMAIN x.at : f \in Fields
    BY ArgumentAssumption
  <2>3. Len(<<>>) = 0
    OBVIOUS
  <2> QED BY <2>1, <2>2, <2>3, FieldType DEF Places
<1> DEFINE rank == [f \in D |-> n - Len(f)]
           step == [f \in D |-> [g \in [D -> V] |-> Found(g, f, x, allowed)]]
<1>2. ASSUME NEW f \in D, NEW k \in Children(x, f)
      PROVE  k \in D /\ rank[k] < rank[f]
  <2>1. k \in D /\ Len(k) = Len(f) + 1
    BY ChildIsLonger DEF Places
  <2> QED BY <1>1, <2>1
<1>3. ASSUME NEW f \in D, NEW g \in [D -> V]
      PROVE  Found(g, f, x, allowed) \in V
  <2>1. \A k \in Children(x, f) : Adds(g, k, allowed) \subseteq D
    BY <1>2 DEF Adds
  <2> QED BY <2>1 DEF Found
<1>4. ASSUME NEW f \in D, NEW g \in [D -> V], NEW h \in [D -> V],
             \A j \in D : rank[j] < rank[f] => g[j] = h[j]
      PROVE  step[f][g] = step[f][h]
  <2>1. \A k \in Children(x, f) : g[k] = h[k]
    BY <1>2, <1>4
  <2>2. Found(g, f, x, allowed) = Found(h, f, x, allowed)
    BY <2>1, FoundFromBelow
  <2> QED BY <2>2
<1>5. Descends(D, V, rank, step)
  <2>1. rank \in [D -> Nat] /\ \A f \in D : rank[f] <= n
    <3> HIDE DEF D
    <3> QED BY <1>1
  <2>2. step \in [D -> [[D -> V] -> V]]
    <3> HIDE DEF D, V
    <3> QED BY <1>3
  <2>3. V # {}
    OBVIOUS
  <2> HIDE DEF rank, step, D, V
  <2> QED BY <1>4, <2>1, <2>2, <2>3 DEF Descends
<1>6. PICK h \in [D -> V] : h = [f \in D |-> step[f][h]]
  <2> HIDE DEF rank, step, D, V
  <2> QED BY <1>5, Recursion
<1>7. h = [f \in D |-> Found(h, f, x, allowed)]
  BY <1>6
<1> QED BY <1>7

LEMMA PrefixIs ==
  ASSUME NEW a \in Fields, NEW f \in Fields
  PROVE  IsPrefix(a, f) <=> Len(a) <= Len(f) /\ a = SubSeq(f, 1, Len(a))
<1>1. a \in Seq(Range(a)) /\ Len(a) \in Nat
  BY FieldType
<1>2. SubSeq(a, 1, Len(a)) = a
  BY <1>1
<1> QED BY <1>2 DEF IsPrefix

\* What a field's parent is below of, the field is below of.
LEMMA LeafBelowLeaf ==
  ASSUME NEW f \in Fields, Front(f) \in Fields, NEW allowed \in SUBSET Fields,
         IsAllowedLeaf(Front(f), allowed)
  PROVE  IsAllowedLeaf(f, allowed)
<1> DEFINE g == Front(f)
<1>1. PICK a \in allowed : IsPrefix(a, g)
  BY DEF IsAllowedLeaf
<1>2. Len(a) \in Nat /\ Len(f) \in Nat /\ f \in Seq(Range(f)) /\ g \in Seq(Range(g))
      /\ a \in Seq(Range(a))
  BY FieldType
<1>3. Len(g) = Len(f) - 1 /\ \A i \in 1..Len(f) - 1 : g[i] = f[i]
  BY FrontOfField
<1>4. Len(a) <= Len(g) /\ a = SubSeq(g, 1, Len(a))
  BY <1>1, PrefixIs
<1>5. \A i \in 1..Len(a) : i \in 1..Len(g) /\ i \in 1..Len(f)
  BY <1>2, <1>3, <1>4
<1> HIDE DEF g
<1>6. \A i \in 1..Len(a) : a[i] = g[i] /\ g[i] = f[i]
  <2> SUFFICES ASSUME NEW i \in 1..Len(a) PROVE a[i] = g[i] /\ g[i] = f[i]
    OBVIOUS
  <2>1. SubSeq(g, 1, Len(a))[i] = g[i]
    BY <1>2, <1>4, <1>5
  <2> QED BY <1>2, <1>3, <1>4, <1>5, <2>1
<1>7. SubSeq(f, 1, Len(a)) = [i \in 1..Len(a) |-> f[i]]
  BY <1>2, <1>3, <1>4
<1>8. a = [i \in 1..Len(a) |-> a[i]]
  BY <1>2
<1>9. a = SubSeq(f, 1, Len(a)) /\ Len(a) <= Len(f)
  BY <1>2, <1>3, <1>4, <1>6, <1>7, <1>8
<1> QED BY <1>9, PrefixIs DEF IsAllowedLeaf

\* A field that need not be reported.
Permitted(x, f, allowed) ==
  \/ IsAllowedLeaf(f, allowed)
  \/ IsAllowedAncestor(f, allowed) /\ x.at[f] = "object"

(* Whatever solves the recursion reports a field exactly if some field, at *)
(* whatever depth, is not permitted.                                       *)
LEMMA DescentSeesAll ==
  ASSUME NEW x \in Arguments, NEW allowed \in SUBSET Fields,
         NEW h, h = [f \in Places(x) |-> Found(h, f, x, allowed)]
  PROVE  h[<<>>] = {} <=> \A f \in DOMAIN x.at : Permitted(x, f, allowed)
<1>1. \A f \in Places(x) : h[f] = Found(h, f, x, allowed)
  BY Zenon
<1>2. PICK n \in Nat : \A f \in DOMAIN x.at : Len(f) <= n
  BY DepthIsBounded
<1>3. /\ DOMAIN x.at \subseteq Fields
      /\ \A f \in DOMAIN x.at : Len(f) > 1 => Front(f) \in DOMAIN x.at /\ x.at[Front(f)] = "object"
  <2>1. DOMAIN x.at \subseteq Fields
    BY ArgumentAssumption
  <2>2. ASSUME NEW f \in DOMAIN x.at, Len(f) > 1
        PROVE  Front(f) \in DOMAIN x.at /\ x.at[Front(f)] = "object"
    <3>1. Len(f) - 1 \in 1..Len(f) - 1
      BY <2>1, <2>2, FieldType
    <3> QED BY <2>2, <3>1, ArgumentAssumption DEF Front
  <2> QED BY <2>1, <2>2
<1>4. \A f \in Places(x) : Len(f) \in Nat /\ Len(f) <= n
  <2>1. Len(<<>>) = 0
    OBVIOUS
  <2> QED BY <1>2, <1>3, <2>1, FieldType DEF Places
<1> DEFINE Unread(f) == f = <<>> \/ x.at[f] = "object"
<1>5. ASSUME \A f \in DOMAIN x.at : Permitted(x, f, allowed)
      PROVE  h[<<>>] = {}
  <2> DEFINE S == {f \in Places(x) : Unread(f) /\ h[f] # {}}
             T == {n - Len(f) : f \in S}
  <2> SUFFICES ASSUME h[<<>>] # {} PROVE FALSE
    OBVIOUS
  <2>1. <<>> \in S
    BY DEF Places
  <2>2. T \subseteq Nat /\ T # {}
    BY <1>4, <2>1
  <2>3. PICK t \in T : \A u \in T : t <= u
    BY <2>2, LeastNumber
  <2>4. PICK f \in S : t = n - Len(f)
    OBVIOUS
  <2>5. h[f] = UNION {Adds(h, k, allowed) : k \in Children(x, f)}
    BY <1>1, <2>4 DEF Found
  <2>6. PICK k \in Children(x, f) : Adds(h, k, allowed) # {}
    BY <2>4, <2>5
  <2>7. k \in DOMAIN x.at /\ k \in Places(x) /\ Len(k) = Len(f) + 1
    BY <2>4, ChildIsLonger DEF Places
  <2>8. k \in S
    BY <1>5, <2>6, <2>7 DEF Adds, Permitted
  <2>9. n - Len(f) <= n - Len(k)
    BY <2>3, <2>4, <2>8
  <2> QED BY <1>4, <2>4, <2>7, <2>9
<1>6. ASSUME NEW f \in DOMAIN x.at, ~Permitted(x, f, allowed)
      PROVE  h[<<>>] # {}
  <2> DEFINE S == {k \in DOMAIN x.at : ~IsAllowedLeaf(k, allowed) /\ Adds(h, k, allowed) # {}}
             T == {Len(k) : k \in S}
  <2>1. Adds(h, f, allowed) # {}
    <3>1. CASE IsAllowedAncestor(f, allowed)
      <4>1. f # <<>> /\ x.at[f] # "object" /\ f \in Places(x)
        BY <1>3, <1>6, <3>1, FieldAssumption DEF Permitted, Places
      <4>2. h[f] = {f}
        BY <1>1, <4>1 DEF Found
      <4> QED BY <1>6, <3>1, <4>2 DEF Adds, Permitted
    <3>2. CASE ~IsAllowedAncestor(f, allowed)
      BY <1>6, <3>2 DEF Adds, Permitted
    <3> QED BY <3>1, <3>2
  <2>2. f \in S
    BY <1>6, <2>1 DEF Permitted
  <2>3. T \subseteq Nat /\ T # {}
    BY <1>4, <2>2 DEF Places
  <2>4. PICK t \in T : \A u \in T : t <= u
    BY <2>3, LeastNumber
  <2>5. PICK k \in S : t = Len(k)
    OBVIOUS
  <2>6. k \in DOMAIN x.at /\ k \in Fields /\ Len(k) \in Nat /\ Len(k) # 0
    BY <1>3, <2>5, FieldType
  <2>12. \A i \in Nat : i = 0 \/ i = 1 \/ i > 1
    OBVIOUS
  <2>11. Len(k) = 1 \/ Len(k) > 1
    BY <2>6, <2>12, Zenon
  <2>7. Unread(Front(k)) /\ Front(k) \in Places(x)
    <3>1. Len(k) = 1 => Front(k) = <<>>
      BY <2>6, FrontOfField
    <3>2. CASE Len(k) = 1
      BY <3>1, <3>2 DEF Places
    <3>3. CASE Len(k) > 1
      BY <1>3, <2>6, <3>3 DEF Places
    <3> QED BY <2>11, <3>2, <3>3
  <2>8. h[Front(k)] # {}
    <3>1. h[Front(k)] = UNION {Adds(h, j, allowed) : j \in Children(x, Front(k))}
      BY <1>1, <2>7 DEF Found
    <3>2. k \in Children(x, Front(k))
      BY <2>6 DEF Children
    <3>3. PICK z : z \in Adds(h, k, allowed)
      BY <2>5
    <3>4. z \in UNION {Adds(h, j, allowed) : j \in Children(x, Front(k))}
      BY <3>2, <3>3
    <3> QED BY <3>1, <3>4
  <2>9. CASE Len(k) = 1
    <3>1. Front(k) = <<>>
      BY <2>6, <2>9, FrontOfField
    <3> QED BY <2>8, <3>1
  <2>10. CASE Len(k) > 1
    <3>1. Front(k) \in DOMAIN x.at /\ Front(k) \in Fields
      BY <1>3, <2>6, <2>10
    <3>2. ~IsAllowedLeaf(Front(k), allowed)
      BY <2>5, <2>6, <3>1, LeafBelowLeaf
    <3>3. Adds(h, Front(k), allowed) # {}
      BY <2>8, <3>2 DEF Adds
    <3>4. Len(Front(k)) \in T
      BY <3>1, <3>2, <3>3
    <3>5. Len(Front(k)) = Len(k) - 1
      BY <2>6, FrontOfField
    <3>6. Len(k) <= Len(k) - 1
      BY <2>4, <2>5, <3>4, <3>5
    <3> QED BY <2>6, <3>6
  <2> QED BY <2>9, <2>10, <2>11
<1> QED BY <1>5, <1>6

LEMMA DisallowedIsExact ==
  ASSUME NEW x \in Arguments, NEW allowed \in SUBSET Fields
  PROVE  Disallowed(x, allowed) = {} <=>
           (allowed # {} => \A f \in DOMAIN x.at : Permitted(x, f, allowed))
<1> DEFINE Step(b) == [f \in Places(x) |-> Found(b, f, x, allowed)]
           below == CHOOSE b : b = Step(b)
<1>1. Disallowed(x, allowed) = IF allowed = {} THEN {} ELSE below[<<>>]
  BY DEF Disallowed, Places, Found, Adds, Children
<1>2. \E b : b = Step(b)
  BY DescentExists
<1> HIDE DEF Step
<1>3. below = Step(below)
  BY <1>2
<1> HIDE DEF below
<1>4. below[<<>>] = {} <=> \A f \in DOMAIN x.at : Permitted(x, f, allowed)
  BY <1>3, DescentSeesAll DEF Step
<1> QED BY <1>1, <1>4

\* Permission, in the words of the property.
Allows(a, x, f) ==
  IF Len(a) <= Len(f) THEN a = SubSeq(f, 1, Len(a))
  ELSE f = SubSeq(a, 1, Len(f)) /\ x.at[f] = "object"

LEMMA PermittedIs ==
  ASSUME NEW x, NEW f \in Fields, NEW allowed \in SUBSET Fields
  PROVE  Permitted(x, f, allowed) <=> \E a \in allowed : Allows(a, x, f)
<1>1. ASSUME NEW a \in allowed
      PROVE  Allows(a, x, f) <=> IsPrefix(a, f) \/ (IsStrictPrefix(f, a) /\ x.at[f] = "object")
  <2>1. a \in Fields /\ a \in Seq(Range(a)) /\ Len(a) \in Nat
        /\ f \in Seq(Range(f)) /\ Len(f) \in Nat
    BY FieldType
  <2>2. /\ IsPrefix(a, f) <=> Len(a) <= Len(f) /\ a = SubSeq(f, 1, Len(a))
        /\ IsPrefix(f, a) <=> Len(f) <= Len(a) /\ f = SubSeq(a, 1, Len(f))
    BY <2>1, PrefixIs
  <2>3. CASE Len(a) <= Len(f)
    <3>1. IsPrefix(f, a) => f = a
      <4> SUFFICES ASSUME IsPrefix(f, a) PROVE f = a
        OBVIOUS
      <4>1. Len(f) = Len(a) /\ f = SubSeq(a, 1, Len(f))
        BY <2>1, <2>2, <2>3
      <4>2. SubSeq(a, 1, Len(a)) = a
        BY <2>1
      <4> QED BY <4>1, <4>2
    <3> QED BY <2>2, <2>3, <3>1 DEF Allows, IsStrictPrefix
  <2>4. CASE ~(Len(a) <= Len(f))
    <3>1. f # a /\ Len(f) <= Len(a)
      BY <2>1, <2>4
    <3> QED BY <2>2, <2>4, <3>1 DEF Allows, IsStrictPrefix
  <2> QED BY <2>3, <2>4
<1> QED BY <1>1 DEF Permitted, IsAllowedLeaf, IsAllowedAncestor

LEMMA InvArguments == TypeOK => ArgumentsAreChecked
<1>1. ASSUME NEW x \in Arguments, NEW p \in Inputs
      PROVE  Admitted(x, p, <<>>) <=>
               \A f \in Fields :
                 /\ f \in p.required => f \in DOMAIN x.at
                 /\ f \in DOMAIN x.at =>
                      /\ f \notin p.forbidden
                      /\ f \in x.over => f \notin p.values \cup p.maxBytes
                      /\ f \in x.over /\ f \in p.maxItems => x.at[f] # "list"
                      /\ p.allowed # {} => \E a \in p.allowed : Allows(a, x, f)
  <2>1. /\ p.allowed \in SUBSET Fields /\ p.required \subseteq Fields /\ p.forbidden \subseteq Fields
        /\ p.values \subseteq Fields /\ p.maxBytes \subseteq Fields /\ p.maxItems \subseteq Fields
    BY InputAssumption DEF Input
  <2>2. DOMAIN x.at \subseteq Fields /\ x.over \subseteq DOMAIN x.at
    BY ArgumentAssumption
  <2>3. ValidatorErrors(<<>>) = {}
    BY DEF ValidatorErrors
  <2>4. Admitted(x, p, <<>>) <=>
          /\ Disallowed(x, p.allowed) = {}
          /\ p.required \ DOMAIN x.at = {}
          /\ p.forbidden \cap DOMAIN x.at = {}
          /\ (p.values \cup p.maxBytes) \cap x.over = {}
          /\ {f \in p.maxItems \cap x.over : x.at[f] = "list"} = {}
    BY <2>3, Zenon DEF Admitted, InputErrors
  <2>5. Disallowed(x, p.allowed) = {} <=>
          (p.allowed # {} => \A f \in DOMAIN x.at : \E a \in p.allowed : Allows(a, x, f))
    BY <2>1, <2>2, DisallowedIsExact, PermittedIs
  <2>6. p.required \ DOMAIN x.at = {} <=> \A f \in Fields : f \in p.required => f \in DOMAIN x.at
    BY <2>1
  <2>7. p.forbidden \cap DOMAIN x.at = {} <=> \A f \in Fields : f \in DOMAIN x.at => f \notin p.forbidden
    BY <2>1
  <2>8. (p.values \cup p.maxBytes) \cap x.over = {} <=>
          \A f \in Fields : f \in DOMAIN x.at /\ f \in x.over => f \notin p.values \cup p.maxBytes
    BY <2>1, <2>2
  <2>9. {f \in p.maxItems \cap x.over : x.at[f] = "list"} = {} <=>
          \A f \in Fields : f \in DOMAIN x.at /\ f \in x.over /\ f \in p.maxItems => x.at[f] # "list"
    BY <2>1, <2>2
  <2> QED BY <2>2, <2>4, <2>5, <2>6, <2>7, <2>8, <2>9
<1>2. ASSUME NEW x \in Arguments, NEW v
      PROVE  Admitted(x, None, v) <=> \A i \in DOMAIN v : v[i] = "passes"
  <2>1. /\ None.allowed = {} /\ None.required = {} /\ None.forbidden = {} /\ None.values = {}
        /\ None.maxBytes = {} /\ None.maxItems = {}
    BY DEF None
  <2>2. Disallowed(x, {}) = {}
    BY DEF Disallowed
  <2>3. InputErrors(x, None) = {}
    BY <2>1, <2>2, Zenon DEF InputErrors
  <2> QED BY <2>3 DEF Admitted, ValidatorErrors
<1> QED BY <1>1, <1>2 DEF ArgumentsAreChecked, Allows

(* Arguments are admitted exactly if every field at every depth may be     *)
(* there, for arguments nested to any depth and any input section          *)
(* (validators/input_policy.py, _collect_disallowed), and every validator  *)
(* passes.                                                                 *)
THEOREM InputIsChecked == Spec => []ArgumentsAreChecked
BY TypeCorrect, InvArguments, PTL

-----------------------------------------------------------------------------
(* SQL.                                                                    *)

LEMMA QueryType ==
  ASSUME NEW q \in Queries
  PROVE  /\ q \in Seq(Token) /\ Len(q) \in Nat /\ DOMAIN q = 1..Len(q)
         /\ \A i \in 1..Len(q) : q[i] \in Token
BY QueryAssumption

(* Where a quoted value ends.                                              *)
EndFrom(g, q, t, j) ==
  IF j > Len(q) \/ q[j] = "backslash" THEN 0
  ELSE IF q[j] # t THEN g[j + 1]
  ELSE IF j < Len(q) /\ q[j + 1] = t THEN g[j + 2]
  ELSE j

EndsOf(q, t) == CHOOSE g : g = [j \in 1..Len(q) + 2 |-> EndFrom(g, q, t, j)]

LEMMA EndsExist ==
  ASSUME NEW q \in Queries, NEW t
  PROVE  /\ DOMAIN EndsOf(q, t) = 1..Len(q) + 2
         /\ \A j \in 1..Len(q) + 2 : EndsOf(q, t)[j] = EndFrom(EndsOf(q, t), q, t, j)
<1> DEFINE n == Len(q)
           D == 1..n + 2
           V == 0..n
           rank == [j \in D |-> n + 2 - j]
           step == [j \in D |-> [g \in [D -> V] |-> EndFrom(g, q, t, j)]]
<1>0. n \in Nat
  BY QueryType
<1>1. ASSUME NEW j \in D, NEW g \in [D -> V]
      PROVE  EndFrom(g, q, t, j) \in V
  <2> HIDE DEF n
  <2>1. CASE j > n
    BY <1>0, <2>1 DEF EndFrom, n
  <2>2. CASE ~(j > n)
    <3>1. j + 1 \in D /\ j + 2 \in D /\ j \in V /\ 0 \in V
      BY <1>0, <2>2
    <3> QED BY <3>1 DEF EndFrom
  <2> QED BY <2>1, <2>2
<1>2. ASSUME NEW j \in D, NEW g \in [D -> V], NEW h \in [D -> V],
             \A l \in D : rank[l] < rank[j] => g[l] = h[l]
      PROVE  step[j][g] = step[j][h]
  <2>1. CASE j > n
    BY <2>1 DEF EndFrom
  <2>2. CASE ~(j > n)
    <3>1. j + 1 \in D /\ j + 2 \in D /\ rank[j + 1] < rank[j] /\ rank[j + 2] < rank[j]
      BY <1>0, <2>2
    <3>2. g[j + 1] = h[j + 1] /\ g[j + 2] = h[j + 2]
      BY <1>2, <3>1
    <3> QED BY <3>2 DEF EndFrom
  <2> QED BY <2>1, <2>2
<1>3. /\ rank \in [D -> Nat] /\ n + 1 \in Nat /\ V # {}
      /\ \A j \in D : rank[j] <= n + 1
  <2> HIDE DEF n
  <2> QED BY <1>0
<1>4. step \in [D -> [[D -> V] -> V]]
  <2> HIDE DEF D, V
  <2> QED BY <1>1
<1>5. PICK h \in [D -> V] : h = [j \in D |-> step[j][h]]
  <2>1. Descends(D, V, rank, step)
    <3>1. \E m \in Nat : \A j \in D : rank[j] <= m
      BY <1>3
    <3> HIDE DEF rank, step, D, V, n
    <3> QED BY <1>2, <1>3, <1>4, <3>1 DEF Descends
  <2> HIDE DEF rank, step, D, V, n
  <2> QED BY <2>1, Recursion
<1>6. h = [j \in D |-> EndFrom(h, q, t, j)]
  BY <1>5
<1>7. EndsOf(q, t) = [j \in D |-> EndFrom(EndsOf(q, t), q, t, j)]
  BY <1>6 DEF EndsOf
<1> QED BY <1>7

LEMMA EndsType ==
  ASSUME NEW q \in Queries, NEW t
  PROVE  \A j \in 1..Len(q) + 2 : EndsOf(q, t)[j] = 0 \/ EndsOf(q, t)[j] \in j..Len(q)
<1> DEFINE n == Len(q)
           D == 1..n + 2
           f == EndsOf(q, t)
           rank == [j \in D |-> n + 2 - j]
           P == {j \in D : f[j] = 0 \/ f[j] \in j..n}
<1>0. n \in Nat
  BY QueryType
<1>1. \A j \in D : f[j] = EndFrom(f, q, t, j)
  BY EndsExist
<1>2. rank \in [D -> Nat]
  <2> HIDE DEF n
  <2> QED BY <1>0
<1> HIDE DEF f
<1>3. ASSUME NEW j \in D, \A l \in D : rank[l] < rank[j] => l \in P
      PROVE  j \in P
  <2>1. CASE j > n
    BY <1>1, <2>1 DEF EndFrom
  <2>2. CASE ~(j > n)
    <3>1. j + 1 \in D /\ j + 2 \in D /\ rank[j + 1] < rank[j] /\ rank[j + 2] < rank[j]
      BY <1>0, <2>2
    <3>2. j + 1 \in P /\ j + 2 \in P
      BY <1>3, <3>1
    <3>3. f[j] \in {0, f[j + 1], f[j + 2], j}
      BY <1>1 DEF EndFrom
    <3> QED BY <1>0, <2>2, <3>2, <3>3
  <2> QED BY <2>1, <2>2
<1>4. D \subseteq P
  <2> HIDE DEF rank, D, P, n
  <2> QED BY <1>2, <1>3, RankInduction
<1> QED BY <1>4 DEF f

(* Whatever takes a quote for the end of the value inside it and for the   *)
(* begin of one outside, is outside where the lexer sees the end, and was  *)
(* outside before only at a quote.                                         *)
Toggles(q, t, b, e, o, in, out) ==
  /\ b \in 1..Len(q) + 1 /\ e \in 1..Len(q) /\ EndsOf(q, t)[b] = e /\ o[b] = in
  /\ \A p \in b..e : /\ o[p] = in /\ q[p] = t => o[p + 1] = out
                     /\ o[p] = in /\ q[p] # t /\ q[p] # "backslash" => o[p + 1] = in
                     /\ o[p] = out /\ q[p] = t => o[p + 1] = in

LEMMA QuotesAgree ==
  ASSUME NEW q \in Queries, NEW t, NEW b, NEW e, NEW o, NEW in, NEW out,
         Toggles(q, t, b, e, o, in, out)
  PROVE  /\ o[e + 1] = out
         /\ \A p \in b..e : o[p] = in \/ (o[p] = out /\ q[p] = t)
<1> DEFINE n == Len(q)
           D == 1..n + 2
           f == EndsOf(q, t)
           Agree(j) == o[e + 1] = out /\ \A p \in j..e : o[p] = in \/ (o[p] = out /\ q[p] = t)
           rank == [j \in D |-> n + 2 - j]
           P == {j \in D : j >= b /\ f[j] = e /\ o[j] = in => Agree(j)}
<1> USE DEF Toggles
<1>0. n \in Nat
  BY QueryType
<1>1. /\ \A j \in D : f[j] = EndFrom(f, q, t, j)
      /\ \A j \in D : f[j] = 0 \/ f[j] \in j..n
  BY EndsExist, EndsType
<1>2. rank \in [D -> Nat]
  <2> HIDE DEF n
  <2> QED BY <1>0
<1> HIDE DEF f
<1>3. ASSUME NEW j \in D, \A l \in D : rank[l] < rank[j] => l \in P
      PROVE  j \in P
  <2> SUFFICES ASSUME j >= b, f[j] = e, o[j] = in PROVE Agree(j)
    OBVIOUS
  <2>1. j <= e /\ e <= n /\ j \in b..e /\ q[j] # "backslash" /\ f[j] = EndFrom(f, q, t, j)
    BY <1>0, <1>1 DEF EndFrom
  <2>2. j + 1 \in D /\ j + 2 \in D /\ rank[j + 1] < rank[j] /\ rank[j + 2] < rank[j]
    BY <1>0, <2>1
  <2>3. j + 1 \in P /\ j + 2 \in P
    BY <1>3, <2>2
  <2>4. CASE q[j] # t
    <3>1. f[j + 1] = e /\ o[j + 1] = in
      BY <1>0, <2>1, <2>4 DEF EndFrom
    <3>2. Agree(j + 1)
      BY <2>3, <3>1
    <3>3. \A p \in j..e : p = j \/ p \in j + 1..e
      OBVIOUS
    <3> QED BY <3>2, <3>3
  <2>5. CASE q[j] = t /\ j < n /\ q[j + 1] = t
    <3>1. f[j + 2] = e
      BY <1>0, <2>1, <2>5 DEF EndFrom
    <3>2. j + 2 <= e /\ j + 1 \in b..e
      <4>1. f[j + 2] \in j + 2..n
        <5>1. f[j + 2] = 0 \/ f[j + 2] \in j + 2..n
          BY <1>1, <2>2
        <5> QED BY <1>0, <3>1, <5>1
      <4>2. j \in Nat /\ j <= e /\ e \in Nat /\ b <= j /\ b \in Nat
        BY <1>0, <2>1
      <4>3. j + 2 <= e
        BY <3>1, <4>1, <4>2
      <4> QED BY <4>2, <4>3
    <3>3. o[j + 1] = out /\ o[j + 1 + 1] = in /\ j + 1 + 1 = j + 2
      BY <2>1, <2>5, <3>2
    <3>4. Agree(j + 2)
      BY <2>3, <3>1, <3>3
    <3>5. \A p \in j..e : p = j \/ p = j + 1 \/ p \in j + 2..e
      OBVIOUS
    <3> QED BY <2>5, <3>3, <3>4, <3>5
  <2>6. CASE q[j] = t /\ ~(j < n /\ q[j + 1] = t)
    <3>1. j = e
      BY <1>0, <2>1, <2>6 DEF EndFrom
    <3>2. o[j + 1] = out
      BY <2>1, <2>6
    <3> QED BY <3>1, <3>2
  <2> QED BY <2>4, <2>5, <2>6
<1>4. D \subseteq P
  <2> HIDE DEF rank, D, P, n
  <2> QED BY <1>2, <1>3, RankInduction
<1>5. b \in D /\ f[b] = e
  BY <1>0 DEF f
<1> HIDE DEF D
<1> QED BY <1>4, <1>5

LEMMA QuoteEndIs ==
  ASSUME NEW q \in Queries, NEW i \in 1..Len(q)
  PROVE  /\ QuoteEnd(q, i) = EndsOf(q, q[i])[i + 1]
         /\ QuoteEnd(q, i) = 0 \/ QuoteEnd(q, i) \in i + 1..Len(q)
<1>1. QuoteEnd(q, i) = EndsOf(q, q[i])[i + 1]
  BY DEF QuoteEnd, EndsOf, EndFrom
<1>2. i + 1 \in 1..Len(q) + 2
  BY QueryType
<1> QED BY <1>1, <1>2, EndsType

(* Where a comment ends.                                                   *)
LEMMA LineEndIs ==
  ASSUME NEW q \in Queries, NEW i \in 1..Len(q), BeginsLine(q, i)
  PROVE  /\ LineEnd(q, i) \in i + 1..Len(q)
         /\ \A p \in i + 1..LineEnd(q, i) - 1 : q[p] # "newline"
         /\ LineEnd(q, i) < Len(q) => q[LineEnd(q, i)] = "newline"
<1> DEFINE ends == {j \in i + 2..Len(q) : q[j] = "newline"}
<1>0. Len(q) \in Nat /\ i + 1 \in 1..Len(q) /\ q[i + 1] = "dash"
  BY QueryType DEF BeginsLine, Pair
<1>1. CASE ends = {}
  <2>1. LineEnd(q, i) = Len(q)
    BY <1>1 DEF LineEnd
  <2>2. \A p \in i + 1..Len(q) : p = i + 1 \/ p \in i + 2..Len(q)
    BY <1>0
  <2> QED BY <1>0, <1>1, <2>1, <2>2
<1>2. CASE ends # {}
  <2>1. PICK j \in ends : \A k \in ends : j <= k
    <3>1. ends \subseteq Nat
      BY <1>0
    <3> HIDE DEF ends
    <3> QED BY <1>2, <3>1, LeastNumber
  <2>2. LineEnd(q, i) = CHOOSE l \in ends : \A k \in ends : l <= k
    BY <1>2 DEF LineEnd
  <2> DEFINE e == LineEnd(q, i)
  <2>3. e \in ends /\ \A k \in ends : e <= k
    <3> HIDE DEF ends
    <3> QED BY <2>1, <2>2
  <2>4. \A p \in i + 1..e - 1 : p \notin ends
    <3>1. \A k \in ends : k \in Int
      BY <1>0
    <3>2. e \in Int
      BY <1>0, <2>3
    <3> HIDE DEF ends, e
    <3> QED BY <2>3, <3>1, <3>2
  <2> HIDE DEF e
  <2>5. e \in i + 2..Len(q) /\ q[e] = "newline"
    BY <2>3
  <2>6. \A p \in i + 1..e - 1 : p = i + 1 \/ p \in i + 2..Len(q)
    BY <1>0, <2>5
  <2>7. \A p \in i + 1..e - 1 : q[p] # "newline"
    BY <1>0, <2>4, <2>6
  <2> QED BY <1>0, <2>5, <2>7 DEF e
<1> QED BY <1>1, <1>2

LEMMA CommentEndIs ==
  ASSUME NEW q \in Queries, NEW i \in 1..Len(q), CommentEnd(q, i) # 0
  PROVE  /\ CommentEnd(q, i) \in i + 3..Len(q)
         /\ EndsComment(q, CommentEnd(q, i) - 1)
         /\ \A p \in i + 2..CommentEnd(q, i) - 2 : ~EndsComment(q, p)
         /\ \A p \in i + 2..CommentEnd(q, i) - 3 : ~BeginsComment(q, p)
<1> DEFINE ends == {j \in i + 2..Len(q) : EndsComment(q, j)}
           e == CHOOSE j \in ends : \A k \in ends : j <= k
<1>0. Len(q) \in Nat
  BY QueryType
<1>1. /\ ends # {} /\ CommentEnd(q, i) = e + 1
      /\ \A j \in i + 2..e - 2 : ~BeginsComment(q, j)
  BY DEF CommentEnd
<1>2. PICK j \in ends : \A k \in ends : j <= k
  <2>1. ends \subseteq Nat
    BY <1>0
  <2> HIDE DEF ends
  <2> QED BY <1>1, <2>1, LeastNumber
<1>3. e \in ends /\ \A k \in ends : e <= k
  <2> HIDE DEF ends
  <2> QED BY <1>2
<1> HIDE DEF e
<1>4. e \in i + 2..Len(q) /\ EndsComment(q, e)
  BY <1>3
<1>5. ASSUME NEW p \in i + 2..e - 1 PROVE ~EndsComment(q, p)
  <2>1. p \in i + 2..Len(q) /\ ~(e <= p)
    BY <1>0, <1>4
  <2> QED BY <1>3, <2>1
<1>6. e < Len(q)
  BY <1>4 DEF EndsComment, Pair
<1>7. (e + 1) - 1 = e /\ (e + 1) - 2 = e - 1 /\ (e + 1) - 3 = e - 2 /\ e + 1 \in i + 3..Len(q)
  BY <1>0, <1>4, <1>6
<1> QED BY <1>1, <1>4, <1>5, <1>7

(* The lexer.                                                              *)
Masked(g, by, end) ==
  IF end = 0 \/ g[end + 1] = Rejected THEN Rejected ELSE by \o g[end + 1]

RestFrom(g, q, i) ==
  IF i > Len(q) THEN <<>>
  ELSE CASE BeginsLine(q, i) -> Masked(g, <<"blank">>, LineEnd(q, i))
         [] BeginsComment(q, i) -> Masked(g, <<"blank">>, CommentEnd(q, i))
         [] q[i] = "single" -> Masked(g, <<"blank">>, QuoteEnd(q, i))
         [] q[i] = "double" -> Masked(g, SubSeq(q, i, QuoteEnd(q, i)), QuoteEnd(q, i))
         [] q[i] \in Unsupported -> Rejected
         [] OTHER -> Masked(g, <<q[i]>>, i)

RestOf(q) == CHOOSE g : g = [i \in 1..Len(q) + 1 |-> RestFrom(g, q, i)]

\* The end of what begins at i, 0 if it is not understood, and what it becomes.
EndAt(q, i) ==
  IF BeginsLine(q, i) THEN LineEnd(q, i)
  ELSE IF BeginsComment(q, i) THEN CommentEnd(q, i)
  ELSE IF q[i] \in Quotes THEN QuoteEnd(q, i)
  ELSE IF q[i] \in Unsupported THEN 0
  ELSE i

CodeAt(q, i) ==
  IF BeginsLine(q, i) \/ BeginsComment(q, i) \/ q[i] = "single" THEN <<"blank">>
  ELSE IF q[i] = "double" THEN SubSeq(q, i, QuoteEnd(q, i))
  ELSE <<q[i]>>

LEMMA Beginnings ==
  ASSUME NEW q, NEW i
  PROVE  /\ BeginsLine(q, i) => q[i] = "dash" /\ ~BeginsComment(q, i)
         /\ BeginsComment(q, i) => q[i] = "slash" /\ ~EndsComment(q, i)
         /\ BeginsLine(q, i) \/ BeginsComment(q, i) => q[i] \notin Quotes \cup Unsupported
BY DEF BeginsLine, BeginsComment, EndsComment, Pair, Quotes, Unsupported

Code == Seq(Token \cup {"blank", "unsupported"})

LEMMA CodeType ==
  /\ <<>> \in Code /\ Rejected \in Code
  /\ \A t \in Token \cup {"blank"} : <<t>> \in Code
  /\ \A c, d \in Code : c \o d \in Code
  /\ \A c \in Seq(Token) : c \in Code
  /\ \A c \in Code : Len(c) \in Nat /\ DOMAIN c = 1..Len(c)
  /\ \A c, d \in Code : /\ Len(c \o d) = Len(c) + Len(d)
                        /\ \A i \in 1..Len(c) : (c \o d)[i] = c[i]
                        /\ \A i \in 1..Len(d) : (c \o d)[Len(c) + i] = d[i]
<1> DEFINE S == Token \cup {"blank", "unsupported"}
<1>1. "unsupported" \in S /\ Token \cup {"blank"} \subseteq S
  OBVIOUS
<1> HIDE DEF S
<1>2. <<>> \in Seq(S) /\ \A t \in S : <<t>> \in Seq(S)
  OBVIOUS
<1>3. \A c, d \in Seq(S) : c \o d \in Seq(S)
  OBVIOUS
<1>4. ASSUME NEW c \in Seq(Token) PROVE c \in Seq(S)
  BY <1>1, SeqMonotonic
<1>5. \A c \in Seq(S) : Len(c) \in Nat /\ DOMAIN c = 1..Len(c)
  OBVIOUS
<1>6. ASSUME NEW c \in Seq(S), NEW d \in Seq(S)
      PROVE  /\ Len(c \o d) = Len(c) + Len(d)
             /\ \A i \in 1..Len(c) : (c \o d)[i] = c[i]
             /\ \A i \in 1..Len(d) : (c \o d)[Len(c) + i] = d[i]
  OBVIOUS
<1> QED BY <1>1, <1>2, <1>3, <1>4, <1>5, <1>6 DEF Code, Rejected, S

LEMMA RestFromIs ==
  ASSUME NEW g, NEW q, NEW i
  PROVE  RestFrom(g, q, i) = IF i > Len(q) THEN <<>> ELSE Masked(g, CodeAt(q, i), EndAt(q, i))
<1>1. CASE i > Len(q)
  BY <1>1 DEF RestFrom
<1>2. CASE ~(i > Len(q))
  <2>1. CASE BeginsLine(q, i)
    BY <1>2, <2>1, Beginnings DEF RestFrom, CodeAt, EndAt, Quotes, Unsupported
  <2>2. CASE BeginsComment(q, i)
    BY <1>2, <2>2, Beginnings DEF RestFrom, CodeAt, EndAt, Quotes, Unsupported
  <2>3. CASE q[i] = "single"
    BY <1>2, <2>3, Beginnings DEF RestFrom, CodeAt, EndAt, Quotes, Unsupported
  <2>4. CASE q[i] = "double"
    BY <1>2, <2>4, Beginnings DEF RestFrom, CodeAt, EndAt, Quotes, Unsupported
  <2>5. CASE q[i] \in Unsupported
    BY <1>2, <2>5, Beginnings DEF RestFrom, CodeAt, EndAt, Quotes, Unsupported, Masked
  <2>6. CASE /\ ~BeginsLine(q, i) /\ ~BeginsComment(q, i)
             /\ q[i] \notin {"single", "double"} \cup Unsupported
    BY <1>2, <2>6 DEF RestFrom, CodeAt, EndAt, Quotes, Unsupported
  <2> QED BY <2>1, <2>2, <2>3, <2>4, <2>5, <2>6
<1> QED BY <1>1, <1>2

LEMMA EndAtType ==
  ASSUME NEW q \in Queries, NEW i \in 1..Len(q)
  PROVE  EndAt(q, i) = 0 \/ EndAt(q, i) \in i..Len(q)
<1>1. Len(q) \in Nat
  BY QueryType
<1>2. QuoteEnd(q, i) = 0 \/ QuoteEnd(q, i) \in i..Len(q)
  BY QuoteEndIs, <1>1
<1>3. CommentEnd(q, i) = 0 \/ CommentEnd(q, i) \in i..Len(q)
  BY CommentEndIs, <1>1
<1>4. BeginsLine(q, i) => LineEnd(q, i) \in i..Len(q)
  BY LineEndIs, <1>1
<1>5. /\ EndAt(q, i) \in {0, i, CommentEnd(q, i), QuoteEnd(q, i)} \/
           (BeginsLine(q, i) /\ EndAt(q, i) = LineEnd(q, i))
      /\ i \in i..Len(q)
  BY <1>1 DEF EndAt
<1> QED BY <1>2, <1>3, <1>4, <1>5

LEMMA CodeAtType ==
  ASSUME NEW q \in Queries, NEW i \in 1..Len(q), EndAt(q, i) # 0
  PROVE  CodeAt(q, i) \in Code
<1>1. q \in Seq(Token) /\ q[i] \in Token /\ Len(q) \in Nat
  BY QueryType
<1>2. CASE q[i] = "double"
  <2>1. QuoteEnd(q, i) \in i + 1..Len(q)
    BY <1>2, QuoteEndIs, Beginnings DEF EndAt, Quotes
  <2>2. SubSeq(q, i, QuoteEnd(q, i)) \in Seq(Token)
    BY <1>1, <2>1
  <2>3. CodeAt(q, i) = SubSeq(q, i, QuoteEnd(q, i))
    BY <1>2, Beginnings DEF CodeAt, Quotes
  <2> QED BY <2>2, <2>3, CodeType
<1>3. CASE q[i] # "double"
  <2>1. CodeAt(q, i) \in {<<"blank">>, <<q[i]>>}
    BY <1>3 DEF CodeAt
  <2> QED BY <1>1, <2>1, CodeType
<1> QED BY <1>2, <1>3

LEMMA RestExists ==
  ASSUME NEW q \in Queries
  PROVE  \A i \in 1..Len(q) + 1 : RestOf(q)[i] = RestFrom(RestOf(q), q, i)
<1> DEFINE n == Len(q)
           D == 1..n + 1
           rank == [i \in D |-> n + 1 - i]
           step == [i \in D |-> [g \in [D -> Code] |-> RestFrom(g, q, i)]]
<1>0. n \in Nat
  BY QueryType
<1>1. Rejected \in Code /\ <<>> \in Code /\ \A c, d \in Code : c \o d \in Code
  BY CodeType
<1>2. ASSUME NEW i \in D, ~(i > n), EndAt(q, i) # 0
      PROVE  EndAt(q, i) + 1 \in D /\ rank[EndAt(q, i) + 1] < rank[i]
  <2>1. EndAt(q, i) \in i..n /\ i \in 1..n
    BY <1>0, <1>2, EndAtType
  <2> QED BY <1>0, <2>1
<1>3. ASSUME NEW i \in D, NEW g \in [D -> Code]
      PROVE  RestFrom(g, q, i) \in Code
  <2>1. CASE i > n
    BY <1>1, <2>1, RestFromIs
  <2>2. CASE ~(i > n) /\ EndAt(q, i) = 0
    BY <1>1, <2>2, RestFromIs DEF Masked
  <2>3. CASE ~(i > n) /\ EndAt(q, i) # 0
    <3>1. g[EndAt(q, i) + 1] \in Code
      BY <1>2, <2>3
    <3>2. i \in 1..n
      BY <1>0, <2>3
    <3>3. CodeAt(q, i) \in Code
      BY <2>3, <3>2, CodeAtType
    <3>4. RestFrom(g, q, i) \in {Rejected, CodeAt(q, i) \o g[EndAt(q, i) + 1]}
      BY <2>3, RestFromIs DEF Masked
    <3> QED BY <1>1, <3>1, <3>3, <3>4
  <2> QED BY <2>1, <2>2, <2>3
<1>4. ASSUME NEW i \in D, NEW g \in [D -> Code], NEW h \in [D -> Code],
             \A j \in D : rank[j] < rank[i] => g[j] = h[j]
      PROVE  step[i][g] = step[i][h]
  <2>1. RestFrom(g, q, i) = RestFrom(h, q, i)
    <3>1. CASE i > n
      BY <3>1, RestFromIs
    <3>2. CASE ~(i > n) /\ EndAt(q, i) = 0
      BY <3>2, RestFromIs DEF Masked
    <3>3. CASE ~(i > n) /\ EndAt(q, i) # 0
      <4>1. g[EndAt(q, i) + 1] = h[EndAt(q, i) + 1]
        BY <1>2, <1>4, <3>3
      <4> QED BY <3>3, <4>1, RestFromIs DEF Masked
    <3> QED BY <3>1, <3>2, <3>3
  <2> QED BY <2>1
<1>5. Descends(D, Code, rank, step)
  <2>1. rank \in [D -> Nat] /\ n + 1 \in Nat /\ \A i \in D : rank[i] <= n + 1
    <3> HIDE DEF n
    <3> QED BY <1>0
  <2>2. step \in [D -> [[D -> Code] -> Code]]
    <3> HIDE DEF D
    <3> QED BY <1>3
  <2>3. \E m \in Nat : \A i \in D : rank[i] <= m
    BY <2>1
  <2> HIDE DEF rank, step, D, n
  <2> QED BY <1>1, <1>4, <2>1, <2>2, <2>3 DEF Descends
<1>6. PICK h \in [D -> Code] : h = [i \in D |-> step[i][h]]
  <2> HIDE DEF rank, step, D, n
  <2> QED BY <1>5, Recursion
<1>7. h = [i \in D |-> RestFrom(h, q, i)]
  BY <1>6
<1>8. RestOf(q) = [i \in D |-> RestFrom(RestOf(q), q, i)]
  BY <1>7 DEF RestOf
<1> QED BY <1>8

LEMMA SqlCodeIs ==
  ASSUME NEW q
  PROVE  SqlCode(q) = RestOf(q)[1]
BY DEF SqlCode, RestOf, RestFrom, Masked

LEMMA RestIs ==
  ASSUME NEW q \in Queries
  PROVE  /\ \A i \in 1..Len(q) :
              RestOf(q)[i] = Masked(RestOf(q), CodeAt(q, i), EndAt(q, i))
         /\ RestOf(q)[Len(q) + 1] = <<>>
         /\ \A i \in 1..Len(q) + 1 : RestOf(q)[i] \in Code
<1> DEFINE n == Len(q)
           D == 1..n + 1
           f == RestOf(q)
           rank == [i \in D |-> n + 1 - i]
           P == {i \in D : f[i] \in Code}
<1>0. n \in Nat
  BY QueryType
<1>1. \A i \in D : f[i] = IF i > n THEN <<>> ELSE Masked(f, CodeAt(q, i), EndAt(q, i))
  BY RestExists, RestFromIs
<1> HIDE DEF f
<1>2. \A i \in 1..n : f[i] = Masked(f, CodeAt(q, i), EndAt(q, i))
  BY <1>0, <1>1
<1>3. f[n + 1] = <<>>
  BY <1>0, <1>1
<1>4. rank \in [D -> Nat]
  <2> HIDE DEF n
  <2> QED BY <1>0
<1>5. ASSUME NEW i \in D, \A j \in D : rank[j] < rank[i] => j \in P
      PROVE  i \in P
  <2>1. CASE i > n
    BY <1>1, <2>1, CodeType
  <2>2. CASE ~(i > n) /\ EndAt(q, i) = 0
    BY <1>1, <2>2, CodeType DEF Masked
  <2>3. CASE ~(i > n) /\ EndAt(q, i) # 0
    <3>1. i \in 1..n /\ EndAt(q, i) \in i..n
      BY <1>0, <2>3, EndAtType
    <3>2. EndAt(q, i) + 1 \in D /\ rank[EndAt(q, i) + 1] < rank[i]
      BY <1>0, <3>1
    <3>3. f[EndAt(q, i) + 1] \in Code
      BY <1>5, <3>2
    <3>4. CodeAt(q, i) \in Code
      BY <2>3, <3>1, CodeAtType
    <3>5. f[i] \in {Rejected, CodeAt(q, i) \o f[EndAt(q, i) + 1]}
      BY <1>2, <3>1 DEF Masked
    <3> QED BY <3>3, <3>4, <3>5, CodeType
  <2> QED BY <2>1, <2>2, <2>3
<1>6. D \subseteq P
  <2> HIDE DEF rank, D, P, n
  <2> QED BY <1>4, <1>5, RankInduction
<1> QED BY <1>2, <1>3, <1>6 DEF f

(* What a database is in, before each character.                           *)
States == ({"code", "line", "enter", "comment", "leave"} \cup Quotes) \X Int

StateFrom(g, r, q, i) == IF i = 1 THEN <<"code", 0>> ELSE After(r, g[i - 1], q, i - 1)

StateOf(r, q) == CHOOSE g : g = [i \in 1..Len(q) + 1 |-> StateFrom(g, r, q, i)]

LEMMA StatesAre ==
  \A x \in {"code", "line", "enter", "comment", "leave"} \cup Quotes : \A y \in Int :
    <<x, y>> \in States
BY DEF States

LEMMA AfterType ==
  ASSUME NEW r, NEW s \in States, NEW q, NEW i
  PROVE  After(r, s, q, i) \in States
<1>1. /\ s[1] \in {"code", "line", "enter", "comment", "leave"} \cup Quotes /\ s[2] \in Int
      /\ s[2] + 1 \in Int /\ s[2] - 1 \in Int
  BY DEF States
<1>2. CASE s[1] = "code"
  BY StatesAre, <1>2 DEF After
<1>3. CASE s[1] = "line"
  BY StatesAre, <1>3 DEF After
<1>4. CASE s[1] = "enter"
  BY StatesAre, <1>1, <1>4 DEF After
<1>5. CASE s[1] = "comment"
  <2>1. After(r, s, q, i) \in {<<"leave", s[2] - 1>>, <<"enter", s[2]>>, s}
    BY <1>5 DEF After
  <2> QED BY StatesAre, <1>1, <2>1
<1>6. CASE s[1] = "leave"
  BY StatesAre, <1>1, <1>6 DEF After
<1>7. CASE s[1] \in Quotes
  <2>1. After(r, s, q, i) \in {<<"code", 0>>, <<s[1], 0>>, <<s[1], 1>>, s}
    BY <1>7 DEF After, Quotes
  <2> QED BY StatesAre, <1>7, <2>1
<1> QED BY <1>1, <1>2, <1>3, <1>4, <1>5, <1>6, <1>7

LEMMA InIs ==
  ASSUME NEW r, NEW q \in Queries
  PROVE  /\ In(r, q)[1] = <<"code", 0>>
         /\ \A i \in 1..Len(q) : In(r, q)[i + 1] = After(r, In(r, q)[i], q, i)
<1> DEFINE n == Len(q)
           D == 1..n + 1
           rank == [i \in D |-> i]
           step == [i \in D |-> [g \in [D -> States] |-> StateFrom(g, r, q, i)]]
           f == StateOf(r, q)
<1>0. n \in Nat
  BY QueryType
<1>1. ASSUME NEW i \in D, i # 1
      PROVE  i - 1 \in D /\ rank[i - 1] < rank[i]
  BY <1>0, <1>1
<1>2. ASSUME NEW i \in D, NEW g \in [D -> States]
      PROVE  StateFrom(g, r, q, i) \in States
  <2>1. <<"code", 0>> \in States
    BY StatesAre
  <2>2. i # 1 => g[i - 1] \in States
    BY <1>1
  <2> QED BY <2>1, <2>2, AfterType DEF StateFrom
<1>3. ASSUME NEW i \in D, NEW g \in [D -> States], NEW h \in [D -> States],
             \A j \in D : rank[j] < rank[i] => g[j] = h[j]
      PROVE  step[i][g] = step[i][h]
  <2>1. i # 1 => g[i - 1] = h[i - 1]
    BY <1>1, <1>3
  <2> QED BY <2>1 DEF StateFrom
<1>4. Descends(D, States, rank, step)
  <2>1. rank \in [D -> Nat] /\ n + 1 \in Nat /\ \A i \in D : rank[i] <= n + 1
    <3> HIDE DEF n
    <3> QED BY <1>0
  <2>2. step \in [D -> [[D -> States] -> States]]
    <3> HIDE DEF D
    <3> QED BY <1>2
  <2>3. \E m \in Nat : \A i \in D : rank[i] <= m
    BY <2>1
  <2>4. <<"code", 0>> \in States
    BY StatesAre
  <2> HIDE DEF rank, step, D, n
  <2> QED BY <1>3, <2>1, <2>2, <2>3, <2>4 DEF Descends
<1>5. PICK h \in [D -> States] : h = [i \in D |-> step[i][h]]
  <2> HIDE DEF rank, step, D, n
  <2> QED BY <1>4, Recursion
<1>6. h = [i \in D |-> StateFrom(h, r, q, i)]
  BY <1>5
<1>7. StateOf(r, q) = [i \in D |-> StateFrom(StateOf(r, q), r, q, i)]
  BY <1>6 DEF StateOf
<1>8. \A i \in D : f[i] = StateFrom(f, r, q, i)
  BY <1>7
<1>9. In(r, q) = f
  BY DEF In, StateOf, StateFrom
<1> HIDE DEF f
<1>10. f[1] = <<"code", 0>>
  BY <1>0, <1>8 DEF StateFrom
<1>11. ASSUME NEW i \in 1..n PROVE f[i + 1] = After(r, f[i], q, i)
  <2>1. i + 1 \in D /\ i + 1 # 1 /\ (i + 1) - 1 = i
    BY <1>0
  <2> QED BY <1>8, <2>1 DEF StateFrom
<1> QED BY <1>9, <1>10, <1>11

(* The quote that is open in what the lexer returns.                       *)
QuoteFrom(g, code, j) ==
  IF j = 0 THEN "none"
  ELSE IF g[j - 1] = "none" /\ code[j] \in Quotes THEN code[j]
  ELSE IF g[j - 1] = code[j] THEN "none" ELSE g[j - 1]

QuoteOf(code) == CHOOSE g : g = [j \in 0..Len(code) |-> QuoteFrom(g, code, j)]

LEMMA OpenIs ==
  ASSUME NEW code \in Code
  PROVE  /\ Open(code)[0] = "none"
         /\ \A j \in 1..Len(code) :
              Open(code)[j] =
                IF Open(code)[j - 1] = "none" /\ code[j] \in Quotes THEN code[j]
                ELSE IF Open(code)[j - 1] = code[j] THEN "none" ELSE Open(code)[j - 1]
<1> DEFINE n == Len(code)
           D == 0..n
           V == {"none"} \cup Quotes
           rank == [j \in D |-> j]
           step == [j \in D |-> [g \in [D -> V] |-> QuoteFrom(g, code, j)]]
           f == QuoteOf(code)
<1>0. n \in Nat
  BY CodeType
<1>1. ASSUME NEW j \in D, j # 0
      PROVE  j - 1 \in D /\ rank[j - 1] < rank[j]
  BY <1>0, <1>1
<1>2. ASSUME NEW j \in D, NEW g \in [D -> V]
      PROVE  QuoteFrom(g, code, j) \in V
  <2>1. j # 0 => g[j - 1] \in V
    BY <1>1
  <2> QED BY <2>1 DEF QuoteFrom
<1>3. ASSUME NEW j \in D, NEW g \in [D -> V], NEW h \in [D -> V],
             \A l \in D : rank[l] < rank[j] => g[l] = h[l]
      PROVE  step[j][g] = step[j][h]
  <2>1. j # 0 => g[j - 1] = h[j - 1]
    BY <1>1, <1>3
  <2> QED BY <2>1 DEF QuoteFrom
<1>4. Descends(D, V, rank, step)
  <2>1. rank \in [D -> Nat] /\ \A j \in D : rank[j] <= n
    <3> HIDE DEF n
    <3> QED BY <1>0
  <2>2. step \in [D -> [[D -> V] -> V]]
    <3> HIDE DEF D
    <3> QED BY <1>2
  <2>3. \E m \in Nat : \A j \in D : rank[j] <= m
    BY <1>0, <2>1
  <2>4. V # {}
    OBVIOUS
  <2> HIDE DEF rank, step, D, n, V
  <2> QED BY <1>3, <2>1, <2>2, <2>3, <2>4 DEF Descends
<1>5. PICK h \in [D -> V] : h = [j \in D |-> step[j][h]]
  <2> HIDE DEF rank, step, D, n, V
  <2> QED BY <1>4, Recursion
<1>6. h = [j \in D |-> QuoteFrom(h, code, j)]
  BY <1>5
<1>7. QuoteOf(code) = [j \in D |-> QuoteFrom(QuoteOf(code), code, j)]
  BY <1>6 DEF QuoteOf
<1>8. \A j \in D : f[j] = QuoteFrom(f, code, j)
  BY <1>7
<1>9. Open(code) = f
  BY DEF Open, QuoteOf, QuoteFrom
<1> HIDE DEF f
<1> QED BY <1>0, <1>8, <1>9 DEF QuoteFrom

LEMMA TwoStatements ==
  ASSUME NEW code \in Code, NEW a \in 1..Len(code), NEW b \in 1..Len(code), NEW c \in 1..Len(code),
         a < b, b < c, code[b] = "separator", Open(code)[b] = "none",
         code[a] \notin Blank \cup {"separator"}, code[c] \notin Blank \cup {"separator"}
  PROVE  ~(Cardinality(Statements(code)) <= 1)
<1> DEFINE n == Len(code)
           ends == {0, n + 1} \cup {i \in DOMAIN code : code[i] = "separator" /\ Open(code)[i] = "none"}
<1>0. n \in Nat /\ DOMAIN code = 1..n
  BY CodeType
<1>1. ends \subseteq 0..n + 1 /\ 0 \in ends /\ n + 1 \in ends /\ b \in ends
      /\ a \notin ends /\ c \notin ends
  BY <1>0
<1>2. Statements(code) =
        {s \in ends \X ends :
           /\ s[1] < s[2] /\ ~\E e \in ends : s[1] < e /\ e < s[2]
           /\ \E i \in s[1] + 1..s[2] - 1 : code[i] \notin Blank}
  BY DEF Statements, InQuote
<1> HIDE DEF n, ends
<1>3. ASSUME NEW p \in 1..n, p \notin ends, code[p] \notin Blank
      PROVE  \E s \in Statements(code) : s[1] < p /\ p < s[2]
  <2> DEFINE After1 == {e \in ends : p < e}
             Before1 == {n + 1 - e : e \in {e \in ends : e < p}}
  <2>1. PICK hi \in After1 : \A e \in After1 : hi <= e
    <3>1. /\ n + 1 \in After1
          /\ \A e \in After1 : e \in Nat
      BY <1>0, <1>1
    <3> HIDE DEF After1
    <3> QED BY <3>1, LeastNumber
  <2>2. PICK m \in Before1 : \A e \in Before1 : m <= e
    <3>1. Before1 \subseteq Nat /\ n + 1 \in Before1
      BY <1>0, <1>1
    <3> HIDE DEF Before1
    <3> QED BY <3>1, LeastNumber
  <2>3. PICK lo \in ends : lo < p /\ m = n + 1 - lo
    BY <2>2
  <2>4. \A e \in ends : e < p => e <= lo
    <3> SUFFICES ASSUME NEW e \in ends, e < p PROVE e <= lo
      OBVIOUS
    <3>1. n + 1 - e \in Before1
      OBVIOUS
    <3>2. m <= n + 1 - e
      BY <2>2, <3>1
    <3>3. e \in Int /\ lo \in Int
      BY <1>0, <1>1
    <3> QED BY <1>0, <2>3, <3>2, <3>3
  <2>5. hi \in ends /\ p < hi /\ \A e \in ends : p < e => hi <= e
    BY <2>1
  <2>6. lo \in 0..n + 1 /\ hi \in 0..n + 1
    BY <1>1, <2>5
  <2>7. ~\E e \in ends : lo < e /\ e < hi
    <3> SUFFICES ASSUME NEW e \in ends, lo < e, e < hi PROVE FALSE
      OBVIOUS
    <3>1. e \in Int /\ e # p
      BY <1>0, <1>1, <1>3
    <3> QED BY <1>0, <2>4, <2>5, <2>6, <3>1
  <2>8. p \in lo + 1..hi - 1
    BY <1>0, <2>3, <2>5, <2>6
  <2>9. <<lo, hi>> \in Statements(code)
    <3>1. lo < hi
      BY <1>0, <2>3, <2>5, <2>6
    <3>2. <<lo, hi>> \in ends \X ends
      BY <2>3, <2>5
    <3>3. <<lo, hi>>[1] = lo /\ <<lo, hi>>[2] = hi
      OBVIOUS
    <3>4. \E i \in lo + 1..hi - 1 : code[i] \notin Blank
      BY <1>3, <2>8
    <3> QED BY <1>2, <2>7, <3>1, <3>2, <3>3, <3>4
  <2> QED BY <2>3, <2>5, <2>9
<1>4. PICK s \in Statements(code) : s[1] < a /\ a < s[2]
  BY <1>1, <1>3 DEF n
<1>5. PICK t \in Statements(code) : t[1] < c /\ c < t[2]
  BY <1>1, <1>3 DEF n
<1>6. s # t
  <2>1. s \in ends \X ends /\ ~\E e \in ends : s[1] < e /\ e < s[2]
    BY <1>2
  <2>2. s[1] \in Int /\ s[2] \in Int
    <3>1. s[1] \in ends /\ s[2] \in ends
      BY <2>1
    <3>2. \A e \in 0..n + 1 : e \in Int
      OBVIOUS
    <3> QED BY <1>1, <3>1, <3>2
  <2>3. ~(s[1] < b /\ b < s[2])
    BY <1>1, <2>1
  <2> SUFFICES ASSUME s = t PROVE FALSE
    OBVIOUS
  <2> QED BY <1>4, <1>5, <2>2, <2>3
<1>7. IsFiniteSet(Statements(code))
  <2>1. IsFiniteSet(0..n + 1)
    BY <1>0, FS_Interval
  <2>2. IsFiniteSet(ends)
    BY <1>1, <2>1, FS_Subset
  <2>3. IsFiniteSet(ends \X ends)
    BY <2>2, FS_Product
  <2>4. Statements(code) \subseteq ends \X ends
    BY <1>2
  <2> QED BY <2>3, <2>4, FS_Subset
<1>8. Cardinality({s} \cup {t}) = 1 + 1
  <2>1. IsFiniteSet({s}) /\ Cardinality({s}) = 1
    BY FS_Singleton, Zenon
  <2>2. t \notin {s}
    BY <1>6
  <2>3. Cardinality({s} \cup {t}) = Cardinality({s}) + 1
    BY <2>1, <2>2, FS_AddElement
  <2> QED BY <2>1, <2>3, Zenon
<1>9. {s} \cup {t} \subseteq Statements(code)
  OBVIOUS
<1>10. 1 + 1 <= Cardinality(Statements(code))
  <2>1. Cardinality({s} \cup {t}) <= Cardinality(Statements(code))
    BY <1>7, <1>9, FS_Subset
  <2> QED BY <1>8, <2>1, Zenon
<1>11. Cardinality(Statements(code)) \in Nat
  BY <1>7, FS_CardinalityType
<1> QED BY <1>10, <1>11

(* What the lexer skips a database skips too.                              *)
Outside == <<"code", 0>>

LEMMA AfterIs ==
  ASSUME NEW r \in Readings, NEW q \in Queries, NEW i \in 1..Len(q), ~Overlooked(r, q)
  PROVE  /\ q[i] \in Quotes => After(r, Outside, q, i) = <<q[i], 0>>
         /\ BeginsLine(q, i) => After(r, Outside, q, i) = <<"line", 0>>
         /\ BeginsComment(q, i) => After(r, Outside, q, i) = <<"enter", 0>>
         /\ q[i] \notin Quotes /\ ~BeginsLine(q, i) /\ ~BeginsComment(q, i) =>
              After(r, Outside, q, i) = Outside
         /\ q[i] = "newline" => After(r, <<"line", 0>>, q, i) = Outside
         /\ q[i] # "newline" /\ ~(q[i] = "return" /\ "return" \in r) =>
              After(r, <<"line", 0>>, q, i) = <<"line", 0>>
         /\ After(r, <<"enter", 0>>, q, i) = <<"comment", 1>>
         /\ EndsComment(q, i) => After(r, <<"comment", 1>>, q, i) = <<"leave", 0>>
         /\ ~EndsComment(q, i) /\ ~(BeginsComment(q, i) /\ "nested" \in r) =>
              After(r, <<"comment", 1>>, q, i) = <<"comment", 1>>
         /\ After(r, <<"leave", 0>>, q, i) = Outside
         /\ \A u \in Quotes :
              /\ q[i] = u => After(r, <<u, 0>>, q, i) = Outside
              /\ q[i] # u /\ q[i] # "backslash" => After(r, <<u, 0>>, q, i) = <<u, 0>>
<1>1. LineBegins(r, q, i) <=> BeginsLine(q, i)
  BY QueryType DEF LineBegins, Overlooked
<1>2. /\ q[i] \in Quotes => After(r, Outside, q, i) = <<q[i], 0>>
      /\ BeginsLine(q, i) => After(r, Outside, q, i) = <<"line", 0>>
      /\ BeginsComment(q, i) => After(r, Outside, q, i) = <<"enter", 0>>
      /\ q[i] \notin Quotes /\ ~BeginsLine(q, i) /\ ~BeginsComment(q, i) =>
           After(r, Outside, q, i) = Outside
  BY <1>1, Beginnings DEF After, Outside
<1>3. /\ q[i] = "newline" => After(r, <<"line", 0>>, q, i) = Outside
      /\ q[i] # "newline" /\ ~(q[i] = "return" /\ "return" \in r) =>
           After(r, <<"line", 0>>, q, i) = <<"line", 0>>
  BY DEF After, LineEnds, Outside
<1>4. /\ After(r, <<"enter", 0>>, q, i) = <<"comment", 1>>
      /\ After(r, <<"leave", 0>>, q, i) = Outside
  BY DEF After, Outside
<1>5. /\ EndsComment(q, i) => After(r, <<"comment", 1>>, q, i) = <<"leave", 0>>
      /\ ~EndsComment(q, i) /\ ~(BeginsComment(q, i) /\ "nested" \in r) =>
           After(r, <<"comment", 1>>, q, i) = <<"comment", 1>>
  BY Beginnings DEF After
<1>6. ASSUME NEW u \in Quotes
      PROVE  /\ q[i] = u => After(r, <<u, 0>>, q, i) = Outside
             /\ q[i] # u /\ q[i] # "backslash" => After(r, <<u, 0>>, q, i) = <<u, 0>>
  BY DEF After, Outside, Quotes
<1> QED BY <1>2, <1>3, <1>4, <1>5, <1>6

(* Only what has code before it and behind it is executed.                 *)
LEMMA ExecutedType ==
  ASSUME NEW r, NEW q \in Queries
  PROVE  \A p \in Executed(r, q) :
           /\ p \in 1..Len(q) /\ q[p] \notin Blank
           /\ In(r, q)[p][1] = "code" /\ In(r, q)[p + 1][1] = "code"
BY QueryType DEF Executed

LEMMA Stays ==
  ASSUME NEW o, NEW b \in Int, NEW e \in Int, NEW v, o[b] = v,
         \A p \in b..e - 1 : o[p] = v => o[p + 1] = v
  PROVE  \A p \in b..e : o[p] = v
<1> DEFINE D == b..e
           rank == [p \in D |-> p - b]
           P == {p \in D : o[p] = v}
<1>1. rank \in [D -> Nat]
  OBVIOUS
<1>2. ASSUME NEW p \in D, \A j \in D : rank[j] < rank[p] => j \in P
      PROVE  p \in P
  <2>1. CASE p = b
    BY <2>1
  <2>2. CASE p # b
    <3>1. p - 1 \in D /\ rank[p - 1] < rank[p] /\ p - 1 \in b..e - 1 /\ (p - 1) + 1 = p
      BY <2>2
    <3>2. o[p - 1] = v
      BY <1>2, <3>1
    <3> QED BY <3>1, <3>2
  <2> QED BY <2>1, <2>2
<1>3. D \subseteq P
  <2> HIDE DEF rank, D, P
  <2> QED BY <1>1, <1>2, RankInduction
<1> QED BY <1>3

LEMMA LineSkipped ==
  ASSUME NEW r \in Readings, NEW q \in Queries, NEW i \in 1..Len(q), ~Overlooked(r, q),
         BeginsLine(q, i), In(r, q)[i] = Outside
  PROVE  /\ In(r, q)[LineEnd(q, i) + 1] = Outside \/ LineEnd(q, i) = Len(q)
         /\ \A p \in i..LineEnd(q, i) : p \notin Executed(r, q)
<1> DEFINE n == Len(q)
           e == LineEnd(q, i)
           o == In(r, q)
           in == <<"line", 0>>
<1>0. n \in Nat /\ \A p \in 1..n : o[p + 1] = After(r, o[p], q, p)
  BY QueryType, InIs
<1>1. e \in i + 1..n /\ (\A p \in i + 1..e - 1 : q[p] # "newline") /\ (e < n => q[e] = "newline")
  BY LineEndIs
<1>2. \A p \in i..e : ~(q[p] = "return" /\ "return" \in r)
  BY QueryType DEF Overlooked
<1> HIDE DEF e, o
<1>3. o[i + 1] = in
  BY <1>0, AfterIs DEF o
<1>4. \A p \in i + 1..e - 1 : o[p] = in => o[p + 1] = in
  <2> SUFFICES ASSUME NEW p \in i + 1..e - 1, o[p] = in PROVE o[p + 1] = in
    OBVIOUS
  <2>1. p \in 1..n /\ p \in i..e
    BY <1>0, <1>1
  <2>2. o[p + 1] = After(r, in, q, p)
    BY <1>0, <2>1
  <2>3. q[p] # "newline" /\ ~(q[p] = "return" /\ "return" \in r)
    BY <1>1, <1>2, <2>1
  <2> QED BY <2>1, <2>2, <2>3, AfterIs
<1>5. \A p \in i + 1..e : o[p] = in
  <2> DEFINE b == i + 1
  <2>1. b \in Int /\ e \in Int
    BY <1>0, <1>1
  <2>2. \A p \in b..e - 1 : o[p] = in => o[p + 1] = in
    BY <1>4
  <2>3. o[b] = in
    BY <1>3
  <2> HIDE DEF n, in, b
  <2>4. \A p \in b..e : o[p] = in
    BY <2>1, <2>2, <2>3, Stays
  <2> QED BY <2>4 DEF b
<1>6. e < n => o[e + 1] = Outside
  <2> SUFFICES ASSUME e < n PROVE o[e + 1] = Outside
    OBVIOUS
  <2>1. e \in i + 1..e /\ e \in 1..n
    BY <1>0, <1>1
  <2>2. o[e + 1] = After(r, in, q, e) /\ q[e] = "newline"
    BY <1>0, <1>1, <1>5, <2>1
  <2> QED BY <2>1, <2>2, AfterIs
<1>7. \A p \in i..e : p \notin Executed(r, q)
  <2>1. i \notin Executed(r, q)
    BY <1>3, ExecutedType DEF o
  <2>2. \A p \in i + 1..e : p \notin Executed(r, q)
    BY <1>5, ExecutedType DEF o
  <2>3. \A p \in i..e : p = i \/ p \in i + 1..e
    BY <1>0, <1>1
  <2> QED BY <2>1, <2>2, <2>3
<1> QED BY <1>0, <1>1, <1>6, <1>7 DEF e, o

LEMMA CommentSkipped ==
  ASSUME NEW r \in Readings, NEW q \in Queries, NEW i \in 1..Len(q), ~Overlooked(r, q),
         BeginsComment(q, i), In(r, q)[i] = Outside, CommentEnd(q, i) # 0
  PROVE  /\ In(r, q)[CommentEnd(q, i) + 1] = Outside
         /\ \A p \in i..CommentEnd(q, i) : p \notin Executed(r, q)
<1> DEFINE n == Len(q)
           e == CommentEnd(q, i)
           o == In(r, q)
           in == <<"comment", 1>>
<1>0. n \in Nat /\ \A p \in 1..n : o[p + 1] = After(r, o[p], q, p)
  BY QueryType, InIs
<1>1. /\ e \in i + 3..n /\ EndsComment(q, e - 1)
      /\ \A p \in i + 2..e - 2 : ~EndsComment(q, p)
      /\ \A p \in i + 2..e - 3 : ~BeginsComment(q, p)
  BY CommentEndIs
<1> HIDE DEF e, o
<1>2. /\ i \in 1..n /\ i + 1 \in 1..n /\ (i + 1) + 1 = i + 2
      /\ e - 2 \in 1..n /\ (e - 2) + 1 = e - 1
      /\ e - 1 \in i + 2..e - 1 /\ e - 1 \in 1..n /\ (e - 1) + 1 = e /\ e \in 1..n
      /\ \A p \in i + 2..e - 2 : p \in 1..n /\ (p = e - 2 \/ p \in i + 2..e - 3)
      /\ \A p \in i..e : p = i \/ p = i + 1 \/ p \in i + 2..e - 1 \/ p = e
  BY <1>0, <1>1
<1>3. ~("nested" \in r /\ BeginsComment(q, e - 2))
  BY <1>1, <1>2, QueryType DEF Overlooked
<1>4. o[i + 1] = <<"enter", 0>> /\ o[i + 2] = in
  <2>1. o[i + 1] = <<"enter", 0>>
    BY <1>0, AfterIs DEF o
  <2>2. o[(i + 1) + 1] = After(r, <<"enter", 0>>, q, i + 1)
    BY <1>0, <1>2, <2>1
  <2>3. o[(i + 1) + 1] = in
    BY <1>2, <2>2, AfterIs
  <2> QED BY <1>2, <2>1, <2>3
<1>5. \A p \in i + 2..e - 2 : o[p] = in => o[p + 1] = in
  <2> SUFFICES ASSUME NEW p \in i + 2..e - 2, o[p] = in PROVE o[p + 1] = in
    OBVIOUS
  <2>1. p \in 1..n /\ ~EndsComment(q, p) /\ ~(BeginsComment(q, p) /\ "nested" \in r)
    BY <1>1, <1>2, <1>3
  <2>2. o[p + 1] = After(r, in, q, p)
    BY <1>0, <2>1
  <2> QED BY <2>1, <2>2, AfterIs
<1>6. \A p \in i + 2..e - 1 : o[p] = in
  <2> DEFINE b == i + 2
             f == e - 1
  <2>1. b \in Int /\ f \in Int /\ f - 1 = e - 2
    BY <1>0, <1>1
  <2>2. \A p \in b..f - 1 : o[p] = in => o[p + 1] = in
    BY <1>5, <2>1
  <2>3. o[b] = in
    BY <1>4
  <2> HIDE DEF n, in, b, f
  <2>4. \A p \in b..f : o[p] = in
    BY <2>1, <2>2, <2>3, Stays
  <2> QED BY <2>4 DEF b, f
<1>7. o[e] = <<"leave", 0>> /\ o[e + 1] = Outside
  <2>1. o[e] = <<"leave", 0>>
    <3>1. o[(e - 1) + 1] = After(r, in, q, e - 1)
      BY <1>0, <1>2, <1>6
    <3>2. o[(e - 1) + 1] = <<"leave", 0>>
      BY <1>1, <1>2, <3>1, AfterIs
    <3> QED BY <1>2, <3>2
  <2>2. o[e + 1] = After(r, <<"leave", 0>>, q, e)
    BY <1>0, <1>2, <2>1
  <2> QED BY <1>2, <2>1, <2>2, AfterIs
<1>8. \A p \in i..e : p \notin Executed(r, q)
  <2>1. i \notin Executed(r, q) /\ i + 1 \notin Executed(r, q)
    BY <1>4, ExecutedType DEF o
  <2>2. \A p \in i + 2..e - 1 : p \notin Executed(r, q)
    BY <1>6, ExecutedType DEF o
  <2>3. e \notin Executed(r, q)
    BY <1>7, ExecutedType DEF o
  <2> QED BY <1>2, <2>1, <2>2, <2>3
<1> QED BY <1>7, <1>8 DEF e, o

LEMMA QuoteSkipped ==
  ASSUME NEW r \in Readings, NEW q \in Queries, NEW i \in 1..Len(q), ~Overlooked(r, q),
         q[i] \in Quotes, In(r, q)[i] = Outside, QuoteEnd(q, i) # 0
  PROVE  /\ In(r, q)[QuoteEnd(q, i) + 1] = Outside
         /\ \A p \in i..QuoteEnd(q, i) : p \notin Executed(r, q)
<1> DEFINE n == Len(q)
           e == QuoteEnd(q, i)
           o == In(r, q)
           t == q[i]
           in == <<t, 0>>
           b == i + 1
<1>0. n \in Nat /\ \A p \in 1..n : o[p + 1] = After(r, o[p], q, p)
  BY QueryType, InIs
<1>1. e \in i + 1..n /\ EndsOf(q, t)[b] = e /\ e \in 1..n /\ b \in 1..n + 1
  BY <1>0, QuoteEndIs
<1> HIDE DEF e, o
<1>2. o[b] = in
  BY <1>0, AfterIs DEF o
<1>3. ASSUME NEW p \in b..e
      PROVE  /\ o[p] = in /\ q[p] = t => o[p + 1] = Outside
             /\ o[p] = in /\ q[p] # t /\ q[p] # "backslash" => o[p + 1] = in
             /\ o[p] = Outside /\ q[p] = t => o[p + 1] = in
  <2>1. p \in 1..n
    BY <1>0, <1>1
  <2>2. o[p + 1] = After(r, o[p], q, p)
    BY <1>0, <2>1
  <2> QED BY <2>1, <2>2, AfterIs
<1>4. /\ o[e + 1] = Outside
      /\ \A p \in b..e : o[p] = in \/ (o[p] = Outside /\ q[p] = t)
  <2>1. Toggles(q, t, b, e, o, in, Outside)
    BY <1>1, <1>2, <1>3 DEF Toggles
  <2> HIDE DEF t, in, b
  <2> QED BY <2>1, QuotesAgree
<1>5. \A p \in i..e : p \notin Executed(r, q)
  <2>1. in[1] # "code"
    BY DEF Quotes
  <2>2. i \notin Executed(r, q)
    BY <1>2, <2>1, ExecutedType DEF o
  <2>3. \A p \in b..e : p \notin Executed(r, q)
    <3> SUFFICES ASSUME NEW p \in b..e, p \in Executed(r, q) PROVE FALSE
      OBVIOUS
    <3>1. o[p][1] = "code" /\ o[p + 1][1] = "code"
      BY ExecutedType DEF o
    <3>2. o[p] # in /\ o[p + 1] # in
      BY <2>1, <3>1
    <3> QED BY <1>3, <1>4, <3>2
  <2>4. \A p \in i..e : p = i \/ p \in b..e
    BY <1>0, <1>1
  <2> QED BY <2>2, <2>3, <2>4
<1> QED BY <1>4, <1>5 DEF e, o

\* A quoted identifier, which stays, is closed where it ends.
LEMMA QuoteCloses ==
  ASSUME NEW q \in Queries, NEW i \in 1..Len(q), q[i] = "double", QuoteEnd(q, i) # 0,
         NEW code \in Code, NEW k \in Nat, k + QuoteEnd(q, i) - i + 1 <= Len(code),
         \A p \in i..QuoteEnd(q, i) : code[k + p - i + 1] = q[p], Open(code)[k] = "none"
  PROVE  Open(code)[k + QuoteEnd(q, i) - i + 1] = "none"
<1> DEFINE n == Len(q)
           e == QuoteEnd(q, i)
           t == "double"
           b == i + 1
           o == [p \in i..e + 1 |-> Open(code)[k + p - i]]
<1>0. n \in Nat /\ Len(code) \in Nat /\ \A p \in 1..n : q[p] \in Token
  BY QueryType, CodeType
<1>1. e \in i + 1..n /\ EndsOf(q, t)[b] = e /\ e \in 1..n /\ b \in 1..n + 1
  BY <1>0, QuoteEndIs
<1> HIDE DEF e
<1>2. ASSUME NEW p \in i..e
      PROVE  o[p + 1] = IF o[p] = "none" /\ q[p] \in Quotes THEN q[p]
                        ELSE IF o[p] = q[p] THEN "none" ELSE o[p]
  <2> DEFINE j == k + p - i + 1
  <2>1. p \in i..e + 1 /\ p + 1 \in i..e + 1
    BY <1>0, <1>1
  <2>2. j \in 1..Len(code) /\ j - 1 = k + p - i /\ j = k + (p + 1) - i
    BY <1>0, <1>1 DEF e
  <2>3. o[p] = Open(code)[j - 1] /\ o[p + 1] = Open(code)[j]
    BY <2>1, <2>2
  <2>4. code[j] = q[p]
    BY DEF e
  <2> HIDE DEF o, j
  <2> QED BY <2>2, <2>3, <2>4, OpenIs
<1>3. o[i] = "none" /\ o[e + 1] = Open(code)[k + e - i + 1]
  <2>1. i \in i..e + 1 /\ e + 1 \in i..e + 1 /\ k + i - i = k /\ k + (e + 1) - i = k + e - i + 1
    BY <1>0, <1>1
  <2> QED BY <2>1
<1> HIDE DEF o
<1>4. o[b] = t
  BY <1>0, <1>1, <1>2, <1>3 DEF Quotes
<1>5. Toggles(q, t, b, e, o, t, "none")
  <2>1. \A p \in b..e : p \in i..e
    BY <1>0, <1>1
  <2> QED BY <1>1, <1>2, <1>4, <2>1 DEF Quotes, Toggles
<1>6. o[e + 1] = "none"
  <2> HIDE DEF t, b
  <2> QED BY <1>5, QuotesAgree
<1> QED BY <1>3, <1>6 DEF e

(* When the lexer has come to i it has put k characters into the code.  What   *)
(* is executed before i is among them, in order and in no quotes, and the  *)
(* first of them that is not blank begins a quote or is executed.          *)
Leading(code, c) == code[c] \notin Blank /\ \A b \in 1..c - 1 : code[b] \in Blank

Mapped(r, q, code, i, k) ==
  LET seen == {p \in Executed(r, q) : p < i}
  IN \E w \in [seen -> 1..k] :
       /\ \A p \in seen : code[w[p]] = q[p] /\ Open(code)[w[p]] = "none"
       /\ \A p, s \in seen : p < s => w[p] < w[s]
       /\ \A c \in 1..k : Leading(code, c) => code[c] \in Quotes \/ \E p \in seen : w[p] = c

Aligned(r, q, i, k) ==
  LET code == SqlCode(q)
      rest == RestOf(q)[i]
  IN /\ i \in 1..Len(q) + 1 /\ k \in Nat
     /\ rest # Rejected /\ Len(code) = k + Len(rest)
     /\ \A c \in 1..Len(rest) : code[k + c] = rest[c]
     /\ In(r, q)[i] = Outside \/ i = Len(q) + 1
     /\ Open(code)[k] = "none"
     /\ Mapped(r, q, code, i, k)

LEMMA MappedBeyond ==
  ASSUME NEW r, NEW q \in Queries, NEW code, NEW i \in 1..Len(q), NEW e \in i..Len(q),
         NEW k \in Nat, NEW m \in Nat, k <= m, Mapped(r, q, code, i, k),
         \A p \in i..e : p \notin Executed(r, q),
         \A c \in k + 1..m : Leading(code, c) => code[c] \in Quotes
  PROVE  Mapped(r, q, code, e + 1, m)
<1> DEFINE seen == {p \in Executed(r, q) : p < i}
           more == {p \in Executed(r, q) : p < e + 1}
<1>0. Len(q) \in Nat /\ \A p \in Executed(r, q) : p \in 1..Len(q)
  BY QueryType, ExecutedType
<1>1. more = seen
  <2>1. \A p \in Executed(r, q) : p < e + 1 <=> p < i
    <3> SUFFICES ASSUME NEW p \in Executed(r, q) PROVE p < e + 1 <=> p < i
      OBVIOUS
    <3>1. p \in Int /\ ~(p \in i..e)
      BY <1>0
    <3> QED BY <1>0, <3>1
  <2> QED BY <2>1
<1> HIDE DEF seen, more
<1>2. PICK w \in [seen -> 1..k] :
        /\ \A p \in seen : code[w[p]] = q[p] /\ Open(code)[w[p]] = "none"
        /\ \A p, s \in seen : p < s => w[p] < w[s]
        /\ \A c \in 1..k : Leading(code, c) => code[c] \in Quotes \/ \E p \in seen : w[p] = c
  BY Zenon DEF Mapped, seen
<1>3. w \in [seen -> 1..m]
  BY <1>2
<1>4. \A c \in 1..m : c \in 1..k \/ c \in k + 1..m
  OBVIOUS
<1>5. \A c \in 1..m : Leading(code, c) => code[c] \in Quotes \/ \E p \in seen : w[p] = c
  BY <1>2, <1>4
<1>6. \E u \in [seen -> 1..m] :
        /\ \A p \in seen : code[u[p]] = q[p] /\ Open(code)[u[p]] = "none"
        /\ \A p, s \in seen : p < s => u[p] < u[s]
        /\ \A c \in 1..m : Leading(code, c) => code[c] \in Quotes \/ \E p \in seen : u[p] = c
  <2>1. w \in [seen -> 1..m]
    BY <1>3
  <2> WITNESS w \in [seen -> 1..m]
  <2> QED BY <1>2, <1>5, Zenon
<1>7. \E u \in [more -> 1..m] :
        /\ \A p \in more : code[u[p]] = q[p] /\ Open(code)[u[p]] = "none"
        /\ \A p, s \in more : p < s => u[p] < u[s]
        /\ \A c \in 1..m : Leading(code, c) => code[c] \in Quotes \/ \E p \in more : u[p] = c
  BY <1>1, <1>6
<1> QED BY <1>7, Zenon DEF Mapped, more

LEMMA MappedNext ==
  ASSUME NEW r, NEW q \in Queries, NEW code, NEW i \in Executed(r, q),
         NEW k \in Nat, Mapped(r, q, code, i, k),
         code[k + 1] = q[i], Open(code)[k + 1] = "none"
  PROVE  Mapped(r, q, code, i + 1, k + 1)
<1> DEFINE seen == {p \in Executed(r, q) : p < i}
           more == {p \in Executed(r, q) : p < i + 1}
<1>0. Len(q) \in Nat /\ \A p \in Executed(r, q) : p \in 1..Len(q)
  BY QueryType, ExecutedType
<1>1. /\ \A p \in more : p \in Int /\ (p \in seen \/ p = i)
      /\ \A p \in seen : p \in more /\ p # i /\ p < i /\ p \in Int
      /\ i \in more /\ i \in Int
  BY <1>0
<1>2. PICK w \in [seen -> 1..k] :
        /\ \A p \in seen : code[w[p]] = q[p] /\ Open(code)[w[p]] = "none"
        /\ \A p, s \in seen : p < s => w[p] < w[s]
        /\ \A c \in 1..k : Leading(code, c) => code[c] \in Quotes \/ \E p \in seen : w[p] = c
  BY Zenon DEF Mapped
<1> HIDE DEF seen, more
<1> DEFINE v == [p \in more |-> IF p = i THEN k + 1 ELSE w[p]]
<1>3. v[i] = k + 1 /\ \A p \in seen : v[p] = w[p] /\ w[p] \in 1..k
  BY <1>1
<1>4. v \in [more -> 1..k + 1]
  BY <1>1
<1> HIDE DEF v
<1>5. \A p \in more : code[v[p]] = q[p] /\ Open(code)[v[p]] = "none"
  BY <1>1, <1>2, <1>3
<1>6. ASSUME NEW p \in more, NEW s \in more, p < s
      PROVE  v[p] < v[s]
  <2>1. p \in seen
    BY <1>1, <1>6
  <2>2. CASE s \in seen
    BY <1>2, <1>3, <1>6, <2>1, <2>2
  <2>3. CASE s = i
    BY <1>3, <2>1, <2>3
  <2> QED BY <1>1, <2>2, <2>3
<1>7. ASSUME NEW c \in 1..k + 1, Leading(code, c)
      PROVE  code[c] \in Quotes \/ \E p \in more : v[p] = c
  <2>1. CASE c \in 1..k
    BY <1>1, <1>2, <1>3, <1>7, <2>1
  <2>2. CASE c = k + 1
    BY <1>1, <1>3, <2>2
  <2> QED BY <2>1, <2>2
<1> QED BY <1>4, <1>5, <1>6, <1>7 DEF Mapped, more

LEMMA AlignedAtStart ==
  ASSUME NEW r, NEW q \in Queries, SqlCode(q) # Rejected
  PROVE  Aligned(r, q, 1, 0)
<1> DEFINE code == SqlCode(q)
           seen == {p \in Executed(r, q) : p < 1}
<1>0. Len(q) \in Nat
  BY QueryType
<1>1. code = RestOf(q)[1] /\ code \in Code
  BY <1>0, SqlCodeIs, RestIs
<1>2. Len(code) \in Nat /\ Open(code)[0] = "none" /\ In(r, q)[1] = Outside
  BY <1>1, CodeType, OpenIs, InIs DEF Outside
<1>3. seen = {}
  BY <1>0, ExecutedType
<1>4. Mapped(r, q, code, 1, 0)
  <2> DEFINE w == [p \in seen |-> 0]
  <2>1. w \in [seen -> 1..0]
    BY <1>3
  <2> HIDE DEF w
  <2>2. \A c \in 1..0 : FALSE
    OBVIOUS
  <2> HIDE DEF code
  <2> QED BY <1>3, <2>1, <2>2 DEF Mapped
<1>5. \A c \in 1..Len(code) : code[0 + c] = code[c]
  <2>1. \A c \in 1..Len(code) : 0 + c = c
    OBVIOUS
  <2> QED BY <2>1
<1> HIDE DEF code
<1> QED BY <1>0, <1>1, <1>2, <1>4, <1>5 DEF Aligned, code

\* What the lexer makes of what begins at i.
LEMMA Advance ==
  ASSUME NEW r, NEW q \in Queries, NEW i \in 1..Len(q), NEW k \in Nat, Aligned(r, q, i, k)
  PROVE  LET code == SqlCode(q)
             by == CodeAt(q, i)
             e == EndAt(q, i)
             rest == RestOf(q)[e + 1]
         IN /\ e \in i..Len(q) /\ by \in Code /\ code \in Code
            /\ rest # Rejected /\ Len(code) = (k + Len(by)) + Len(rest)
            /\ \A c \in 1..Len(by) : code[k + c] = by[c]
            /\ \A c \in 1..Len(rest) : code[(k + Len(by)) + c] = rest[c]
<1> DEFINE n == Len(q)
           code == SqlCode(q)
           by == CodeAt(q, i)
           e == EndAt(q, i)
           rest == RestOf(q)[e + 1]
           here == RestOf(q)[i]
<1>0. n \in Nat
  BY QueryType
<1>1. here = Masked(RestOf(q), by, e) /\ here # Rejected
  BY RestIs DEF Aligned
<1>2. e # 0 /\ rest # Rejected /\ here = by \o rest
  BY <1>1 DEF Masked
<1>3. e \in i..n
  BY <1>2, EndAtType
<1>4. by \in Code
  BY <1>2, CodeAtType
<1>5. rest \in Code /\ code \in Code
  <2>1. e + 1 \in 1..n + 1 /\ 1 \in 1..n + 1
    BY <1>0, <1>3
  <2> QED BY <2>1, RestIs, SqlCodeIs
<1>6. /\ Len(code) = k + Len(here) /\ k \in Nat
      /\ \A c \in 1..Len(here) : code[k + c] = here[c]
  BY DEF Aligned
<1> HIDE DEF code, by, e, rest, here
<1>7. /\ Len(here) = Len(by) + Len(rest) /\ Len(by) \in Nat /\ Len(rest) \in Nat
      /\ \A c \in 1..Len(by) : here[c] = by[c]
      /\ \A c \in 1..Len(rest) : here[Len(by) + c] = rest[c]
  BY <1>2, <1>4, <1>5, CodeType
<1>8. \A c \in 1..Len(by) : code[k + c] = by[c]
  <2>1. \A c \in 1..Len(by) : c \in 1..Len(here)
    BY <1>7
  <2> QED BY <1>6, <1>7, <2>1
<1>9. \A c \in 1..Len(rest) : code[(k + Len(by)) + c] = rest[c]
  <2>1. \A c \in 1..Len(rest) : /\ Len(by) + c \in 1..Len(here)
                                /\ (k + Len(by)) + c = k + (Len(by) + c)
    BY <1>6, <1>7
  <2> QED BY <1>6, <1>7, <2>1
<1>10. Len(code) = (k + Len(by)) + Len(rest)
  BY <1>6, <1>7
<1> QED BY <1>2, <1>3, <1>4, <1>5, <1>8, <1>9, <1>10 DEF code, by, e, rest

LEMMA StaysAligned ==
  ASSUME NEW r \in Readings, NEW q \in Queries, NEW i \in 1..Len(q), NEW k \in Nat,
         ~Overlooked(r, q), Aligned(r, q, i, k)
  PROVE  Aligned(r, q, EndAt(q, i) + 1, k + Len(CodeAt(q, i)))
<1> DEFINE n == Len(q)
           code == SqlCode(q)
           by == CodeAt(q, i)
           e == EndAt(q, i)
           m == k + Len(by)
           rest == RestOf(q)[e + 1]
           o == In(r, q)
<1>0. n \in Nat /\ q[i] \in Token /\ q \in Seq(Token)
  BY QueryType
<1>1. /\ e \in i..n /\ by \in Code /\ code \in Code
      /\ rest # Rejected /\ Len(code) = m + Len(rest)
      /\ \A c \in 1..Len(by) : code[k + c] = by[c]
      /\ \A c \in 1..Len(rest) : code[m + c] = rest[c]
  BY Advance
<1>2. /\ k \in Nat /\ Open(code)[k] = "none" /\ Mapped(r, q, code, i, k)
      /\ o[i] = Outside \/ i = n + 1
  BY DEF Aligned
<1>3. o[i] = Outside
  BY <1>0, <1>2
<1>4. Len(by) \in Nat /\ Len(code) \in Nat /\ Len(rest) \in Nat /\ m \in Nat /\ k <= m
      /\ m <= Len(code)
  <2>1. Len(by) \in Nat /\ Len(code) \in Nat
    BY <1>1, CodeType
  <2>2. Len(rest) \in Nat
    <3>1. e + 1 \in 1..n + 1
      BY <1>0, <1>1
    <3> QED BY <3>1, RestIs, CodeType
  <2> HIDE DEF code, by, rest
  <2> QED BY <1>1, <1>2, <2>1, <2>2
<1> SUFFICES /\ o[e + 1] = Outside \/ e = n
             /\ Open(code)[m] = "none" /\ Mapped(r, q, code, e + 1, m)
  <2>1. e + 1 \in 1..n + 1
    BY <1>0, <1>1
  <2> HIDE DEF code, by, rest, o, e, n
  <2> QED BY <1>1, <1>4, <2>1 DEF Aligned, code, by, rest, o, e, n
<1>5. CASE BeginsLine(q, i) \/ BeginsComment(q, i) \/ q[i] = "single"
  <2>1. by = <<"blank">> /\ Len(by) = 1 /\ by[1] = "blank"
    BY <1>5 DEF CodeAt
  <2>2. m = k + 1 /\ code[m] = "blank" /\ m \in 1..Len(code) /\ m - 1 = k
    <3>1. m = k + 1 /\ 1 \in 1..Len(by)
      BY <2>1
    <3>2. code[k + 1] = by[1]
      BY <1>1, <3>1
    <3> QED BY <1>2, <1>4, <2>1, <3>1, <3>2
  <2>3. Open(code)[m] = "none"
    <3> HIDE DEF m, code
    <3> QED BY <1>1, <1>2, <2>2, OpenIs DEF Quotes
  <2>4. /\ o[e + 1] = Outside \/ e = n
        /\ \A p \in i..e : p \notin Executed(r, q)
    <3>1. CASE BeginsLine(q, i)
      <4>1. e = LineEnd(q, i)
        BY <3>1 DEF EndAt
      <4> QED BY <1>3, <3>1, <4>1, LineSkipped
    <3>2. CASE BeginsComment(q, i)
      <4>1. e = CommentEnd(q, i) /\ e # 0
        BY <1>0, <1>1, <3>2, Beginnings DEF EndAt
      <4> QED BY <1>3, <3>2, <4>1, CommentSkipped
    <3>3. CASE q[i] = "single"
      <4>1. e = QuoteEnd(q, i) /\ e # 0
        BY <1>0, <1>1, <3>3, Beginnings DEF EndAt, Quotes
      <4>2. q[i] \in Quotes
        BY <3>3 DEF Quotes
      <4> QED BY <1>3, <4>1, <4>2, QuoteSkipped
    <3> QED BY <1>5, <3>1, <3>2, <3>3
  <2>5. \A c \in k + 1..m : Leading(code, c) => code[c] \in Quotes
    <3>1. \A c \in k + 1..m : c = m
      BY <1>2, <2>2
    <3> QED BY <2>2, <3>1 DEF Leading, Blank
  <2>6. Mapped(r, q, code, e + 1, m)
    <3> HIDE DEF m, code, e, n
    <3> QED BY <1>1, <1>2, <1>4, <2>4, <2>5, MappedBeyond DEF n
  <2> QED BY <2>3, <2>4, <2>6
<1>6. CASE q[i] = "double"
  <2>1. by = SubSeq(q, i, e) /\ e = QuoteEnd(q, i) /\ e # 0
    <3>1. by = SubSeq(q, i, QuoteEnd(q, i)) /\ e = QuoteEnd(q, i)
      BY <1>6, Beginnings DEF CodeAt, EndAt, Quotes
    <3>2. e # 0
      BY <1>0, <1>1
    <3> QED BY <3>1, <3>2
  <2>2. Len(by) = e - i + 1 /\ \A c \in 1..Len(by) : by[c] = q[i + c - 1]
    <3>1. by = SubSeq(q, i, e) /\ i \in 1..Len(q) + 1 /\ e \in i - 1..Len(q)
      BY <1>0, <1>1, <2>1
    <3> HIDE DEF e, by
    <3> QED BY <1>0, <3>1
  <2>3. \A p \in i..e : code[k + p - i + 1] = q[p]
    <3> SUFFICES ASSUME NEW p \in i..e PROVE code[k + p - i + 1] = q[p]
      OBVIOUS
    <3> DEFINE c == p - i + 1
    <3>1. c \in 1..Len(by) /\ k + c = k + p - i + 1 /\ i + c - 1 = p
      <4>1. e \in Int /\ Len(by) = e - i + 1
        BY <1>0, <1>1, <2>2
      <4> HIDE DEF e, by
      <4> QED BY <4>1
    <3> HIDE DEF c, code, by
    <3> QED BY <1>1, <2>2, <3>1
  <2>4. m = k + e - i + 1
    BY <1>0, <1>1, <1>2, <2>2
  <2>5. Open(code)[m] = "none"
    <3>1. k + e - i + 1 <= Len(code)
      BY <1>4, <2>4
    <3> HIDE DEF m, code, e
    <3> QED BY <1>1, <1>2, <1>6, <2>1, <2>3, <2>4, <3>1, QuoteCloses
  <2>6. o[e + 1] = Outside /\ \A p \in i..e : p \notin Executed(r, q)
    <3>1. q[i] \in Quotes
      BY <1>6 DEF Quotes
    <3> QED BY <1>3, <2>1, <3>1, QuoteSkipped
  <2>7. \A c \in k + 1..m : Leading(code, c) => code[c] \in Quotes
    <3> SUFFICES ASSUME NEW c \in k + 1..m, Leading(code, c) PROVE code[c] \in Quotes
      OBVIOUS
    <3>1. code[k + 1] = "double"
      <4>1. i \in i..e /\ k + i - i + 1 = k + 1
        BY <1>0, <1>1, <1>2
      <4> QED BY <1>6, <2>3, <4>1
    <3>2. ~(k + 1 \in 1..c - 1)
      BY <3>1 DEF Leading, Blank
    <3>3. c = k + 1
      BY <1>2, <1>4, <3>2
    <3> QED BY <3>1, <3>3 DEF Quotes
  <2>8. Mapped(r, q, code, e + 1, m)
    <3> HIDE DEF m, code, e, n
    <3> QED BY <1>1, <1>2, <1>4, <2>6, <2>7, MappedBeyond DEF n
  <2> QED BY <2>5, <2>6, <2>8
<1>7. CASE ~BeginsLine(q, i) /\ ~BeginsComment(q, i) /\ q[i] \notin Quotes
  <2>1. q[i] \notin Unsupported
    BY <1>0, <1>1, <1>7 DEF EndAt
  <2>2. e = i /\ by = <<q[i]>> /\ Len(by) = 1 /\ by[1] = q[i]
    BY <1>7, <2>1 DEF EndAt, CodeAt, Quotes
  <2>3. m = k + 1 /\ code[m] = q[i] /\ m \in 1..Len(code) /\ m - 1 = k
    <3>1. m = k + 1 /\ 1 \in 1..Len(by)
      BY <2>2
    <3>2. code[k + 1] = by[1]
      BY <1>1, <3>1
    <3> QED BY <1>2, <1>4, <2>2, <3>1, <3>2
  <2>4. Open(code)[m] = "none"
    <3>1. q[i] # "none"
      BY <1>0 DEF Token, Quotes, Blank, Unsupported
    <3>2. q[i] \notin Quotes
      BY <1>7
    <3> HIDE DEF m, code
    <3>3. Open(code)[m] =
            IF Open(code)[m - 1] = "none" /\ code[m] \in Quotes THEN code[m]
            ELSE IF Open(code)[m - 1] = code[m] THEN "none" ELSE Open(code)[m - 1]
      BY <1>1, <2>3, OpenIs
    <3>4. Open(code)[m - 1] = "none" /\ code[m] = q[i]
      BY <1>2, <2>3
    <3> QED BY <3>1, <3>2, <3>3, <3>4
  <2>5. o[e + 1] = Outside
    <3>1. o[i + 1] = After(r, Outside, q, i)
      BY <1>3, InIs
    <3> QED BY <1>7, <2>2, <3>1, AfterIs
  <2>6. CASE q[i] \in Blank
    <3>1. \A p \in i..e : p \notin Executed(r, q)
      <4>1. \A p \in i..e : p = i
        BY <1>0, <2>2
      <4> QED BY <2>6, <4>1, ExecutedType
    <3>2. \A c \in k + 1..m : Leading(code, c) => code[c] \in Quotes
      <4>1. \A c \in k + 1..m : c = m
        BY <1>2, <2>3
      <4> QED BY <2>3, <2>6, <4>1 DEF Leading
    <3>3. Mapped(r, q, code, e + 1, m)
      <4> HIDE DEF m, code, e, n
      <4> QED BY <1>1, <1>2, <1>4, <3>1, <3>2, MappedBeyond DEF n
    <3> QED BY <2>4, <2>5, <3>3
  <2>7. CASE q[i] \notin Blank
    <3>1. i \in Executed(r, q)
      <4>1. o[i][1] = "code" /\ o[i + 1][1] = "code"
        BY <1>3, <2>2, <2>5 DEF Outside
      <4> QED BY <1>0, <2>7, <4>1, QueryType DEF Executed
    <3>2. Mapped(r, q, code, i + 1, k + 1)
      BY <1>2, <2>3, <2>4, <3>1, MappedNext
    <3> QED BY <2>2, <2>3, <2>4, <2>5, <3>2
  <2> QED BY <2>6, <2>7
<1> QED BY <1>5, <1>6, <1>7 DEF Quotes

LEMMA AlignedAtEnd ==
  ASSUME NEW r \in Readings, NEW q \in Queries, ~Overlooked(r, q), SqlCode(q) # Rejected
  PROVE  \E k \in Nat : Aligned(r, q, Len(q) + 1, k)
<1> DEFINE n == Len(q)
           T == {d \in 0..n : \E k \in Nat : Aligned(r, q, n + 1 - d, k)}
<1>0. n \in Nat
  BY QueryType
<1>1. T \subseteq Nat /\ T # {}
  <2>1. n \in 0..n /\ n + 1 - n = 1
    BY <1>0
  <2> QED BY <2>1, AlignedAtStart
<1>2. PICK d \in T : \A x \in T : d <= x
  BY <1>1, LeastNumber
<1>3. PICK k \in Nat : Aligned(r, q, n + 1 - d, k)
  BY <1>2
<1>4. CASE d = 0
  <2>1. n + 1 - d = n + 1
    BY <1>0, <1>4
  <2> QED BY <1>3, <2>1
<1>5. CASE d # 0
  <2> DEFINE i == n + 1 - d
             e == EndAt(q, i)
             m == k + Len(CodeAt(q, i))
  <2>1. i \in 1..n /\ d \in 0..n
    BY <1>0, <1>5
  <2>2. e \in i..n /\ CodeAt(q, i) \in Code
    BY <1>3, <2>1, Advance
  <2>3. m \in Nat
    <3>1. Len(CodeAt(q, i)) \in Nat
      BY <2>2, CodeType
    <3> QED BY <3>1
  <2>4. Aligned(r, q, e + 1, m)
    BY <1>3, <2>1, StaysAligned
  <2> HIDE DEF m, e
  <2>5. n - e \in 0..n /\ n - e < d /\ n + 1 - (n - e) = e + 1
    BY <1>0, <2>1, <2>2
  <2>6. n - e \in T
    BY <2>3, <2>4, <2>5
  <2> QED BY <1>0, <1>2, <2>1, <2>2, <2>5, <2>6
<1> QED BY <1>4, <1>5

LEMMA FirstIs ==
  ASSUME NEW code \in Code, First(code) = "read"
  PROVE  \E c \in 1..Len(code) : Leading(code, c) /\ code[c] = "read"
<1> DEFINE solid == {i \in DOMAIN code : code[i] \notin Blank}
<1>0. Len(code) \in Nat /\ DOMAIN code = 1..Len(code)
  BY CodeType
<1>1. solid # {} /\ code[CHOOSE i \in solid : \A j \in solid : i <= j] = "read"
  BY DEF First
<1>2. PICK c \in solid : \A j \in solid : c <= j
  <2>1. solid \subseteq Nat
    BY <1>0
  <2> HIDE DEF solid
  <2> QED BY <1>1, <2>1, LeastNumber
<1> DEFINE d == CHOOSE i \in solid : \A j \in solid : i <= j
<1>3. d \in solid /\ (\A j \in solid : d <= j) /\ code[d] = "read"
  <2> HIDE DEF solid
  <2> QED BY <1>1, <1>2
<1> HIDE DEF d
<1>4. d \in 1..Len(code) /\ code[d] \notin Blank
  BY <1>0, <1>3
<1>5. ASSUME NEW b \in 1..d - 1 PROVE code[b] \in Blank
  BY <1>0, <1>3, <1>4
<1> QED BY <1>3, <1>4, <1>5 DEF Leading

LEMMA InvSql == SqlReadsTheSame
<1> SUFFICES ASSUME NEW q \in Queries, ReadOnly(q), NEW r \in Readings, ~Overlooked(r, q)
             PROVE  LET run == Executed(r, q)
                    IN /\ \E i \in run : q[i] = "read" /\ \A j \in run : i <= j
                       /\ \A i \in run : q[i] # "write"
                       /\ \A i, j \in run : i < j /\ q[i] = "separator" => q[j] = "separator"
  BY DEF SqlReadsTheSame
<1> DEFINE run == Executed(r, q)
           code == SqlCode(q)
           n == Len(q)
<1>0. n \in Nat /\ \A p \in run : p \in 1..n /\ q[p] \notin Blank
  BY QueryType, ExecutedType
<1>1. /\ code # Rejected /\ Cardinality(Statements(code)) <= 1
      /\ "write" \notin {code[c] : c \in DOMAIN code} /\ First(code) = "read"
  BY DEF ReadOnly
<1>2. PICK k \in Nat : Aligned(r, q, n + 1, k)
  BY <1>1, AlignedAtEnd
<1>3. code \in Code /\ Len(code) \in Nat /\ DOMAIN code = 1..Len(code)
  <2>1. 1 \in 1..n + 1
    BY <1>0
  <2> QED BY <2>1, SqlCodeIs, RestIs, CodeType
<1>4. Len(code) = k /\ Mapped(r, q, code, n + 1, k)
  <2>1. Len(code) = k + Len(RestOf(q)[n + 1]) /\ Mapped(r, q, code, n + 1, k)
    BY <1>2 DEF Aligned
  <2>2. Len(RestOf(q)[n + 1]) = 0
    BY RestIs
  <2> QED BY <2>1, <2>2
<1> DEFINE seen == {p \in run : p < n + 1}
<1>5. seen = run
  BY <1>0
<1> HIDE DEF code
<1>6. PICK w \in [run -> 1..k] :
        /\ \A p \in run : code[w[p]] = q[p] /\ Open(code)[w[p]] = "none"
        /\ \A p, s \in run : p < s => w[p] < w[s]
        /\ \A c \in 1..k : Leading(code, c) => code[c] \in Quotes \/ \E p \in run : w[p] = c
  <2>1. PICK w \in [seen -> 1..k] :
          /\ \A p \in seen : code[w[p]] = q[p] /\ Open(code)[w[p]] = "none"
          /\ \A p, s \in seen : p < s => w[p] < w[s]
          /\ \A c \in 1..k : Leading(code, c) => code[c] \in Quotes \/ \E p \in seen : w[p] = c
    BY <1>4 DEF Mapped
  <2> HIDE DEF run, seen
  <2> QED BY <1>5, <2>1
<1> HIDE DEF run, seen
<1>7. PICK c \in 1..k : Leading(code, c) /\ code[c] = "read"
  BY <1>1, <1>3, <1>4, FirstIs
<1>8. PICK i \in run : w[i] = c
  BY <1>6, <1>7 DEF Quotes
<1>9. \A p \in run : w[p] \in 1..k /\ code[w[p]] \notin Blank
  BY <1>0, <1>6
<1>10. ASSUME NEW j \in run PROVE i <= j
  <2> SUFFICES ASSUME j < i PROVE FALSE
    BY <1>0
  <2>1. w[j] \in 1..c - 1
    BY <1>6, <1>8, <1>9
  <2> QED BY <1>7, <1>9, <2>1 DEF Leading
<1>11. q[i] = "read"
  BY <1>6, <1>7, <1>8
<1>12. \A p \in run : q[p] # "write"
  BY <1>1, <1>3, <1>4, <1>6, <1>9
<1>13. ASSUME NEW p \in run, NEW j \in run, p < j, q[p] = "separator", q[j] # "separator"
       PROVE  FALSE
  <2>1. i <= p /\ i # p
    BY <1>10, <1>11, <1>13
  <2>2. w[i] < w[p] /\ w[p] < w[j]
    BY <1>0, <1>6, <1>13, <2>1
  <2>3. /\ c \in 1..Len(code) /\ w[p] \in 1..Len(code) /\ w[j] \in 1..Len(code)
        /\ c < w[p] /\ w[p] < w[j]
        /\ code[w[p]] = "separator" /\ Open(code)[w[p]] = "none"
        /\ code[c] \notin Blank \cup {"separator"} /\ code[w[j]] \notin Blank \cup {"separator"}
    BY <1>4, <1>6, <1>7, <1>8, <1>9, <1>13, <2>2 DEF Leading
  <2> QED BY <1>1, <1>3, <2>3, TwoStatements
<1> QED BY <1>10, <1>11, <1>12, <1>13 DEF run

(* Whatever the query and the conventions of the database, a query that    *)
(* passes (validators/basic.py, validate_sql_read_only) is one statement   *)
(* that begins with a read and executes nothing that writes, unless it has *)
(* one of the three shapes the lexer overlooks and the database reads it   *)
(* by the convention concerned.                                            *)
THEOREM SqlIsReadAlike == Spec => []SqlReadsTheSame
BY InvSql, PTL
=============================================================================
