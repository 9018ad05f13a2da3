------------------------- MODULE ApprovalGateProofs -------------------------
(***************************************************************************)
(* Proofs about ApprovalGate for any number of calls, reviewers, people    *)
(* and approvals.  The argument: what a thread holds is a row it alone     *)
(* turned from approved into consumed, so the step that reaches the        *)
(* upstream server is the abstract Pass of that row's only user.           *)
(***************************************************************************)
EXTENDS ApprovalGate, TLAPS

(* What the position of a thread says about the call it handles.           *)
CallInv ==
  \A c \in Calls :
    /\ pc[c] # "idle" => request[c] \in Request
    /\ pc[c] \in {"idle", "checking", "asking", "created"} => holds[c] = NoId
    /\ pc[c] \in {"holding", "armed", "sent"} => holds[c] \in Ids
    /\ pc[c] = "created" => asked[c] \in Ids
    /\ c \in upstream => pc[c] \in {"sent"} \cup Over /\ holds[c] \in Ids
    /\ StrictAudit /\ (pc[c] = "armed" \/ pc[c] = "sent" \/ c \in upstream) => c \in intents

(* What the position of a reviewer's session says about its decision.      *)
SessionInv ==
  \A d \in Sessions :
    spc[d] # "idle" =>
      /\ decision[d] \in Decision
      /\ approvals[decision[d].id] # NoApproval
      /\ spc[d] = "intended" /\ StrictAudit =>
           [event |-> "decision_intent", id |-> decision[d].id,
            verdict |-> decision[d].verdict, by |-> decision[d].who] \in trail

(* A granted row carries its reviewer, whose intent was logged first; an   *)
(* undecided one carries nobody.                                           *)
GrantInv ==
  \A i \in Ids :
    approvals[i] # NoApproval =>
      /\ approvals[i].status = "pending" => approvals[i].decidedBy = NoOne
      /\ approvals[i].status \in {"approved", "consumed"} =>
           /\ approvals[i].decidedBy \in People
           /\ StrictAudit =>
                [event |-> "decision_intent", id |-> i,
                 verdict |-> "approved", by |-> approvals[i].decidedBy] \in trail

(* The approval a call holds is consumed, in time, for this very caller.   *)
HoldInv ==
  \A c \in Calls :
    holds[c] \in Ids =>
      LET a == approvals[holds[c]] IN
      /\ a # NoApproval
      /\ a.status = "consumed"
      /\ a.who = request[c].who /\ a.binding = request[c].binding
      /\ a.consumedAt \in Int /\ a.consumedAt < a.expiresAt

(* Two calls never hold the same approval.                                 *)
OneHolder ==
  \A c, d \in Calls : holds[c] \in Ids /\ holds[c] = holds[d] => c = d

IInv == TypeOK /\ CallInv /\ SessionInv /\ GrantInv /\ HoldInv /\ OneHolder

-----------------------------------------------------------------------------
USE SwitchAssumption, TimeAssumption, NullAssumption

LEMMA InitIInv == Init => IInv
BY DEF Init, IInv, TypeOK, CallInv, SessionInv, GrantInv, HoldInv, OneHolder

LEMMA ReceiveStep ==
  ASSUME IInv, NEW c \in Calls, Receive(c)
  PROVE  IInv'
<1> USE DEF IInv, Receive, callVars, sessionVars
<1>1. TypeOK'
  BY DEF TypeOK, InFlight, Over, Approval, Request, Decision, TrailEvent, Verdicts, Statuses, Exists
<1>2. CallInv'
  BY DEF CallInv, TypeOK, InFlight, Over, Exists
<1>3. SessionInv'
  BY DEF SessionInv, TypeOK, TrailEvent, Exists
<1>4. GrantInv'
  BY DEF GrantInv, TypeOK, Exists
<1>5. HoldInv'
  BY DEF HoldInv, CallInv, TypeOK, Exists
<1>6. OneHolder'
  BY DEF OneHolder, CallInv, HoldInv, TypeOK, Exists
<1> QED BY <1>1, <1>2, <1>3, <1>4, <1>5, <1>6

LEMMA ConsumeStep ==
  ASSUME IInv, NEW c \in Calls, Consume(c)
  PROVE  IInv'
<1> USE DEF IInv, Consume, sessionVars
<1> DEFINE i == request[c].presents
           a == approvals[i]
           b == Consumed(a)
<1>1. /\ i \in Ids /\ a \in Approval /\ a.status = "approved" /\ a.expiresAt > now
      /\ a.who = request[c].who /\ a.binding = request[c].binding
  BY DEF TypeOK, IsValid, IsActive, Exists
<1>2. /\ b \in Approval /\ b # NoApproval /\ b.status = "consumed"
      /\ b.consumedAt \in Int /\ b.consumedAt < b.expiresAt
      /\ b.who = a.who /\ b.binding = a.binding /\ b.decidedBy = a.decidedBy
  <2>1. now \in Int
    BY DEF TypeOK
  <2>2. b = [a EXCEPT !.status = "consumed", !.consumedAt = now]
    BY DEF Consumed
  <2> HIDE DEF a, b, i
  <2>3. b \in Approval
    BY <1>1, <2>1, <2>2 DEF Approval, Statuses
  <2> QED BY <1>1, <2>1, <2>2, <2>3 DEF Approval
<1>3. approvals' = [approvals EXCEPT ![i] = b]
  OBVIOUS
<1> HIDE DEF i, a, b
<1>4. TypeOK'
  BY <1>1, <1>2, <1>3 DEF TypeOK, InFlight, Over, i
<1>5. CallInv'
  BY <1>1 DEF CallInv, TypeOK, InFlight, Over, i
<1>6. SessionInv'
  BY <1>1, <1>2, <1>3 DEF SessionInv, TypeOK, Decision
<1>7. GrantInv'
  BY <1>1, <1>2, <1>3 DEF GrantInv, TypeOK, a
<1>8. HoldInv'
  BY <1>1, <1>2, <1>3 DEF HoldInv, CallInv, TypeOK, i, a
<1>9. OneHolder'
  BY <1>1 DEF OneHolder, HoldInv, TypeOK, i, a
<1> QED BY <1>4, <1>5, <1>6, <1>7, <1>8, <1>9

LEMMA AskAgainStep ==
  ASSUME IInv, NEW c \in Calls, AskAgain(c)
  PROVE  IInv'
<1> USE DEF IInv, AskAgain, callVars, sessionVars
<1>1. TypeOK'
  BY DEF TypeOK, InFlight, Over, Approval, Request, Decision, TrailEvent, Verdicts, Statuses
<1>2. CallInv'
  BY DEF CallInv, TypeOK, InFlight, Over
<1>3. SessionInv'
  BY DEF SessionInv, TypeOK, TrailEvent
<1>4. GrantInv'
  BY DEF GrantInv, TypeOK
<1>5. HoldInv'
  BY DEF HoldInv, CallInv, TypeOK
<1>6. OneHolder'
  BY DEF OneHolder, CallInv, HoldInv, TypeOK
<1> QED BY <1>1, <1>2, <1>3, <1>4, <1>5, <1>6

LEMMA CreateStep ==
  ASSUME IInv, NEW c \in Calls, Create(c)
  PROVE  IInv'
<1> USE DEF IInv, Create, callVars, sessionVars
<1>0. NewApproval(request[c]) \in Approval
  BY DEF CallInv, TypeOK, NewApproval, Approval, Statuses, Request
<1>1. TypeOK'
  BY <1>0 DEF TypeOK, InFlight, Over
<1>2. CallInv'
  BY DEF CallInv, TypeOK, InFlight, Over, NewApproval, Exists, Approval
<1>3. SessionInv'
  BY DEF SessionInv, TypeOK, TrailEvent, NewApproval, Exists, Approval
<1>4. GrantInv'
  BY DEF GrantInv, TypeOK, NewApproval, Exists, Approval
<1>5. HoldInv'
  BY DEF HoldInv, CallInv, TypeOK, NewApproval, Exists, Approval
<1>6. OneHolder'
  BY DEF OneHolder, CallInv, HoldInv, TypeOK, NewApproval, Exists, Approval
<1> QED BY <1>1, <1>2, <1>3, <1>4, <1>5, <1>6

LEMMA AnnounceStep ==
  ASSUME IInv, NEW c \in Calls, Announce(c)
  PROVE  IInv'
<1> USE DEF IInv, Announce, callVars, sessionVars
<1>0. [event |-> "created", id |-> asked[c], verdict |-> "none", by |-> NoOne]
        \in TrailEvent
  BY DEF CallInv, TypeOK, TrailEvent, Decision, Verdicts
<1>1. TypeOK'
  BY <1>0 DEF TypeOK, InFlight, Over
<1>2. CallInv'
  BY DEF CallInv, TypeOK, InFlight, Over
<1>3. SessionInv'
  BY DEF SessionInv, TypeOK, TrailEvent
<1>4. GrantInv'
  BY DEF GrantInv, TypeOK
<1>5. HoldInv'
  BY DEF HoldInv, CallInv, TypeOK
<1>6. OneHolder'
  BY DEF OneHolder, CallInv, HoldInv, TypeOK
<1> QED BY <1>1, <1>2, <1>3, <1>4, <1>5, <1>6

LEMMA LogIntentStep ==
  ASSUME IInv, NEW c \in Calls, LogIntent(c)
  PROVE  IInv'
<1> USE DEF IInv, LogIntent, callVars, sessionVars
<1>1. TypeOK'
  BY DEF TypeOK, InFlight, Over, Approval, Request, Decision, TrailEvent, Verdicts, Statuses
<1>2. CallInv'
  BY DEF CallInv, TypeOK, InFlight, Over
<1>3. SessionInv'
  BY DEF SessionInv, TypeOK, TrailEvent
<1>4. GrantInv'
  BY DEF GrantInv, TypeOK
<1>5. HoldInv'
  BY DEF HoldInv, CallInv, TypeOK
<1>6. OneHolder'
  BY DEF OneHolder, CallInv, HoldInv, TypeOK
<1> QED BY <1>1, <1>2, <1>3, <1>4, <1>5, <1>6

LEMMA SendStep ==
  ASSUME IInv, NEW c \in Calls, Send(c)
  PROVE  IInv'
<1> USE DEF IInv, Send, callVars, sessionVars
<1>1. TypeOK'
  BY DEF TypeOK, InFlight, Over, Approval, Request, Decision, TrailEvent, Verdicts, Statuses
<1>2. CallInv'
  BY DEF CallInv, TypeOK, InFlight, Over
<1>3. SessionInv'
  BY DEF SessionInv, TypeOK, TrailEvent
<1>4. GrantInv'
  BY DEF GrantInv, TypeOK
<1>5. HoldInv'
  BY DEF HoldInv, CallInv, TypeOK
<1>6. OneHolder'
  BY DEF OneHolder, CallInv, HoldInv, TypeOK
<1> QED BY <1>1, <1>2, <1>3, <1>4, <1>5, <1>6

LEMMA FinishStep ==
  ASSUME IInv, NEW c \in Calls, Finish(c)
  PROVE  IInv'
<1> USE DEF IInv, Finish, callVars, sessionVars
<1>1. TypeOK'
  BY DEF TypeOK, InFlight, Over, Approval, Request, Decision, TrailEvent, Verdicts, Statuses
<1>2. CallInv'
  BY DEF CallInv, TypeOK, InFlight, Over
<1>3. SessionInv'
  BY DEF SessionInv, TypeOK, TrailEvent
<1>4. GrantInv'
  BY DEF GrantInv, TypeOK
<1>5. HoldInv'
  BY DEF HoldInv, CallInv, TypeOK
<1>6. OneHolder'
  BY DEF OneHolder, CallInv, HoldInv, TypeOK
<1> QED BY <1>1, <1>2, <1>3, <1>4, <1>5, <1>6

LEMMA CrashStep ==
  ASSUME IInv, NEW c \in Calls, Crash(c)
  PROVE  IInv'
<1> USE DEF IInv, Crash, callVars, sessionVars
<1>1. TypeOK'
  BY DEF TypeOK, InFlight, Over, Approval, Request, Decision, TrailEvent, Verdicts, Statuses
<1>2. CallInv'
  BY DEF CallInv, TypeOK, InFlight, Over
<1>3. SessionInv'
  BY DEF SessionInv, TypeOK, TrailEvent
<1>4. GrantInv'
  BY DEF GrantInv, TypeOK
<1>5. HoldInv'
  BY DEF HoldInv, CallInv, TypeOK
<1>6. OneHolder'
  BY DEF OneHolder, CallInv, HoldInv, TypeOK
<1> QED BY <1>1, <1>2, <1>3, <1>4, <1>5, <1>6

LEMMA OpenStep ==
  ASSUME IInv, NEW d \in Sessions, Open(d)
  PROVE  IInv'
<1> USE DEF IInv, Open, callVars, sessionVars
<1>1. TypeOK'
  BY DEF TypeOK, InFlight, Over, Approval, Request, Decision, TrailEvent, Verdicts, Statuses, Exists, MayOpen, Decision
<1>2. CallInv'
  BY DEF CallInv, TypeOK, InFlight, Over, Exists, MayOpen, Decision
<1>3. SessionInv'
  BY DEF SessionInv, TypeOK, TrailEvent, Exists, MayOpen, Decision
<1>4. GrantInv'
  BY DEF GrantInv, TypeOK, Exists, MayOpen, Decision
<1>5. HoldInv'
  BY DEF HoldInv, CallInv, TypeOK, Exists, MayOpen, Decision
<1>6. OneHolder'
  BY DEF OneHolder, CallInv, HoldInv, TypeOK, Exists, MayOpen, Decision
<1> QED BY <1>1, <1>2, <1>3, <1>4, <1>5, <1>6

LEMMA LogDecisionIntentStep ==
  ASSUME IInv, NEW d \in Sessions, LogDecisionIntent(d)
  PROVE  IInv'
<1> USE DEF IInv, LogDecisionIntent, callVars, sessionVars
<1>0. [event |-> "decision_intent", id |-> decision[d].id,
       verdict |-> decision[d].verdict, by |-> decision[d].who]
        \in TrailEvent
  BY DEF SessionInv, TypeOK, TrailEvent, Decision, Verdicts
<1>1. TypeOK'
  BY <1>0 DEF TypeOK, InFlight, Over
<1>2. CallInv'
  BY DEF CallInv, TypeOK, InFlight, Over
<1>3. SessionInv'
  BY DEF SessionInv, TypeOK, TrailEvent
<1>4. GrantInv'
  BY DEF GrantInv, TypeOK
<1>5. HoldInv'
  BY DEF HoldInv, CallInv, TypeOK
<1>6. OneHolder'
  BY DEF OneHolder, CallInv, HoldInv, TypeOK
<1> QED BY <1>1, <1>2, <1>3, <1>4, <1>5, <1>6

LEMMA SetStatusStep ==
  ASSUME IInv, NEW d \in Sessions, SetStatus(d)
  PROVE  IInv'
<1> USE DEF IInv, SetStatus, callVars
<1> DEFINE k == decision[d]
           a == approvals[k.id]
           b == Decided(a, k.verdict, k.who)
<1>1. /\ k \in Decision /\ k.id \in Ids /\ k.who \in People /\ k.verdict \in Verdicts
      /\ a \in Approval
      /\ StrictAudit => [event |-> "decision_intent", id |-> k.id,
                         verdict |-> k.verdict, by |-> k.who] \in trail
  BY DEF SessionInv, TypeOK, Decision
<1>2. a.status \in {"pending", k.verdict}
  BY <1>1 DEF ValidTransition, AllowedTransitions, Verdicts
<1>3. /\ b \in Approval /\ b # NoApproval
      /\ b.status = k.verdict
      /\ b = a \/ (a.status = "pending" /\ b.decidedBy = k.who)
  BY <1>1, <1>2 DEF Decided, Approval, Statuses, Verdicts
<1>4. /\ approvals' = [approvals EXCEPT ![k.id] = b]
      /\ result' = [result EXCEPT ![d] = b.decidedBy]
      /\ UNCHANGED <<callVars, decision, trail, now>>
      /\ spc' = [spc EXCEPT ![d] = "stored"]
  BY DEF callVars
<1> HIDE DEF SetStatus, k, a, b
<1>5. TypeOK'
  <2>1. b.decidedBy \in People \cup {NoOne}
    BY <1>3 DEF Approval
  <2> QED BY <2>1, <1>1, <1>3, <1>4 DEF TypeOK
<1>6. CallInv'
  BY <1>4 DEF CallInv
<1>7. SessionInv'
  <2>1. ASSUME NEW j \in Ids, approvals[j] # NoApproval PROVE approvals'[j] # NoApproval
    BY <1>1, <1>3, <1>4, <2>1 DEF TypeOK
  <2>2. ASSUME NEW e \in Sessions, spc'[e] # "idle"
        PROVE  /\ spc[e] # "idle"
               /\ spc'[e] = "intended" => spc[e] = "intended"
    BY <1>4, <2>2 DEF SetStatus, TypeOK
  <2> QED BY <2>1, <2>2, <1>4 DEF SessionInv, Decision
<1>8. GrantInv'
  <2>1. ASSUME NEW i \in Ids, i # k.id PROVE approvals'[i] = approvals[i]
    BY <1>4, <2>1 DEF TypeOK
  <2>2. approvals'[k.id] = b
    BY <1>1, <1>4 DEF TypeOK
  <2>3. b = a => approvals'[k.id] = approvals[k.id]
    BY <2>2 DEF a
  <2> QED BY <2>1, <2>2, <2>3, <1>1, <1>3, <1>4 DEF GrantInv, Verdicts
<1>9. HoldInv'
  <2>1. ASSUME NEW c \in Calls, holds[c] \in Ids PROVE approvals'[holds[c]] = approvals[holds[c]]
    <3>1. approvals[holds[c]].status = "consumed"
      BY <2>1 DEF HoldInv
    <3>2. holds[c] = k.id => b = a
      BY <3>1, <1>3 DEF a
    <3> QED BY <3>2, <1>1, <1>4, <2>1 DEF TypeOK, a
  <2> QED BY <2>1, <1>4 DEF HoldInv
<1>10. OneHolder'
  BY <1>4 DEF OneHolder
<1> QED BY <1>5, <1>6, <1>7, <1>8, <1>9, <1>10

LEMMA RejectStatusStep ==
  ASSUME IInv, NEW d \in Sessions, RejectStatus(d)
  PROVE  IInv'
<1> USE DEF IInv, RejectStatus, callVars, sessionVars
<1>1. TypeOK'
  BY DEF TypeOK, InFlight, Over, Approval, Request, Decision, TrailEvent, Verdicts, Statuses
<1>2. CallInv'
  BY DEF CallInv, TypeOK, InFlight, Over
<1>3. SessionInv'
  BY DEF SessionInv, TypeOK, TrailEvent
<1>4. GrantInv'
  BY DEF GrantInv, TypeOK
<1>5. HoldInv'
  BY DEF HoldInv, CallInv, TypeOK
<1>6. OneHolder'
  BY DEF OneHolder, CallInv, HoldInv, TypeOK
<1> QED BY <1>1, <1>2, <1>3, <1>4, <1>5, <1>6

LEMMA LogDecisionStep ==
  ASSUME IInv, NEW d \in Sessions, LogDecision(d)
  PROVE  IInv'
<1> USE DEF IInv, LogDecision, callVars, sessionVars
<1>0. [event |-> decision[d].verdict, id |-> decision[d].id,
       verdict |-> "none", by |-> result[d]]
        \in TrailEvent
  BY DEF SessionInv, TypeOK, TrailEvent, Decision, Verdicts
<1>1. TypeOK'
  BY <1>0 DEF TypeOK, InFlight, Over
<1>2. CallInv'
  BY DEF CallInv, TypeOK, InFlight, Over
<1>3. SessionInv'
  BY DEF SessionInv, TypeOK, TrailEvent
<1>4. GrantInv'
  BY DEF GrantInv, TypeOK
<1>5. HoldInv'
  BY DEF HoldInv, CallInv, TypeOK
<1>6. OneHolder'
  BY DEF OneHolder, CallInv, HoldInv, TypeOK
<1> QED BY <1>1, <1>2, <1>3, <1>4, <1>5, <1>6

LEMMA AbandonStep ==
  ASSUME IInv, NEW d \in Sessions, Abandon(d)
  PROVE  IInv'
<1> USE DEF IInv, Abandon, callVars, sessionVars
<1>1. TypeOK'
  BY DEF TypeOK, InFlight, Over, Approval, Request, Decision, TrailEvent, Verdicts, Statuses
<1>2. CallInv'
  BY DEF CallInv, TypeOK, InFlight, Over
<1>3. SessionInv'
  BY DEF SessionInv, TypeOK, TrailEvent
<1>4. GrantInv'
  BY DEF GrantInv, TypeOK
<1>5. HoldInv'
  BY DEF HoldInv, CallInv, TypeOK
<1>6. OneHolder'
  BY DEF OneHolder, CallInv, HoldInv, TypeOK
<1> QED BY <1>1, <1>2, <1>3, <1>4, <1>5, <1>6

LEMMA NextStep == IInv /\ [Next]_vars => IInv'
<1> SUFFICES ASSUME IInv, [Next]_vars PROVE IInv'
  OBVIOUS
<1>1. CASE \E c \in Calls : Receive(c) \/ Handle(c) \/ Crash(c)
  BY <1>1, ReceiveStep, ConsumeStep, AskAgainStep, CreateStep, AnnounceStep,
     LogIntentStep, SendStep, FinishStep, CrashStep DEF Handle
<1>2. CASE \E d \in Sessions : Decide(d)
  BY <1>2, OpenStep, LogDecisionIntentStep, SetStatusStep, RejectStatusStep,
     LogDecisionStep, AbandonStep DEF Decide
<1>3. CASE Tick
  BY <1>3 DEF Tick, IInv, TypeOK, CallInv, SessionInv, GrantInv, HoldInv, OneHolder,
     callVars, sessionVars
<1>4. CASE UNCHANGED vars
  BY <1>4 DEF vars, IInv, TypeOK, CallInv, SessionInv, GrantInv, HoldInv, OneHolder,
     callVars, sessionVars
<1> QED BY <1>1, <1>2, <1>3, <1>4 DEF Next

LEMMA Inductive == Spec => []IInv
BY InitIInv, NextStep, PTL DEF Spec

(* Every variable keeps its type, whatever the number of calls.            *)
THEOREM TypeCorrect == Spec => []TypeOK
<1>1. IInv => TypeOK
  BY DEF IInv
<1> QED BY <1>1, Inductive, PTL

(* Single use, for any number of concurrent calls, reviewers and crashes   *)
(* (consume_if_valid and consume_in_transaction of approvals/store.py).    *)
THEOREM ApprovalsAreSingleUse == Spec => []SingleUse
<1>1. IInv => SingleUse
  BY DEF IInv, TypeOK, CallInv, OneHolder, SingleUse
<1> QED BY <1>1, Inductive, PTL

(* Nothing reaches the upstream server without a grant for this caller     *)
(* whose intent, under strict audit, was logged first.                     *)
THEOREM DispatchIsAuthorized == Spec => []Authorized
<1>1. IInv => Authorized
  <2> SUFFICES ASSUME IInv, NEW c \in upstream
               PROVE  /\ holds[c] \in Ids
                      /\ LET a == approvals[holds[c]] IN
                         /\ a # NoApproval
                         /\ a.status = "consumed"
                         /\ a.decidedBy \in People
                         /\ a.who = request[c].who /\ a.binding = request[c].binding
                         /\ a.consumedAt # NoTime /\ a.consumedAt < a.expiresAt
                         /\ StrictAudit =>
                              /\ c \in intents
                              /\ [event |-> "decision_intent", id |-> holds[c],
                                  verdict |-> "approved", by |-> a.decidedBy] \in trail
    BY DEF Authorized
  <2>1. c \in Calls /\ holds[c] \in Ids /\ (StrictAudit => c \in intents)
    BY DEF IInv, TypeOK, CallInv
  <2> QED BY <2>1 DEF IInv, HoldInv, GrantInv
<1> QED BY <1>1, Inductive, PTL

-----------------------------------------------------------------------------
(* The gate implements the abstract life of an approval.                   *)

stageBar == [i \in Ids |-> StageOf(approvals[i])]

LEMMA StageUnchanged ==
  ASSUME UNCHANGED approvals
  PROVE  stageBar' = stageBar
BY DEF stageBar, StageOf

LEMMA StageChanged ==
  ASSUME TypeOK, NEW i \in Ids, NEW a, approvals' = [approvals EXCEPT ![i] = a]
  PROVE  stageBar' = [stageBar EXCEPT ![i] = StageOf(a)]
BY DEF stageBar, TypeOK

LEMMA ConsumeUsesUp ==
  ASSUME IInv, NEW c \in Calls, Consume(c)
  PROVE  Lifecycle!UseUp(request[c].presents, c) /\ request[c].presents \in Ids
<1> DEFINE i == request[c].presents
           a == approvals[i]
<1>1. i \in Ids /\ a \in Approval /\ a # NoApproval /\ a.status = "approved"
  BY DEF Consume, IsValid, IsActive, Exists, IInv, TypeOK
<1>2. Consumed(a).status = "consumed" /\ Consumed(a) # NoApproval
  <2>1. Consumed(a) = [a EXCEPT !.status = "consumed", !.consumedAt = now] /\ now \in Int
    BY DEF Consumed, IInv, TypeOK
  <2>2. Consumed(a) \in Approval
    BY <1>1, <2>1 DEF Approval, Statuses
  <2> QED BY <1>1, <2>1, <2>2 DEF Approval
<1>3. approvals' = [approvals EXCEPT ![i] = Consumed(a)]
  BY DEF Consume
<1>4. stageBar' = [stageBar EXCEPT ![i] = "used"]
  BY <1>1, <1>2, <1>3, StageChanged DEF IInv, StageOf
<1>5. stageBar[i] = "granted"
  BY <1>1 DEF stageBar, StageOf
<1>6. holds[c] = NoId /\ holds' = [holds EXCEPT ![c] = i] /\ upstream' = upstream
  BY DEF Consume, IInv, CallInv
<1> QED BY <1>1, <1>4, <1>5, <1>6 DEF Lifecycle!UseUp, Lifecycle!Move, stageBar

LEMMA CreateOpens ==
  ASSUME IInv, NEW c \in Calls, Create(c)
  PROVE  \E i \in Ids : Lifecycle!Open(i)
<1>1. PICK i \in Ids : ~Exists(i) /\ approvals' = [approvals EXCEPT ![i] = NewApproval(request[c])]
  BY DEF Create
<1>2. NewApproval(request[c]).status = "pending" /\ NewApproval(request[c]) \in Approval
  BY DEF Create, IInv, CallInv, TypeOK, NewApproval, Approval, Statuses, Request
<1>3. stageBar' = [stageBar EXCEPT ![i] = "open"]
  BY <1>1, <1>2, StageChanged DEF IInv, StageOf
<1>4. stageBar[i] = "absent"
  BY <1>1 DEF stageBar, StageOf, Exists
<1> QED BY <1>3, <1>4 DEF Create, Lifecycle!Open, Lifecycle!Move, stageBar

LEMMA SetStatusDecides ==
  ASSUME IInv, NEW d \in Sessions, SetStatus(d)
  PROVE  (\E i \in Ids : Lifecycle!Grant(i) \/ Lifecycle!Refuse(i)) \/ UNCHANGED Lifecycle!vars
<1> DEFINE k == decision[d]
           a == approvals[k.id]
           b == Decided(a, k.verdict, k.who)
<1>1. /\ k.id \in Ids /\ k.verdict \in Verdicts /\ a \in Approval /\ a # NoApproval
      /\ k.who \in People
  BY DEF SetStatus, IInv, SessionInv, TypeOK, Decision
<1>2. a.status \in {"pending", k.verdict}
  BY <1>1 DEF SetStatus, ValidTransition, AllowedTransitions, Verdicts
<1>3. /\ approvals' = [approvals EXCEPT ![k.id] = b]
      /\ UNCHANGED <<holds, upstream>>
  BY DEF SetStatus, callVars
<1>4. CASE a.status = k.verdict
  <2>1. b = a
    BY <1>4 DEF Decided
  <2>2. UNCHANGED approvals
    BY <1>1, <1>3, <2>1 DEF IInv, TypeOK
  <2> QED BY <1>3, <2>2, StageUnchanged DEF Lifecycle!vars, stageBar
<1>5. CASE a.status = "pending" /\ a.status # k.verdict
  <2>1. b.status = k.verdict /\ b # NoApproval
    <3>1. b \in Approval /\ b.status = k.verdict
      BY <1>1, <1>5 DEF Decided, Approval, Statuses, Verdicts
    <3> QED BY <3>1
  <2>2. stageBar' = [stageBar EXCEPT ![k.id] = IF k.verdict = "approved" THEN "granted" ELSE "refused"]
    BY <1>1, <1>3, <2>1, StageChanged DEF IInv, StageOf, Verdicts
  <2>3. stageBar[k.id] = "open"
    BY <1>1, <1>5 DEF stageBar, StageOf
  <2> QED BY <1>1, <1>3, <2>2, <2>3 DEF Lifecycle!Grant, Lifecycle!Refuse, Lifecycle!Move, stageBar, Verdicts
<1> QED BY <1>2, <1>4, <1>5

LEMMA SendPasses ==
  ASSUME IInv, NEW c \in Calls, Send(c)
  PROVE  Lifecycle!Pass(c) \/ UNCHANGED Lifecycle!vars
<1>1. c \notin upstream /\ holds[c] # NoId
  BY DEF Send, IInv, CallInv, Over
<1>2. stageBar' = stageBar /\ holds' = holds
  BY StageUnchanged DEF Send
<1> QED BY <1>1, <1>2 DEF Send, Lifecycle!Pass, Lifecycle!vars, stageBar

(* Every step of the gate is a step of the abstract lifecycle or leaves    *)
(* its state alone, so the gate implements it.                             *)
THEOREM GateImplementsLifecycle == Spec => LifecycleSpec
<1>1. Init => Lifecycle!Init
  BY DEF Init, Lifecycle!Init, StageOf
<1>2. IInv /\ [Next]_vars => [Lifecycle!Next]_(Lifecycle!vars)
  <2> SUFFICES ASSUME IInv, [Next]_vars PROVE [Lifecycle!Next]_(Lifecycle!vars)
    OBVIOUS
  <2>1. ASSUME UNCHANGED <<approvals, holds, upstream>> PROVE UNCHANGED Lifecycle!vars
    BY <2>1, StageUnchanged DEF Lifecycle!vars, stageBar
  <2>2. CASE \E c \in Calls : Receive(c) \/ Handle(c) \/ Crash(c)
    <3> PICK c \in Calls : Receive(c) \/ Handle(c) \/ Crash(c)
      BY <2>2
    <3>1. CASE Consume(c)
      BY <3>1, ConsumeUsesUp DEF Lifecycle!Next
    <3>2. CASE Create(c)
      BY <3>2, CreateOpens DEF Lifecycle!Next
    <3>3. CASE Send(c)
      BY <3>3, SendPasses DEF Lifecycle!Next
    <3>4. CASE Receive(c) \/ AskAgain(c) \/ Announce(c) \/ LogIntent(c) \/ Finish(c) \/ Crash(c)
      BY <3>4, <2>1 DEF Receive, AskAgain, Announce, LogIntent, Finish, Crash
    <3> QED BY <3>1, <3>2, <3>3, <3>4 DEF Handle
  <2>3. CASE \E d \in Sessions : Decide(d)
    <3> PICK d \in Sessions : Decide(d)
      BY <2>3
    <3>1. CASE SetStatus(d)
      BY <3>1, SetStatusDecides DEF Lifecycle!Next
    <3>2. CASE Open(d) \/ LogDecisionIntent(d) \/ RejectStatus(d) \/ LogDecision(d) \/ Abandon(d)
      BY <3>2, <2>1 DEF Open, LogDecisionIntent, RejectStatus, LogDecision, Abandon, callVars
    <3> QED BY <3>1, <3>2 DEF Decide
  <2>4. CASE Tick \/ UNCHANGED vars
    BY <2>4, <2>1 DEF Tick, vars, callVars
  <2> QED BY <2>2, <2>3, <2>4 DEF Next
<1> QED BY <1>1, <1>2, Inductive, PTL DEF Spec, LifecycleSpec, Lifecycle!Spec

-----------------------------------------------------------------------------
LEMMA FinalWhenUnchanged ==
  ASSUME UNCHANGED approvals, NEW i \in Ids
  PROVE  IInv => DecisionIsFinal(i)
BY DEF DecisionIsFinal, IInv, TypeOK, Approval, Statuses

LEMMA ConsumeKeepsDecisions ==
  ASSUME IInv, NEW c \in Calls, Consume(c), NEW i \in Ids
  PROVE  DecisionIsFinal(i)
<1> DEFINE j == request[c].presents
           a == approvals[j]
           b == Consumed(a)
<1>1. j \in Ids /\ a \in Approval /\ a.status = "approved"
  BY DEF Consume, IsValid, IsActive, Exists, IInv, TypeOK
<1>2. approvals' = [approvals EXCEPT ![j] = b]
  BY DEF Consume
<1>3. /\ b \in Approval /\ b.status = "consumed" /\ b.decidedBy = a.decidedBy
      /\ b.who = a.who /\ b.binding = a.binding /\ b.expiresAt = a.expiresAt
  <2>1. b = [a EXCEPT !.status = "consumed", !.consumedAt = now] /\ now \in Int
    BY DEF Consumed, IInv, TypeOK
  <2> HIDE DEF a, b
  <2> QED BY <1>1, <2>1 DEF Approval, Statuses
<1>4. CASE i = j
  BY <1>1, <1>2, <1>3, <1>4 DEF DecisionIsFinal, IInv, TypeOK
<1>5. CASE i # j
  BY <1>2, <1>5, FinalWhenUnchanged DEF DecisionIsFinal, IInv, TypeOK, Approval, Statuses
<1> QED BY <1>4, <1>5

LEMMA SetStatusKeepsDecisions ==
  ASSUME IInv, NEW d \in Sessions, SetStatus(d), NEW i \in Ids
  PROVE  DecisionIsFinal(i)
<1> DEFINE k == decision[d]
           a == approvals[k.id]
           b == Decided(a, k.verdict, k.who)
<1>1. k.id \in Ids /\ k.verdict \in Verdicts /\ a \in Approval /\ a # NoApproval
  BY DEF SetStatus, IInv, SessionInv, TypeOK, Decision
<1>2. a.status \in {"pending", k.verdict} /\ approvals' = [approvals EXCEPT ![k.id] = b]
  BY <1>1 DEF SetStatus, ValidTransition, AllowedTransitions, Verdicts
<1>3. CASE i = k.id /\ a.status = "pending"
  <2>1. a.decidedBy = NoOne
    BY <1>1, <1>3 DEF IInv, GrantInv
  <2> QED BY <1>3, <2>1 DEF DecisionIsFinal
<1>4. CASE i # k.id \/ a.status = k.verdict
  <2>1. approvals'[i] = approvals[i]
    BY <1>1, <1>2, <1>4 DEF Decided, IInv, TypeOK
  <2> QED BY <2>1 DEF DecisionIsFinal, IInv, TypeOK, Approval, Statuses, GrantInv
<1> QED BY <1>2, <1>3, <1>4

(* A recorded decision never changes: README.md "Terminal decisions are    *)
(* immutable, so a denied approval cannot later be flipped to approved".   *)
THEOREM DecisionsAreFinal == Spec => DecisionsFinal
<1>1. IInv /\ [Next]_vars => [\A i \in Ids : DecisionIsFinal(i)]_vars
  <2> SUFFICES ASSUME IInv, Next, NEW i \in Ids PROVE DecisionIsFinal(i)
    OBVIOUS
  <2>1. CASE UNCHANGED approvals
    BY <2>1, FinalWhenUnchanged
  <2>2. CASE \E c \in Calls : Consume(c)
    BY <2>2, ConsumeKeepsDecisions
  <2>3. CASE \E d \in Sessions : SetStatus(d)
    BY <2>3, SetStatusKeepsDecisions
  <2>4. CASE \E c \in Calls : Create(c)
    <3>1. PICK j \in Ids, a \in {NewApproval(request[c]) : c \in Calls} :
            ~Exists(j) /\ approvals' = [approvals EXCEPT ![j] = a]
      BY <2>4 DEF Create
    <3>2. i = j => approvals[i] = NoApproval
      BY <3>1 DEF Exists
    <3>3. i # j => approvals'[i] = approvals[i]
      BY <3>1 DEF IInv, TypeOK
    <3> QED BY <3>2, <3>3 DEF DecisionIsFinal, IInv, TypeOK, Approval, Statuses, GrantInv
  <2> QED
    BY <2>1, <2>2, <2>3, <2>4 DEF Next, Handle, Decide, Receive, AskAgain, Announce, LogIntent,
       Send, Finish, Crash, Open, LogDecisionIntent, RejectStatus, LogDecision, Abandon, Tick
<1> QED BY <1>1, Inductive, PTL DEF Spec, DecisionsFinal
-----------------------------------------------------------------------------
(* What a step may do to a row.                                            *)

RowStep(i) ==
  LET a == approvals[i]
      b == approvals'[i]
  IN
  \/ b = a
  \/ a = NoApproval /\ b # NoApproval /\ b.status = "pending"
  \/ /\ a # NoApproval /\ b # NoApproval
     /\ b.who = a.who
     /\ \/ a.status = "approved" /\ b.status = "consumed" /\ b.decidedBy = a.decidedBy
        \/ \E d \in Sessions :
             /\ spc[d] = "intended" /\ decision[d].id = i
             /\ a.status = "pending"
             /\ b.status = decision[d].verdict /\ b.decidedBy = decision[d].who

LEMMA RowSteps ==
  ASSUME IInv, [Next]_vars, NEW i \in Ids
  PROVE  RowStep(i)
<1>1. CASE UNCHANGED approvals
  BY <1>1 DEF RowStep
<1>2. ASSUME NEW c \in Calls, Consume(c) PROVE RowStep(i)
  <2> DEFINE j == request[c].presents
             a == approvals[j]
             b == Consumed(a)
  <2>1. j \in Ids /\ a \in Approval /\ a.status = "approved"
    BY <1>2 DEF Consume, IsValid, IsActive, Exists, IInv, TypeOK
  <2>2. approvals' = [approvals EXCEPT ![j] = b]
    BY <1>2 DEF Consume
  <2>3. b \in Approval /\ b.status = "consumed" /\ b.decidedBy = a.decidedBy /\ b.who = a.who
    <3>1. b = [a EXCEPT !.status = "consumed", !.consumedAt = now] /\ now \in Int
      BY DEF Consumed, IInv, TypeOK
    <3> HIDE DEF a, b
    <3> QED BY <2>1, <3>1 DEF Approval, Statuses
  <2>4. a # NoApproval /\ b # NoApproval
    BY <2>1, <2>3, NullAssumption
  <2>5. approvals'[j] = b /\ (i # j => approvals'[i] = approvals[i])
    BY <2>1, <2>2 DEF IInv, TypeOK
  <2> QED BY <2>1, <2>3, <2>4, <2>5 DEF RowStep
<1>3. ASSUME NEW c \in Calls, Create(c) PROVE RowStep(i)
  <2>1. NewApproval(request[c]) \in Approval /\ NewApproval(request[c]).status = "pending"
    BY <1>3 DEF Create, IInv, CallInv, TypeOK, NewApproval, Approval, Statuses, Request
  <2>2. PICK j \in Ids : ~Exists(j) /\ approvals' = [approvals EXCEPT ![j] = NewApproval(request[c])]
    BY <1>3 DEF Create
  <2>3. /\ approvals'[j] = NewApproval(request[c]) /\ approvals[j] = NoApproval
        /\ i # j => approvals'[i] = approvals[i]
    BY <2>2 DEF Exists, IInv, TypeOK
  <2> QED BY <2>1, <2>3, NullAssumption DEF RowStep
<1>4. ASSUME NEW d \in Sessions, SetStatus(d) PROVE RowStep(i)
  <2> DEFINE k == decision[d]
             a == approvals[k.id]
             b == Decided(a, k.verdict, k.who)
  <2>1. /\ k.id \in Ids /\ k.verdict \in Verdicts /\ k.who \in People
        /\ a \in Approval /\ a # NoApproval
    BY <1>4 DEF SetStatus, IInv, SessionInv, TypeOK, Decision
  <2>2. a.status \in {"pending", k.verdict} /\ approvals' = [approvals EXCEPT ![k.id] = b]
    BY <1>4, <2>1 DEF SetStatus, ValidTransition, AllowedTransitions, Verdicts
  <2>3. CASE i = k.id /\ a.status = "pending"
    <3>1. b \in Approval /\ b.status = k.verdict /\ b.decidedBy = k.who /\ b.who = a.who
      BY <2>1, <2>3 DEF Decided, Approval, Statuses, Verdicts
    <3>2. approvals'[i] = b /\ spc[d] = "intended"
      BY <1>4, <2>1, <2>2, <2>3 DEF SetStatus, IInv, TypeOK
    <3> HIDE DEF b
    <3> QED BY <2>1, <2>3, <3>1, <3>2, NullAssumption DEF RowStep
  <2>4. CASE i # k.id \/ a.status = k.verdict
    <3>1. approvals'[i] = approvals[i]
      BY <2>1, <2>2, <2>4 DEF Decided, IInv, TypeOK
    <3> QED BY <3>1 DEF RowStep
  <2> QED BY <2>2, <2>3, <2>4
<1> QED
  BY <1>1, <1>2, <1>3, <1>4 DEF Next, Handle, Decide, Receive, AskAgain, Announce, LogIntent,
     Send, Finish, Crash, Open, LogDecisionIntent, RejectStatus, LogDecision, Abandon, Tick, vars

-----------------------------------------------------------------------------
(* A decision as the row records it.                                       *)
Recorded(i, verdict, by) ==
  /\ approvals[i] # NoApproval
  /\ approvals[i].decidedBy = by /\ by \in People
  /\ approvals[i].status \in IF verdict = "denied" THEN {"denied"} ELSE {"approved", "consumed"}

TrailInv ==
  /\ \A i \in Ids : approvals[i] # NoApproval =>
       /\ approvals[i].status # "expired"
       /\ approvals[i].status = "denied" => approvals[i].decidedBy \in People
  /\ \A d \in Sessions : spc[d] = "stored" =>
       Recorded(decision[d].id, decision[d].verdict, result[d])
  /\ \A e \in trail : e.event \in Verdicts => Recorded(e.id, e.event, e.by)

LEMMA RecordedKept ==
  ASSUME IInv, NEW i \in Ids, RowStep(i), NEW v, NEW by, Recorded(i, v, by)
  PROVE  Recorded(i, v, by)'
BY DEF RowStep, Recorded

LEMMA TrailStep ==
  ASSUME IInv, TrailInv, [Next]_vars
  PROVE  TrailInv'
<1>1. \A i \in Ids : RowStep(i)
  BY RowSteps
<1>2. ASSUME NEW i \in Ids, approvals'[i] # NoApproval
      PROVE  /\ approvals'[i].status # "expired"
             /\ approvals'[i].status = "denied" => approvals'[i].decidedBy \in People
  <2>1. \A d \in Sessions : spc[d] = "intended" =>
          decision[d].verdict \in Verdicts /\ decision[d].who \in People
    BY DEF IInv, SessionInv, Decision
  <2> QED BY <1>1, <1>2, <2>1 DEF RowStep, TrailInv, Verdicts
<1>3. ASSUME NEW d \in Sessions, spc'[d] = "stored"
      PROVE  Recorded(decision[d].id, decision[d].verdict, result[d])' /\ decision'[d] = decision[d]
  <2>1. CASE spc[d] = "stored" /\ decision'[d] = decision[d] /\ result'[d] = result[d]
    <3>1. Recorded(decision[d].id, decision[d].verdict, result[d]) /\ decision[d].id \in Ids
      BY <2>1 DEF TrailInv, IInv, SessionInv, Decision
    <3> QED BY <1>1, <2>1, <3>1, RecordedKept DEF Recorded
  <2>2. CASE SetStatus(d)
    <3> DEFINE k == decision[d]
               a == approvals[k.id]
               b == Decided(a, k.verdict, k.who)
    <3>1. /\ k.id \in Ids /\ k.verdict \in Verdicts /\ k.who \in People
          /\ a \in Approval /\ a # NoApproval
      BY <2>2 DEF SetStatus, IInv, SessionInv, TypeOK, Decision
    <3>2. /\ a.status \in {"pending", k.verdict} /\ approvals' = [approvals EXCEPT ![k.id] = b]
          /\ result' = [result EXCEPT ![d] = b.decidedBy] /\ decision' = decision
      BY <2>2, <3>1 DEF SetStatus, ValidTransition, AllowedTransitions, Verdicts
    <3>3. b \in Approval /\ b.status = k.verdict /\ b.decidedBy \in People
      <4>1. CASE a.status = k.verdict
        <5>1. a.decidedBy \in People
          BY <3>1, <4>1 DEF TrailInv, IInv, GrantInv, Verdicts
        <5> QED BY <3>1, <4>1, <5>1 DEF Decided
      <4>2. CASE a.status = "pending" /\ a.status # k.verdict
        BY <3>1, <4>2 DEF Decided, Approval, Statuses, Verdicts
      <4> QED BY <3>2, <4>1, <4>2
    <3>4. approvals'[k.id] = b /\ result'[d] = b.decidedBy /\ decision'[d] = k
      BY <3>1, <3>2 DEF IInv, TypeOK
    <3> HIDE DEF b, a
    <3>5. k.verdict \in {"approved", "denied"} /\ b # NoApproval
      BY <3>1, <3>3, NullAssumption DEF Verdicts
    <3> QED BY <3>3, <3>4, <3>5 DEF Recorded
  <2>3. \/ spc[d] = "stored" /\ decision'[d] = decision[d] /\ result'[d] = result[d]
        \/ SetStatus(d)
    <3>1. CASE \E c \in Calls : Receive(c) \/ Handle(c) \/ Crash(c)
      BY <1>3, <3>1 DEF Handle, Receive, Consume, AskAgain, Create, Announce, LogIntent, Send, Finish,
         Crash, sessionVars
    <3>2. CASE Tick \/ UNCHANGED vars
      BY <1>3, <3>2 DEF Tick, vars, sessionVars
    <3>3. ASSUME NEW e \in Sessions, Decide(e)
          PROVE  \/ spc[d] = "stored" /\ decision'[d] = decision[d] /\ result'[d] = result[d]
                 \/ SetStatus(d)
      <4>1. CASE SetStatus(e)
        BY <1>3, <4>1 DEF SetStatus, IInv, TypeOK
      <4>2. CASE Open(e)
        BY <1>3, <4>2 DEF Open, IInv, TypeOK
      <4>3. CASE LogDecisionIntent(e) \/ RejectStatus(e) \/ LogDecision(e) \/ Abandon(e)
        BY <1>3, <4>3 DEF LogDecisionIntent, RejectStatus, LogDecision, Abandon, IInv, TypeOK
      <4> QED BY <3>3, <4>1, <4>2, <4>3 DEF Decide
    <3> QED BY <3>1, <3>2, <3>3 DEF Next
  <2> QED BY <2>1, <2>2, <2>3
<1>4. ASSUME NEW e \in trail', e.event \in Verdicts
      PROVE  Recorded(e.id, e.event, e.by)'
  <2>1. CASE e \in trail
    <3>1. e.id \in Ids
      BY <2>1 DEF IInv, TypeOK, TrailEvent
    <3> QED BY <1>1, <1>4, <2>1, <3>1, RecordedKept DEF TrailInv, Recorded
  <2>2. CASE e \notin trail
    <3>1. PICK d \in Sessions : LogDecision(d)
      <4>1. ~ \E c \in Calls : Receive(c) \/ Handle(c) \/ Crash(c)
        BY <1>4, <2>2 DEF Handle, Receive, Consume, AskAgain, Create, Announce, LogIntent, Send,
           Finish, Crash, Verdicts
      <4>2. ~ (Tick \/ UNCHANGED vars)
        BY <1>4, <2>2 DEF Tick, vars
      <4>3. \A d \in Sessions :
              ~ (Open(d) \/ LogDecisionIntent(d) \/ SetStatus(d) \/ RejectStatus(d) \/ Abandon(d))
        BY <1>4, <2>2 DEF Open, LogDecisionIntent, SetStatus, RejectStatus, Abandon, Verdicts
      <4> QED BY <4>1, <4>2, <4>3 DEF Next, Decide
    <3>2. /\ e = [event |-> decision[d].verdict, id |-> decision[d].id,
                  verdict |-> "none", by |-> result[d]]
          /\ spc[d] = "stored" /\ UNCHANGED approvals
      BY <1>4, <2>2, <3>1 DEF LogDecision
    <3> QED BY <3>2 DEF TrailInv, Recorded
  <2> QED BY <2>1, <2>2
<1> QED BY <1>2, <1>3, <1>4 DEF TrailInv

(* The log and the store tell one story: whoever is reported to have       *)
(* decided is on the row, however reviewers, crashes and failing writes    *)
(* interleave (approvals/ui.py _decide, cli/main.py _set_approval_status). *)
THEOREM TrailIsTruthful == Spec => []TrailTruthful
<1>1. Init => TrailInv
  BY DEF Init, TrailInv
<1>2. TrailInv => TrailTruthful
  BY DEF TrailInv, TrailTruthful, Recorded
<1> QED BY <1>1, <1>2, TrailStep, Inductive, PTL DEF Spec

-----------------------------------------------------------------------------
(* With the switch on and the UI as the only path, an open approval is     *)
(* somebody else's.                                                        *)
DutiesInv ==
  /\ \A d \in Sessions : spc[d] # "idle" /\ decision[d].verdict = "approved" =>
       decision[d].who # approvals[decision[d].id].who
  /\ SeparationOfDuties

LEMMA DutiesStep ==
  ASSUME RequireSoD, Channels = {"ui"}, IInv, DutiesInv, [Next]_vars
  PROVE  DutiesInv'
<1>1. \A i \in Ids : RowStep(i)
  BY RowSteps
<1>2. \A i \in Ids : approvals[i] # NoApproval => approvals'[i] # NoApproval /\ approvals'[i].who = approvals[i].who
  BY <1>1 DEF RowStep
<1>3. ASSUME NEW d \in Sessions, spc'[d] # "idle", decision'[d].verdict = "approved"
      PROVE  decision'[d].who # approvals'[decision'[d].id].who
  <2>1. CASE spc[d] # "idle" /\ decision'[d] = decision[d]
    BY <1>2, <1>3, <2>1 DEF DutiesInv, IInv, SessionInv, Decision
  <2>2. CASE Open(d)
    <3>1. PICK k \in Decision : /\ k.channel \in Channels /\ Exists(k.id) /\ MayOpen(d, k)
                                /\ decision' = [decision EXCEPT ![d] = k]
      BY <2>2 DEF Open
    <3>2. decision'[d] = k
      BY <3>1 DEF IInv, TypeOK
    <3> QED BY <1>2, <1>3, <3>1, <3>2 DEF MayOpen, Exists
  <2>3. (spc[d] # "idle" /\ decision'[d] = decision[d]) \/ Open(d)
    <3>1. CASE \E c \in Calls : Receive(c) \/ Handle(c) \/ Crash(c)
      BY <1>3, <3>1 DEF Handle, Receive, Consume, AskAgain, Create, Announce, LogIntent, Send, Finish,
         Crash, sessionVars
    <3>2. CASE Tick \/ UNCHANGED vars
      BY <1>3, <3>2 DEF Tick, vars, sessionVars
    <3>3. ASSUME NEW e \in Sessions, Decide(e)
          PROVE  (spc[d] # "idle" /\ decision'[d] = decision[d]) \/ Open(d)
      <4>1. CASE Open(e)
        BY <1>3, <4>1 DEF Open, IInv, TypeOK
      <4>2. CASE SetStatus(e) \/ LogDecisionIntent(e) \/ RejectStatus(e) \/ LogDecision(e) \/ Abandon(e)
        BY <1>3, <4>2 DEF SetStatus, LogDecisionIntent, RejectStatus, LogDecision, Abandon, IInv, TypeOK
      <4> QED BY <3>3, <4>1, <4>2 DEF Decide
    <3> QED BY <3>1, <3>2, <3>3 DEF Next
  <2> QED BY <2>1, <2>2, <2>3
<1>4. SeparationOfDuties'
  <2> SUFFICES ASSUME NEW i \in Ids, approvals'[i] # NoApproval,
                      approvals'[i].status \in {"approved", "consumed"}
               PROVE  approvals'[i].decidedBy # approvals'[i].who
    BY DEF SeparationOfDuties, Exists
  <2>1. CASE approvals'[i] = approvals[i]
    BY <2>1 DEF DutiesInv, SeparationOfDuties, Exists
  <2>2. CASE approvals[i] # NoApproval /\ approvals[i].status = "approved"
             /\ approvals'[i].decidedBy = approvals[i].decidedBy
             /\ approvals'[i].who = approvals[i].who
    BY <2>2 DEF DutiesInv, SeparationOfDuties, Exists
  <2>3. ASSUME NEW d \in Sessions, spc[d] = "intended", decision[d].id = i,
               approvals'[i].status = decision[d].verdict, approvals'[i].decidedBy = decision[d].who,
               approvals'[i].who = approvals[i].who
        PROVE  approvals'[i].decidedBy # approvals'[i].who
    <3>1. decision[d].verdict = "approved"
      BY <2>3 DEF IInv, SessionInv, Decision, Verdicts
    <3> QED BY <2>3, <3>1 DEF DutiesInv
  <2> QED BY <1>1, <2>1, <2>2, <2>3 DEF RowStep
<1> QED BY <1>3, <1>4 DEF DutiesInv

(* With separation of duties required and the UI as the only way to        *)
(* decide, nobody approves their own call: the check when the decision is  *)
(* opened is still true when it is stored (approvals/ui.py, _decide).      *)
THEOREM DutiesAreSeparate ==
  ASSUME RequireSoD, Channels = {"ui"}
  PROVE  Spec => []SeparationOfDuties
<1>1. Init => DutiesInv
  BY DEF Init, DutiesInv, SeparationOfDuties, Exists
<1>2. IInv /\ DutiesInv /\ [Next]_vars => DutiesInv'
  BY DutiesStep
<1>3. DutiesInv => SeparationOfDuties
  BY DEF DutiesInv
<1> QED BY <1>1, <1>2, <1>3, Inductive, PTL DEF Spec
=============================================================================
