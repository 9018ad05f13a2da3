---------------------------- MODULE ApprovalGate ----------------------------
(***************************************************************************)
(* The approval workflow of the gateway on a server without evidence:      *)
(* tools/call requests handled by concurrent threads                       *)
(* (MCPPipeline._handle_approval_required), the persistent ApprovalStore   *)
(* they share, and the people who decide through the approval UI or the    *)
(* command line.  Both store backends run create, set_status and           *)
(* consume_if_valid in one exclusive section (flock, or BEGIN IMMEDIATE),  *)
(* so each of them is one atomic action here; everything between two such  *)
(* sections interleaves.                                                   *)
(***************************************************************************)
EXTENDS Integers

CONSTANTS
  Ids,          \* approval identifiers the store may hand out
  Calls,        \* tools/call requests that a require_approval policy matches
  Sessions,     \* decisions submitted by reviewers, one per HTTP or CLI request
  People,       \* identities: requesters and reviewers share one namespace
  Bindings,     \* what an approval is bound to besides the subject
  Channels,     \* decision paths in use: a subset of {"ui", "cli"}
  StrictAudit,  \* audit.strict: a failed audit write raises
  RequireSoD,   \* approvals.require_separation_of_duties
  Ttl,          \* approvals.default_ttl_seconds
  MaxTime,      \* bound on the clock
  NoId, NoOne, NoApproval, NoRequest, NoDecision, NoTime

ASSUME SwitchAssumption == StrictAudit \in BOOLEAN /\ RequireSoD \in BOOLEAN
ASSUME ChannelAssumption == Channels \subseteq {"ui", "cli"}
ASSUME TimeAssumption == Ttl \in Nat /\ MaxTime \in Nat /\ NoTime \notin Int

VARIABLES
  now,        \* wall clock
  approvals,  \* the approvals table: id -> row
  request,    \* request[c]: identity, binding and approval id of call c
  pc,         \* pc[c]: where the thread handling call c is
  holds,      \* holds[c]: the approval consumed for call c
  asked,      \* asked[c]: the approval created for call c
  intents,    \* calls whose dispatch intent is in the audit log
  upstream,   \* calls whose message reached the upstream server
  decision,   \* decision[d]: what session d was asked to decide
  spc,        \* spc[d]: where session d is
  result,     \* result[d]: decided_by of the row set_status returned to d
  trail       \* approval events in the audit log

callVars == <<request, pc, holds, asked, intents, upstream>>
sessionVars == <<decision, spc, result>>
vars == <<now, approvals, callVars, sessionVars, trail>>

Statuses == {"pending", "approved", "denied", "expired", "consumed"}
Verdicts == {"approved", "denied"}

Approval == [status : Statuses, who : People, binding : Bindings,
             expiresAt : Int, decidedBy : People \cup {NoOne},
             consumedAt : Int \cup {NoTime}]
Request == [who : People, binding : Bindings, presents : Ids \cup {NoId}]
Decision == [channel : {"ui", "cli"}, who : People, id : Ids, verdict : Verdicts]
TrailEvent == [event : {"created", "decision_intent"} \cup Verdicts,
               id : Ids, verdict : Verdicts \cup {"none"}, by : People \cup {NoOne}]

ASSUME NullAssumption ==
  NoId \notin Ids /\ NoOne \notin People /\ NoApproval \notin Approval

InFlight == {"checking", "asking", "created", "holding", "armed", "sent"}
Over == {"answered", "failed"}

TypeOK ==
  /\ now \in Nat
  /\ approvals \in [Ids -> Approval \cup {NoApproval}]
  /\ request \in [Calls -> Request \cup {NoRequest}]
  /\ pc \in [Calls -> {"idle"} \cup InFlight \cup Over]
  /\ holds \in [Calls -> Ids \cup {NoId}]
  /\ asked \in [Calls -> Ids \cup {NoId}]
  /\ intents \subseteq Calls
  /\ upstream \subseteq Calls
  /\ decision \in [Sessions -> Decision \cup {NoDecision}]
  /\ spc \in [Sessions -> {"idle", "opened", "intended", "stored", "closed"}]
  /\ result \in [Sessions -> People \cup {NoOne}]
  /\ trail \subseteq TrailEvent

Init ==
  /\ now = 0
  /\ approvals = [i \in Ids |-> NoApproval]
  /\ request = [c \in Calls |-> NoRequest]
  /\ pc = [c \in Calls |-> "idle"]
  /\ holds = [c \in Calls |-> NoId]
  /\ asked = [c \in Calls |-> NoId]
  /\ intents = {}
  /\ upstream = {}
  /\ decision = [d \in Sessions |-> NoDecision]
  /\ spc = [d \in Sessions |-> "idle"]
  /\ result = [d \in Sessions |-> NoOne]
  /\ trail = {}

Exists(i) == i \in Ids /\ approvals[i] # NoApproval

-----------------------------------------------------------------------------
(* The store.                                                              *)

\* Variants named ...Bug are plausible mistakes; no specification uses them.
IsActiveReplayBug(a) == a.status \in {"approved", "consumed"} /\ a.expiresAt > now
IsActiveDeadlineBug(a) == a.status = "approved" /\ a.expiresAt >= now

IsActive(a) == a.status = "approved" /\ a.expiresAt > now

IsValid(i, r) ==
  /\ Exists(i)
  /\ IsActive(approvals[i])
  /\ approvals[i].who = r.who
  /\ approvals[i].binding = r.binding

AllowedTransitions ==
  {<<"pending", "approved">>, <<"pending", "denied">>, <<"pending", "expired">>,
   <<"approved", "consumed">>, <<"approved", "expired">>}

ValidTransition(from, to) == from = to \/ <<from, to>> \in AllowedTransitions

NewApproval(r) ==
  [status |-> "pending", who |-> r.who, binding |-> r.binding,
   expiresAt |-> now + Ttl, decidedBy |-> NoOne, consumedAt |-> NoTime]

ConsumedBug(a) == [a EXCEPT !.consumedAt = now]

Consumed(a) == [a EXCEPT !.status = "consumed", !.consumedAt = now]

DecidedBug(a, status, by) == [a EXCEPT !.status = status, !.decidedBy = by]

\* Re-deciding with the status the row already has returns the row unchanged.
Decided(a, status, by) ==
  IF a.status = status THEN a
  ELSE [a EXCEPT !.status = status, !.decidedBy = by]

-----------------------------------------------------------------------------
(* A thread of the gateway handles call c.                                 *)

\* The client may present any approval id it knows, or none.
Receive(c) ==
  /\ pc[c] = "idle"
  /\ \E r \in Request :
       /\ r.presents = NoId \/ Exists(r.presents)
       /\ request' = [request EXCEPT ![c] = r]
  /\ pc' = [pc EXCEPT ![c] = "checking"]
  /\ UNCHANGED <<now, approvals, holds, asked, intents, upstream, sessionVars, trail>>

\* consume_if_valid returned True.
Consume(c) ==
  LET i == request[c].presents IN
  /\ pc[c] = "checking"
  /\ IsValid(i, request[c])
  /\ approvals' = [approvals EXCEPT ![i] = Consumed(@)]
  /\ holds' = [holds EXCEPT ![c] = i]
  /\ pc' = [pc EXCEPT ![c] = "holding"]
  /\ UNCHANGED <<now, request, asked, intents, upstream, sessionVars, trail>>

\* consume_if_valid returned False, or there was no approval id.
AskAgain(c) ==
  /\ pc[c] = "checking"
  /\ ~IsValid(request[c].presents, request[c])
  /\ pc' = [pc EXCEPT ![c] = "asking"]
  /\ UNCHANGED <<now, approvals, request, holds, asked, intents, upstream, sessionVars, trail>>

Create(c) ==
  /\ pc[c] = "asking"
  /\ \E i \in Ids :
       /\ ~Exists(i)
       /\ approvals' = [approvals EXCEPT ![i] = NewApproval(request[c])]
       /\ asked' = [asked EXCEPT ![c] = i]
  /\ pc' = [pc EXCEPT ![c] = "created"]
  /\ UNCHANGED <<now, request, holds, intents, upstream, sessionVars, trail>>

\* Audit the creation, notify, answer -32010; a raising audit write or a strict
\* webhook leaves the pending row behind.
Announce(c) ==
  /\ pc[c] = "created"
  /\ \/ /\ trail' = trail \cup {[event |-> "created", id |-> asked[c],
                                 verdict |-> "none", by |-> NoOne]}
        /\ \E next \in Over : pc' = [pc EXCEPT ![c] = next]
     \/ /\ trail' = trail
        /\ \E next \in Over : pc' = [pc EXCEPT ![c] = next]
        /\ StrictAudit => pc'[c] = "failed"
  /\ UNCHANGED <<now, approvals, request, holds, asked, intents, upstream, sessionVars>>

\* The intent is written before the message crosses to the upstream server; a
\* failing write (or fsync) may leave the line in the log all the same.
LogIntent(c) ==
  /\ pc[c] = "holding"
  /\ \/ intents' = intents \cup {c} /\ pc' = [pc EXCEPT ![c] = "armed"]
     \/ /\ intents' \in {intents, intents \cup {c}}
        /\ pc' = [pc EXCEPT ![c] = IF StrictAudit THEN "failed" ELSE "armed"]
  /\ UNCHANGED <<now, approvals, request, holds, asked, upstream, sessionVars, trail>>

\* The send may fail before or after the message reached the server.
Send(c) ==
  /\ pc[c] = "armed"
  /\ upstream' \in {upstream, upstream \cup {c}}
  /\ pc' = [pc EXCEPT ![c] = "sent"]
  /\ UNCHANGED <<now, approvals, request, holds, asked, intents, sessionVars, trail>>

\* The outcome is logged and the response, or the error, goes to the client.
Finish(c) ==
  /\ pc[c] = "sent"
  /\ \E next \in Over : pc' = [pc EXCEPT ![c] = next]
  /\ UNCHANGED <<now, approvals, request, holds, asked, intents, upstream, sessionVars, trail>>

\* The gateway dies with call c in flight; the store and the log survive.
Crash(c) ==
  /\ pc[c] \in InFlight
  /\ pc' = [pc EXCEPT ![c] = "failed"]
  /\ UNCHANGED <<now, approvals, request, holds, asked, intents, upstream, sessionVars, trail>>

-----------------------------------------------------------------------------
(* A reviewer decides, through the UI (_decide) or the command line        *)
(* (_set_approval_status).  Both read the row first and write it later.    *)

MayOpenBug(d, k) == TRUE

MayOpen(d, k) ==
  \/ k.channel = "cli"
  \/ ~(RequireSoD /\ k.verdict = "approved" /\ k.who = approvals[k.id].who)

Open(d) ==
  /\ spc[d] = "idle"
  /\ \E k \in Decision :
       /\ k.channel \in Channels
       /\ Exists(k.id)
       /\ MayOpen(d, k)
       /\ decision' = [decision EXCEPT ![d] = k]
  /\ spc' = [spc EXCEPT ![d] = "opened"]
  /\ UNCHANGED <<now, approvals, callVars, result, trail>>

LogDecisionIntent(d) ==
  /\ spc[d] = "opened"
  /\ \/ /\ trail' = trail \cup {[event |-> "decision_intent", id |-> decision[d].id,
                                 verdict |-> decision[d].verdict, by |-> decision[d].who]}
        /\ spc' = [spc EXCEPT ![d] = "intended"]
     \/ /\ trail' = trail
        /\ spc' = [spc EXCEPT ![d] = IF StrictAudit THEN "closed" ELSE "intended"]
  /\ UNCHANGED <<now, approvals, callVars, decision, result>>

SetStatus(d) ==
  LET k == decision[d]
      a == approvals[k.id]
  IN
  /\ spc[d] = "intended"
  /\ ValidTransition(a.status, k.verdict)
  /\ approvals' = [approvals EXCEPT ![k.id] = Decided(a, k.verdict, k.who)]
  /\ result' = [result EXCEPT ![d] = Decided(a, k.verdict, k.who).decidedBy]
  /\ spc' = [spc EXCEPT ![d] = "stored"]
  /\ UNCHANGED <<now, callVars, decision, trail>>

\* "invalid approval transition": 409 from the UI, an exception from the CLI.
RejectStatus(d) ==
  /\ spc[d] = "intended"
  /\ ~ValidTransition(approvals[decision[d].id].status, decision[d].verdict)
  /\ spc' = [spc EXCEPT ![d] = "closed"]
  /\ UNCHANGED <<now, approvals, callVars, decision, result, trail>>

\* Audit the decision and notify; either may be lost without undoing it.
LogDecision(d) ==
  /\ spc[d] = "stored"
  /\ trail' \in {trail, trail \cup {[event |-> decision[d].verdict, id |-> decision[d].id,
                                     verdict |-> "none", by |-> result[d]]}}
  /\ spc' = [spc EXCEPT ![d] = "closed"]
  /\ UNCHANGED <<now, approvals, callVars, decision, result>>

Abandon(d) ==
  /\ spc[d] \in {"opened", "intended", "stored"}
  /\ spc' = [spc EXCEPT ![d] = "closed"]
  /\ UNCHANGED <<now, approvals, callVars, decision, result, trail>>

Tick ==
  /\ now < MaxTime
  /\ now' = now + 1
  /\ UNCHANGED <<approvals, callVars, sessionVars, trail>>

-----------------------------------------------------------------------------
Handle(c) ==
  Consume(c) \/ AskAgain(c) \/ Create(c) \/ Announce(c) \/ LogIntent(c) \/ Send(c) \/ Finish(c)

Decide(d) ==
  Open(d) \/ LogDecisionIntent(d) \/ SetStatus(d) \/ RejectStatus(d) \/ LogDecision(d) \/ Abandon(d)

Next ==
  \/ \E c \in Calls : Receive(c) \/ Handle(c) \/ Crash(c)
  \/ \E d \in Sessions : Decide(d)
  \/ Tick

Spec == Init /\ [][Next]_vars

-----------------------------------------------------------------------------
(* Properties.                                                             *)

(* What the workflow looks like to somebody who ignores the threads, the   *)
(* log and the clock.                                                      *)
StageOf(a) ==
  IF a = NoApproval THEN "absent"
  ELSE CASE a.status = "pending"  -> "open"
         [] a.status = "approved" -> "granted"
         [] a.status = "consumed" -> "used"
         [] OTHER                 -> "refused"

Lifecycle == INSTANCE ApprovalLifecycle WITH
  stage <- [i \in Ids |-> StageOf(approvals[i])],
  uses <- holds,
  passed <- upstream

(* The whole workflow implements the abstract life of an approval: however *)
(* threads, reviewers, failures and restarts interleave, an approval is    *)
(* granted once, used up by one call and lets only that call through.      *)
LifecycleSpec == Lifecycle!Spec

(* Two calls that reached the upstream server never did so on the same     *)
(* approval (consume_if_valid: "True only for the first valid              *)
(* consumption").                                                          *)
SingleUse == \A c, d \in upstream : holds[c] = holds[d] => c = d

(* A call that reached the upstream server holds an approval that somebody *)
(* granted, for this caller and this binding, and that was consumed before *)
(* it expired; under strict audit its dispatch intent, and the intent of   *)
(* the reviewer whose name the row carries, are in the log.                *)
Authorized ==
  \A c \in upstream :
    /\ holds[c] \in Ids
    /\ LET a == approvals[holds[c]] IN
       /\ a # NoApproval
       /\ a.status = "consumed"
       /\ a.decidedBy \in People
       /\ a.who = request[c].who /\ a.binding = request[c].binding
       /\ a.consumedAt # NoTime /\ a.consumedAt < a.expiresAt
       /\ StrictAudit =>
            /\ c \in intents
            /\ [event |-> "decision_intent", id |-> holds[c],
                verdict |-> "approved", by |-> a.decidedBy] \in trail

(* The audit trail never contradicts the store: a decision it reports is   *)
(* the one the row still carries, under the name of the reviewer who made  *)
(* it, whichever reviewers raced.                                          *)
TrailTruthful ==
  \A e \in trail : e.event \in Verdicts =>
    /\ approvals[e.id] # NoApproval
    /\ approvals[e.id].decidedBy = e.by /\ e.by \in People
    /\ approvals[e.id].status \in
         IF e.event = "denied" THEN {"denied"} ELSE {"approved", "expired", "consumed"}

(* Nobody approves their own call (CHANGELOG.md: "the identity that        *)
(* triggered a call cannot approve its own request").                      *)
SeparationOfDuties ==
  \A i \in Ids : Exists(i) /\ approvals[i].status \in {"approved", "consumed"} =>
    approvals[i].decidedBy # approvals[i].who

(* A decision is final: once a reviewer is on record neither the name, the *)
(* requester, the binding nor the deadline changes, a denied or consumed   *)
(* row never changes again, and an approved one can only be consumed.      *)
DecisionIsFinal(i) ==
  LET a == approvals[i]
      b == approvals'[i]
  IN a # NoApproval /\ a.decidedBy # NoOne =>
       /\ b # NoApproval
       /\ b.decidedBy = a.decidedBy
       /\ b.who = a.who /\ b.binding = a.binding /\ b.expiresAt = a.expiresAt
       /\ a.status \in {"denied", "consumed"} => b = a
       /\ a.status = "approved" => b.status \in {"approved", "consumed"}

DecisionsFinal == [][\A i \in Ids : DecisionIsFinal(i)]_vars
=============================================================================
