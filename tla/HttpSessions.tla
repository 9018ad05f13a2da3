---------------------------- MODULE HttpSessions ----------------------------
(***************************************************************************)
(* The HTTP gateway's sessions: SessionRegistry, the POST and DELETE       *)
(* handlers that use it, and the cache of upstream session ids in          *)
(* HTTPUpstreamClient.  Handlers of concurrent requests meet under two     *)
(* locks, the registry's and the cache's; between them they wait for the   *)
(* upstream server while others delete, expire or use the same session.    *)
(*                                                                         *)
(* A scope is a logical server together with the authenticated subject,    *)
(* client and agent.  The clock is abstracted to the set of sessions that  *)
(* have been idle for the time to live.                                    *)
(***************************************************************************)
EXTENDS Naturals, FiniteSets

CONSTANTS
  Callers,      \* HTTP requests, each handled once
  Scopes,       \* server and principal
  Keys,         \* gateway session identifiers (uuid4)
  UpstreamIds,  \* session identifiers the upstream server may issue
  Capacity,     \* sessions per process
  Evidence,     \* scopes whose server runs tools/call through the evidence pipeline
  AuditFails,   \* whether a strict audit write may fail after the exchange
  NoKey, NoScope, NoId, Unborn

ASSUME CapacityAssumption == Capacity \in Nat /\ Evidence \subseteq Scopes /\ AuditFails \in BOOLEAN
ASSUME NoneAssumption ==
  /\ NoKey \notin Keys /\ NoScope \notin Scopes /\ NoId \notin UpstreamIds
  /\ Unborn \notin Keys \cup {NoKey}

VARIABLES
  entries,  \* entries[k]: scope of session k, NoScope when there is none
  idle,     \* sessions untouched for the time to live
  active,   \* the upstream client's registered sessions
  cache,    \* cache[k]: the upstream session id kept for k
  spent,    \* keys ever drawn
  home,     \* home[u]: the session for which the upstream server issued u
  pc,       \* pc[c]: where request c is
  ask,      \* ask[c]: scope, supplied session and kind of request c
  key,      \* key[c]: the session request c was resolved to
  sent,     \* sent[c]: upstream session id sent along with c
  status,   \* status[c]: what the upstream server answered
  offer,    \* offer[c]: the upstream session id in that answer
  handled,  \* handled[c]: what the pipeline made of it
  reply     \* reply[c]: what the client got

registry == <<entries, idle, active, cache, spent>>
exchange == <<sent, status, offer, handled>>
vars == <<registry, home, pc, ask, key, exchange, reply>>

Kinds == {"initialize", "call", "delete"}
Request == [scope : Scopes, supplied : Keys \cup {NoKey}, kind : Kinds]
Outcomes == {"none", "ok", "error", "notFound", "raised"}
Replies == Outcomes \cup {"unknown", "refused", "full", "expired", "deleted", "unrendered"}

TypeOK ==
  /\ entries \in [Keys -> Scopes \cup {NoScope}]
  /\ idle \subseteq Keys /\ active \subseteq Keys /\ spent \subseteq Keys
  /\ cache \in [Keys -> UpstreamIds \cup {NoId}]
  /\ home \in [UpstreamIds -> Keys \cup {NoKey, Unborn}]
  /\ pc \in [Callers -> {"received", "resolved", "sent", "answered", "handled", "checked", "over"}]
  /\ ask \in [Callers -> Request]
  /\ key \in [Callers -> Keys \cup {NoKey}]
  /\ sent \in [Callers -> UpstreamIds \cup {NoId}]
  /\ offer \in [Callers -> UpstreamIds \cup {NoId}]
  /\ status \in [Callers -> Outcomes]
  /\ handled \in [Callers -> Outcomes]
  /\ reply \in [Callers -> Replies]

Init ==
  /\ entries = [k \in Keys |-> NoScope]
  /\ idle = {} /\ active = {} /\ spent = {}
  /\ cache = [k \in Keys |-> NoId]
  /\ home = [u \in UpstreamIds |-> Unborn]
  /\ pc = [c \in Callers |-> "received"]
  /\ ask \in [Callers -> Request]
  /\ key = [c \in Callers |-> NoKey]
  /\ sent = [c \in Callers |-> NoId]
  /\ offer = [c \in Callers |-> NoId]
  /\ status = [c \in Callers |-> "none"]
  /\ handled = [c \in Callers |-> "none"]
  /\ reply = [c \in Callers |-> "none"]

-----------------------------------------------------------------------------
(* The registry.                                                           *)

Open(k) == entries[k] # NoScope

\* _remove, for every session of a set.
Remove(ks) ==
  /\ entries' = [k \in Keys |-> IF k \in ks THEN NoScope ELSE entries[k]]
  /\ active' = active \ ks
  /\ cache' = [k \in Keys |-> IF k \in ks THEN NoId ELSE cache[k]]
  /\ idle' = idle \ ks

Over(c, r) ==
  /\ pc' = [pc EXCEPT ![c] = "over"]
  /\ reply' = [reply EXCEPT ![c] = r]

\* Variants named ...Bug are plausible mistakes; no specification uses them.
KnownBug(c) == ask[c].supplied \in Keys \ idle /\ Open(ask[c].supplied)

Known(c) ==
  /\ ask[c].supplied \in Keys \ idle
  /\ Open(ask[c].supplied)
  /\ entries[ask[c].supplied] = ask[c].scope

Full == Cardinality({k \in Keys : Open(k)} \ idle) >= Capacity

Refusal(c) ==
  CASE ask[c].supplied # NoKey /\ ~Known(c) -> "unknown"
    [] ask[c].supplied # NoKey /\ Known(c) /\ ask[c].kind = "initialize" -> "refused"
    [] ask[c].supplied = NoKey /\ ask[c].kind = "initialize" /\ Full -> "full"
    [] ask[c].supplied = NoKey /\ ask[c].kind = "delete" -> "refused"
    [] OTHER -> "none"

\* Every resolve purges first; a delete without a session does not get there.
Resolve(c) ==
  /\ pc[c] = "received"
  /\ IF ask[c].supplied = NoKey /\ ask[c].kind = "delete"
     THEN UNCHANGED <<entries, active, cache, idle>>
     ELSE Remove(idle)

ResolveFails(c) ==
  /\ Resolve(c)
  /\ Refusal(c) # "none"
  /\ Over(c, Refusal(c))
  /\ UNCHANGED <<spent, home, ask, key, exchange>>

\* A supplied session, or none: a stateless request.
ResolveSupplied(c) ==
  /\ Resolve(c)
  /\ Refusal(c) = "none"
  /\ ask[c].kind # "initialize"
  /\ key' = [key EXCEPT ![c] = ask[c].supplied]
  /\ pc' = [pc EXCEPT ![c] = "resolved"]
  /\ UNCHANGED <<spent, home, ask, exchange, reply>>

ResolveNew(c) ==
  /\ pc[c] = "received"
  /\ Refusal(c) = "none"
  /\ ask[c].kind = "initialize"
  /\ \E k \in Keys \ spent :
       /\ entries' = [x \in Keys |-> IF x = k THEN ask[c].scope
                                     ELSE IF x \in idle THEN NoScope ELSE entries[x]]
       /\ active' = (active \ idle) \cup {k}
       /\ cache' = [x \in Keys |-> IF x \in idle THEN NoId ELSE cache[x]]
       /\ idle' = {}
       /\ spent' = spent \cup {k}
       /\ key' = [key EXCEPT ![c] = k]
  /\ pc' = [pc EXCEPT ![c] = "resolved"]
  /\ UNCHANGED <<home, ask, exchange, reply>>

\* An hour without a request.
Idle(k) ==
  /\ Open(k)
  /\ idle' = idle \cup {k}
  /\ UNCHANGED <<entries, active, cache, spent, home, pc, ask, key, exchange, reply>>

-----------------------------------------------------------------------------
(* The upstream call of a POST.                                            *)

\* Policy denies the message: it is not sent.
Deny(c) ==
  /\ pc[c] = "resolved" /\ ask[c].kind # "delete"
  /\ handled' = [handled EXCEPT ![c] = "error"]
  /\ pc' = [pc EXCEPT ![c] = "handled"]
  /\ UNCHANGED <<registry, home, ask, key, sent, status, offer, reply>>

Send(c) ==
  /\ pc[c] = "resolved" /\ ask[c].kind # "delete"
  /\ sent' = [sent EXCEPT ![c] = IF key[c] = NoKey THEN NoId ELSE cache[key[c]]]
  /\ pc' = [pc EXCEPT ![c] = "sent"]
  /\ UNCHANGED <<registry, home, ask, key, status, offer, handled, reply>>

\* The upstream server answers, or does not; it may issue a session id.
Answer(c) ==
  /\ pc[c] = "sent"
  /\ pc' = [pc EXCEPT ![c] = "answered"]
  /\ \/ /\ \E s \in {"ok", "error", "notFound"} : status' = [status EXCEPT ![c] = s]
        /\ offer' = [offer EXCEPT ![c] = sent[c]]
        /\ UNCHANGED home
     \/ /\ status' = [status EXCEPT ![c] = "ok"]
        /\ \E u \in UpstreamIds :
             /\ home[u] = Unborn
             /\ offer' = [offer EXCEPT ![c] = u]
             /\ home' = [home EXCEPT ![u] = key[c]]
  /\ UNCHANGED <<registry, ask, key, sent, handled, reply>>

KeptBug(c) == status[c] = "ok" /\ offer[c] # NoId /\ key[c] # NoKey

\* Only a session that is still registered keeps its upstream id.
Kept(c) == status[c] = "ok" /\ offer[c] # NoId /\ key[c] \in active

Raised == IF AuditFails THEN {"raised"} ELSE {}

Evidenced(c) == ask[c].scope \in Evidence /\ ask[c].kind = "call"

\* The evidence pipeline answers every upstream failure with -32051; otherwise
\* a 404 is passed on (one that could not be read is an error); an answer may
\* be refused, withheld or itself claim to be a 404; logging may raise.
HandledAs(c) ==
  CASE Evidenced(c) /\ status[c] # "ok" -> {"error"}
    [] status[c] = "notFound" -> {"notFound"} \cup Raised
    [] status[c] = "error" -> {"error"} \cup Raised
    [] OTHER -> {"ok", "error", "notFound"} \cup Raised

\* HTTPUpstreamClient.send returns and the pipeline makes its response of it.
Handle(c) ==
  /\ pc[c] = "answered"
  /\ cache' = [k \in Keys |-> IF Kept(c) /\ k = key[c] THEN offer[c] ELSE cache[k]]
  /\ \E h \in HandledAs(c) : handled' = [handled EXCEPT ![c] = h]
  /\ pc' = [pc EXCEPT ![c] = "handled"]
  /\ UNCHANGED <<entries, idle, active, spent, home, ask, key, sent, status, offer, reply>>

-----------------------------------------------------------------------------
(* What becomes of the session.                                            *)

Check(c) ==
  /\ pc[c] = "handled"
  /\ handled[c] # "raised"
  /\ IF key[c] # NoKey /\ ~Open(key[c])
     THEN Over(c, "expired")
     ELSE pc' = [pc EXCEPT ![c] = "checked"] /\ UNCHANGED reply
  /\ UNCHANGED <<registry, home, ask, key, exchange>>

CostsBug(c) == key[c] # NoKey /\ handled[c] = "notFound"

CostsInitBug(c) == ask[c].kind = "initialize" /\ handled[c] # "ok"

\* An answer that costs the client the session: 404, or a failed initialize.
Costs(c) ==
  \/ key[c] # NoKey /\ handled[c] = "notFound"
  \/ ask[c].kind = "initialize" /\ handled[c] # "ok"

Settle(c) ==
  /\ \/ pc[c] = "checked"
     \/ pc[c] = "handled" /\ handled[c] = "raised"
  /\ Remove(IF Costs(c) THEN {key[c]} ELSE {})
  /\ UNCHANGED <<spent, home, ask, key, exchange>>

Respond(c) == Settle(c) /\ Over(c, handled[c])

\* The response is made outside the try: what JSON cannot say (an infinite
\* number, half a surrogate pair) is a 500 without the session's key, and an
\* initialize that was handled well leaves its session open.  (To any other
\* request a 500 is one more answer: Respond.)
RenderFails(c) ==
  Settle(c) /\ ask[c].kind = "initialize" /\ handled[c] # "raised" /\ Over(c, "unrendered")

Delete(c) ==
  /\ pc[c] = "resolved" /\ ask[c].kind = "delete"
  /\ Remove({key[c]})
  /\ Over(c, "deleted")
  /\ UNCHANGED <<spent, home, ask, key, exchange>>
-----------------------------------------------------------------------------
Step(c) ==
  \/ ResolveFails(c) \/ ResolveSupplied(c) \/ ResolveNew(c)
  \/ Deny(c) \/ Send(c) \/ Answer(c) \/ Handle(c)
  \/ Check(c) \/ Respond(c) \/ RenderFails(c) \/ Delete(c)

Next ==
  \/ \E c \in Callers : Step(c)
  \/ \E k \in Keys : Idle(k)

Spec == Init /\ [][Next]_vars

-----------------------------------------------------------------------------
(* Properties.                                                             *)

(* "A late response cannot recreate a deleted upstream cache entry": the   *)
(* upstream client knows a session, or an upstream id for it, only as long *)
(* as the registry does.                                                   *)
CacheFollowsRegistry ==
  \A k \in Keys : (k \in active <=> Open(k)) /\ (cache[k] # NoId => k \in active)

(* "The upstream session is private to that scope": an upstream id is sent *)
(* only for the session it was issued to, and only by its own scope.       *)
UpstreamSessionsArePrivate ==
  \A c \in Callers :
    sent[c] # NoId =>
      /\ home[sent[c]] = key[c]
      /\ \E d \in Callers :
           ask[d].kind = "initialize" /\ key[d] = key[c] /\ ask[d].scope = ask[c].scope

(* "Limited to 10,000 per process" is a limit on sessions somebody may     *)
(* have: one is open only if its initialize still runs or was handled      *)
(* well, its key told to the client unless the answer could not be         *)
(* rendered.  Initializes that are refused, fail, raise or get a 404 leave *)
(* nothing behind, however many race.                                      *)
NoOrphans ==
  /\ Cardinality({k \in Keys : Open(k)}) <= Capacity
  /\ \A k \in Keys : Open(k) =>
       \E c \in Callers :
         /\ ask[c].kind = "initialize" /\ key[c] = k
         /\ pc[c] = "over" => handled[c] = "ok" /\ reply[c] \in {"ok", "unrendered"}

(* "Upstream 404 invalidates the gateway session": once the request that   *)
(* got it is over, the session is gone, whoever else uses, expires or      *)
(* deletes it.  Not so when the evidence pipeline turned the 404 into      *)
(* another error, or when its outcome could not be logged; and a 404 whose *)
(* body is too long or an event stream is an "error" here as in the code.  *)
Plain404Invalidates ==
  \A c \in Callers :
    /\ pc[c] = "over" /\ status[c] = "notFound" /\ key[c] # NoKey
    /\ ~Evidenced(c) /\ reply[c] # "raised"
    => ~Open(key[c])
=============================================================================
