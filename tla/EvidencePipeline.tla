-------------------------- MODULE EvidencePipeline --------------------------
(***************************************************************************)
(* A tools/call on a server with evidence, from the gateway thread that    *)
(* handles it to the destination that executes it and back:                *)
(* MCPPipeline._send_with_evidence, EvidenceRuntime, EvidenceStore and the *)
(* reference RefundDestination, with the operator's reconcile command.     *)
(*                                                                         *)
(* EvidenceRuntime.prepare mints one operation id per call, so operation   *)
(* and call are one name here.  The transactions of the two SQLite files   *)
(* are atomic; everything between them interleaves, fails or crashes.  The *)
(* network may delay a request past every deadline, lose it or deliver it  *)
(* again.  Outbox delivery (flush) only succeeds or fails here.            *)
(***************************************************************************)
EXTENDS Naturals

CONSTANTS
  Calls,       \* tools/call requests, each with the operation minted for it
  Keys,        \* client idempotency keys, each standing for one scope
  Prints,      \* what the arguments say: one value per request fingerprint
  Approvals,   \* approvals a reviewer has granted
  Gated,       \* whether the policy of the tool is require_approval
  Mode,        \* evidence.mode of the server: "observe" or "required"
  NoKey, NoApproval, NoRequest

ASSUME ModeAssumption == Mode \in {"observe", "required"} /\ Gated \in BOOLEAN
ASSUME NullAssumption == NoKey \notin Keys /\ NoApproval \notin Approvals

VARIABLES
  bound,      \* bound[a]: the key and arguments approval a was granted for
  status,     \* status[a]: status of approval a in the shared database
  request,    \* request[c]: key, arguments and approval id of call c
  pc,         \* pc[c]: where the thread handling call c is
  answer,     \* answer[c]: what the client was told
  operations, \* reserved operations (rows of evidence_v1_operations)
  receipts,   \* operations whose row carries a verified receipt
  events,     \* rows of evidence_v1_events: operation and phase
  intents,    \* operations whose dispatch intent is in the strict audit log
  wire,       \* permits that left the gateway and may still arrive
  ledger,     \* operations the destination executed (rows of refund_operations)
  refunds,    \* refunds[c]: refunds the destination made for operation c
  serving,    \* committed or repeated requests the destination must answer
  signed      \* operations with an immutable signed receipt

gatewayVars == <<request, pc, answer>>
storeVars == <<operations, receipts, events>>
destinationVars == <<ledger, refunds, serving, signed>>
vars == <<bound, status, gatewayVars, storeVars, intents, wire, destinationVars>>

Subject == [key : Keys \cup {NoKey}, print : Prints]
Request == [key : Keys \cup {NoKey}, print : Prints, approval : Approvals \cup {NoApproval}]
Phases == {"dispatch_intent", "response_observed", "client_response_prepared",
           "outcome_unavailable", "reconciled"}
Reserved == {"reserved", "armed", "waiting", "receipted", "refused", "unverified",
             "observed", "prepared"}
Answers == {"none", "approval_required", "not_dispatched", "already_reserved",
            "unknown", "response"}

TypeOK ==
  /\ bound \in [Approvals -> Subject]
  /\ status \in [Approvals -> {"approved", "consumed", "lapsed"}]
  /\ request \in [Calls -> Request \cup {NoRequest}]
  /\ pc \in [Calls -> {"idle", "checking", "preparing", "over"} \cup Reserved]
  /\ answer \in [Calls -> Answers]
  /\ operations \subseteq Calls
  /\ receipts \subseteq operations
  /\ events \subseteq Calls \X Phases
  /\ intents \subseteq Calls /\ wire \subseteq Calls
  /\ ledger \subseteq Calls /\ serving \subseteq Calls /\ signed \subseteq Calls
  /\ refunds \in [Calls -> Nat]

Init ==
  /\ bound \in [Approvals -> Subject]
  /\ status = [a \in Approvals |-> "approved"]
  /\ request = [c \in Calls |-> NoRequest]
  /\ pc = [c \in Calls |-> "idle"]
  /\ answer = [c \in Calls |-> "none"]
  /\ operations = {} /\ receipts = {} /\ events = {}
  /\ intents = {} /\ wire = {}
  /\ ledger = {} /\ serving = {} /\ signed = {}
  /\ refunds = [c \in Calls |-> 0]

-----------------------------------------------------------------------------
(* The gateway thread of call c.                                           *)

Goto(c, here, there) == pc[c] = here /\ pc' = [pc EXCEPT ![c] = there]

Reply(c, what) == answer' = [answer EXCEPT ![c] = what]

\* Approvals bind identity, arguments and all other params, the key included.
ApprovalValid(a, r) ==
  /\ a \in Approvals
  /\ status[a] = "approved"
  /\ bound[a].key = r.key /\ bound[a].print = r.print

Receive(c) ==
  /\ Goto(c, "idle", IF Gated THEN "checking" ELSE "preparing")
  /\ \E r \in Request : request' = [request EXCEPT ![c] = r]
  /\ UNCHANGED <<bound, status, answer, storeVars, intents, wire, destinationVars>>

\* is_valid_for, outside every transaction.
ApprovalLooksValid(c) ==
  /\ Goto(c, "checking", "preparing")
  /\ ApprovalValid(request[c].approval, request[c])
  /\ UNCHANGED <<bound, status, request, answer, storeVars, intents, wire, destinationVars>>

AskForApproval(c) ==
  /\ Goto(c, "checking", "over")
  /\ ~ApprovalValid(request[c].approval, request[c])
  /\ Reply(c, "approval_required")
  /\ UNCHANGED <<bound, status, request, storeVars, intents, wire, destinationVars>>

SameScope(c, o) == request[c].key # NoKey /\ request[o].key = request[c].key

\* The row of the operation and its first event.
Insert(c) ==
  /\ operations' = operations \cup {c}
  /\ events' = events \cup {<<c, "dispatch_intent">>}

\* The transaction of EvidenceStore.reserve when nothing stands in the way.
Reserve(c) ==
  /\ Goto(c, "preparing", "reserved")
  /\ ~\E o \in operations : SameScope(c, o)
  /\ \/ ~Gated /\ UNCHANGED status
     \/ /\ Gated
        /\ ApprovalValid(request[c].approval, request[c])
        /\ status' = [status EXCEPT ![request[c].approval] = "consumed"]
  /\ Insert(c)
  /\ UNCHANGED <<bound, request, answer, receipts, intents, wire, destinationVars>>

\* The scope is taken by an operation with the same arguments: -32052.
AlreadyReserved(c) ==
  /\ Goto(c, "preparing", "over")
  /\ \E o \in operations : SameScope(c, o) /\ request[o].print = request[c].print
  /\ Reply(c, "already_reserved")
  /\ UNCHANGED <<bound, status, request, storeVars, intents, wire, destinationVars>>

\* IDEMPOTENCY_CONFLICT, APPROVAL_NOT_ACTIVE, or a failure before the
\* reservation commits: -32050.
NotDispatched(c) ==
  /\ Goto(c, "preparing", "over")
  /\ Reply(c, "not_dispatched")
  /\ UNCHANGED <<bound, status, request, storeVars, intents, wire, destinationVars>>

\* Variants named ...Bug are plausible mistakes; no specification uses them.
LogIntentBug(c) ==
  /\ Goto(c, "reserved", "armed")
  /\ intents' \in {intents, intents \cup {c}}
  /\ UNCHANGED <<bound, status, request, answer, storeVars, wire, destinationVars>>

\* The outbox is flushed and the dispatch intent written.  Evidence requires
\* strict audit, so neither can fail silently.
LogIntent(c) ==
  /\ Goto(c, "reserved", "armed")
  /\ intents' = intents \cup {c}
  /\ UNCHANGED <<bound, status, request, answer, storeVars, wire, destinationVars>>

Send(c) ==
  /\ Goto(c, "armed", "waiting")
  /\ wire' = wire \cup {c}
  /\ UNCHANGED <<bound, status, request, answer, storeVars, intents, destinationVars>>

VerdictBug(c) == "observed"

Verdict(c) == IF pc[c] = "receipted" \/ Mode = "observe" THEN "observed" ELSE "unverified"

\* The outcome is logged; a verified receipt goes into the row.  Without one
\* the response is recorded all the same, and required mode then raises.
Observe(c) ==
  /\ pc[c] \in {"receipted", "refused"}
  /\ pc' = [pc EXCEPT ![c] = Verdict(c)]
  /\ events' = events \cup {<<c, "response_observed">>}
  /\ receipts' = IF pc[c] = "receipted" THEN receipts \cup {c} ELSE receipts
  /\ UNCHANGED <<bound, status, request, answer, operations, intents, wire, destinationVars>>

\* Output enforcement rewrites the response; its digest is recorded.
Prepare(c) ==
  /\ Goto(c, "observed", "prepared")
  /\ events' = events \cup {<<c, "client_response_prepared">>}
  /\ UNCHANGED <<bound, status, request, answer, operations, receipts, intents, wire, destinationVars>>

Respond(c) ==
  /\ Goto(c, "prepared", "over")
  /\ Reply(c, "response")
  /\ UNCHANGED <<bound, status, request, storeVars, intents, wire, destinationVars>>

OutcomeBug(c) == IF pc[c] = "waiting" THEN "unknown" ELSE "not_dispatched"

Outcome(c) == "unknown"

MayFailBug(c) == pc[c] \in Reserved \ {"waiting"}

MayFail(c) == pc[c] \in Reserved

\* Anything that raises after the reservation, a timeout included: the outcome
\* is recorded if the database still works, and the client gets -32051.
Unavailable(c) ==
  /\ MayFail(c)
  /\ pc' = [pc EXCEPT ![c] = "over"]
  /\ Reply(c, Outcome(c))
  /\ events' \in {events, events \cup {<<c, "outcome_unavailable">>}}
  /\ UNCHANGED <<bound, status, request, operations, receipts, intents, wire, destinationVars>>

\* The gateway process dies: no answer, and only files survive.
Crash(c) ==
  /\ pc[c] \in {"checking", "preparing"} \cup Reserved
  /\ pc' = [pc EXCEPT ![c] = "over"]
  /\ UNCHANGED <<bound, status, request, answer, storeVars, intents, wire, destinationVars>>

-----------------------------------------------------------------------------
ApprovalLapses(a) ==
  /\ status[a] = "approved"
  /\ status' = [status EXCEPT ![a] = "lapsed"]
  /\ UNCHANGED <<bound, gatewayVars, storeVars, intents, wire, destinationVars>>

-----------------------------------------------------------------------------
(* The destination.                                                        *)

\* The response of operation c wakes its thread, if that still waits.
Wake(c, how) == pc' = [pc EXCEPT ![c] = IF @ = "waiting" THEN how ELSE @]

RefundedBug(c) == [refunds EXCEPT ![c] = @ + 1]

Refunded(c) == IF c \in ledger THEN refunds ELSE [refunds EXCEPT ![c] = @ + 1]

\* The ledger transaction: the effect and its receipt material, or the stored
\* response when this operation was executed before.
Execute(c) ==
  /\ c \in wire
  /\ refunds' = Refunded(c)
  /\ ledger' = ledger \cup {c}
  /\ serving' = serving \cup {c}
  /\ UNCHANGED <<bound, status, gatewayVars, storeVars, intents, wire, signed>>

\* The permit is not (or no longer) current, or a business rule refuses: an
\* error without a receipt, and no change to the ledger.
Reject(c) ==
  /\ c \in wire
  /\ Wake(c, "refused")
  /\ UNCHANGED <<bound, status, request, answer, storeVars, intents, wire, destinationVars>>

\* Sign what was committed, once, and answer.
Answer(c) ==
  /\ c \in serving
  /\ serving' = serving \ {c}
  /\ signed' = signed \cup {c}
  /\ Wake(c, "receipted")
  /\ UNCHANGED <<bound, status, request, answer, storeVars, intents, wire, ledger, refunds>>

\* The destination dies between its commit and the signature.
DestinationCrash ==
  /\ serving # {}
  /\ serving' = {}
  /\ UNCHANGED <<bound, status, gatewayVars, storeVars, intents, wire, ledger, refunds, signed>>

Lose(c) ==
  /\ c \in wire
  /\ wire' = wire \ {c}
  /\ UNCHANGED <<bound, status, gatewayVars, storeVars, intents, destinationVars>>

-----------------------------------------------------------------------------
(* The operator's reconcile command presents the stored permit; the        *)
(* destination signs, if it has not yet, and returns the receipt of an     *)
(* executed operation, and the gateway records it.                         *)

RecoverableSignedBug(c) == c \in signed

Recoverable(c) == c \in ledger

Reconcile(c) ==
  /\ c \in operations
  /\ Recoverable(c)
  /\ signed' = signed \cup {c}
  /\ receipts' = receipts \cup {c}
  /\ events' = events \cup {<<c, "reconciled">>}
  /\ UNCHANGED <<bound, status, gatewayVars, operations, intents, wire, ledger, refunds, serving>>

\* The receipt is lost on the way back, or the gateway cannot write.
ReconcileFails(c) ==
  /\ c \in operations
  /\ Recoverable(c)
  /\ signed' = signed \cup {c}
  /\ UNCHANGED <<bound, status, gatewayVars, storeVars, intents, wire, ledger, refunds, serving>>

-----------------------------------------------------------------------------
Handle(c) ==
  \/ ApprovalLooksValid(c) \/ AskForApproval(c)
  \/ Reserve(c) \/ AlreadyReserved(c) \/ NotDispatched(c)
  \/ LogIntent(c) \/ Send(c) \/ Observe(c)
  \/ Prepare(c) \/ Respond(c) \/ Unavailable(c)

Next ==
  \/ \E c \in Calls :
       \/ Receive(c) \/ Handle(c) \/ Crash(c)
       \/ Execute(c) \/ Reject(c) \/ Answer(c) \/ Lose(c)
       \/ Reconcile(c) \/ ReconcileFails(c)
  \/ \E a \in Approvals : ApprovalLapses(a)
  \/ DestinationCrash

Spec == Init /\ [][Next]_vars

(* The handler of a received call runs until it returns (a send ends, with *)
(* a timeout if need be), and the operator reconciles until it works.      *)
FairSpec ==
  Spec /\ \A c \in Calls : WF_vars(Handle(c)) /\ WF_vars(Reconcile(c))

-----------------------------------------------------------------------------
(* Properties.                                                             *)

ClaimOf(c) ==
  [call |-> c, key |-> request[c].key,
   approval |-> IF Gated THEN request[c].approval ELSE NoApproval]

Once == INSTANCE OnceOnly WITH
  claims <- {ClaimOf(c) : c \in operations},
  done <- refunds

(* Retries, replays, timeouts, duplicated deliveries and crashes included, *)
(* the pipeline implements OnceOnly: a reservation claims key and approval *)
(* in one transaction, and its effect happens at most once, after it.      *)
OnceOnlySpec == Once!Spec

(* No effect without its record: a committed effect belongs to a reserved  *)
(* operation whose first event and whose audited dispatch intent are       *)
(* durable, whose approval (if the policy asks for one) was granted for    *)
(* exactly this call and is used up.                                       *)
EffectIsRecorded ==
  \A c \in Calls : refunds[c] > 0 =>
    /\ c \in operations /\ c \in intents /\ <<c, "dispatch_intent">> \in events
    /\ Gated =>
         /\ request[c].approval \in Approvals
         /\ status[request[c].approval] = "consumed"
         /\ bound[request[c].approval].key = request[c].key
         /\ bound[request[c].approval].print = request[c].print

(* What the client is told is true of the world, also for effects that     *)
(* arrive after the answer: -32010, -32050 and -32052 mean this call never *)
(* left the gateway, now or later; -32052 names an operation of the same   *)
(* scope and arguments that is on record.                                  *)
AnswersAreHonest ==
  \A c \in Calls :
    /\ answer[c] \in {"approval_required", "not_dispatched", "already_reserved"} =>
         c \notin operations \cup wire \cup ledger \cup intents
    /\ answer[c] = "already_reserved" =>
         \E o \in operations \ {c} : SameScope(c, o) /\ request[o].print = request[c].print
    /\ answer[c] = "unknown" => c \in operations

(* In required mode a response reaches the client only when the effect is  *)
(* committed, its signed receipt is in the gateway's row, and both the raw *)
(* and the prepared response were recorded ("then a valid receipt before   *)
(* releasing a successful tool response").                                 *)
ResponseIsEvidenced ==
  \A c \in Calls :
    answer[c] = "response" =>
      /\ {<<c, "response_observed">>, <<c, "client_response_prepared">>} \subseteq events
      /\ Mode = "required" => c \in receipts /\ c \in signed /\ c \in ledger

(* A receipt in the gateway's row is one the destination signed for an     *)
(* effect it committed; neither receipt nor reservation is ever withdrawn. *)
EvidenceIsMonotone ==
  [][/\ receipts \subseteq receipts' /\ operations \subseteq operations'
     /\ receipts' \subseteq signed' /\ signed' \subseteq ledger']_vars

(* Every effect is found out: whatever crashed or was lost between the     *)
(* ledger and the gateway, its receipt ends up in the gateway's row.       *)
EffectsAreRecovered == \A c \in Calls : refunds[c] > 0 ~> c \in receipts

(* Every received call ends: answered, or cut off by a crash.              *)
EveryCallEnds == \A c \in Calls : pc[c] # "idle" ~> pc[c] = "over"
=============================================================================
