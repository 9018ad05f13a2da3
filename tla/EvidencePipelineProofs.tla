------------------------ MODULE EvidencePipelineProofs ------------------------
(***************************************************************************)
(* Proofs about EvidencePipeline for any number of calls, keys, arguments  *)
(* and approvals, in both modes.  The argument: nothing passes from one    *)
(* stage of an operation to the next without the record of the earlier one *)
(* (reservation, intent, wire, ledger, signature, receipt), and only the   *)
(* reservation, which is one transaction, claims a key and an approval.    *)
(***************************************************************************)
EXTENDS EvidencePipeline, TLAPS

Beyond == Reserved \ {"reserved"}

(* What the position of a thread says about its call.                      *)
PlaceInv ==
  \A c \in Calls :
    /\ pc[c] # "idle" => request[c] \in Request
    /\ pc[c] \in {"idle", "checking", "preparing"} => c \notin operations
    /\ pc[c] \in Reserved => c \in operations
    /\ pc[c] \in Beyond => c \in intents
    /\ pc[c] # "over" => answer[c] = "none"
    /\ pc[c] = "receipted" => c \in signed

(* Each stage of an operation presupposes the stage before.                *)
FlowInv ==
  /\ \A c \in operations : <<c, "dispatch_intent">> \in events
  /\ intents \subseteq operations
  /\ wire \subseteq intents
  /\ ledger \subseteq intents
  /\ serving \subseteq ledger
  /\ signed \subseteq ledger
  /\ receipts \subseteq signed
  /\ \A c \in Calls : refunds[c] = IF c \in ledger THEN 1 ELSE 0

(* Two reserved operations never share a key ...                           *)
ScopeInv == \A c, d \in operations : SameScope(c, d) => c = d

(* ... or an approval, and each approval they use was granted for them.    *)
ApprovalInv ==
  Gated =>
    /\ \A c \in operations :
         /\ request[c].approval \in Approvals
         /\ status[request[c].approval] = "consumed"
         /\ bound[request[c].approval].key = request[c].key
         /\ bound[request[c].approval].print = request[c].print
    /\ \A c, d \in operations : request[c].approval = request[d].approval => c = d

(* What was recorded by the time a response is ready for the client.       *)
ResponseInv ==
  \A c \in Calls :
    /\ pc[c] \in {"observed", "prepared"} =>
         /\ <<c, "response_observed">> \in events
         /\ Mode = "required" => c \in receipts
    /\ pc[c] = "prepared" => <<c, "client_response_prepared">> \in events

IInv ==
  /\ TypeOK /\ PlaceInv /\ FlowInv /\ ScopeInv /\ ApprovalInv
  /\ ResponseInv /\ AnswersAreHonest /\ ResponseIsEvidenced

-----------------------------------------------------------------------------
USE ModeAssumption, NullAssumption
USE DEF gatewayVars, storeVars, destinationVars, Beyond, Reserved, Goto, Reply

LEMMA InitIInv == Init => IInv
BY DEF Init, IInv, TypeOK, PlaceInv, FlowInv, ScopeInv, ApprovalInv, ResponseInv,
   AnswersAreHonest, ResponseIsEvidenced, Answers

LEMMA ReceiveStep ==
  ASSUME IInv, NEW c \in Calls, Receive(c)
  PROVE  IInv'
<1> USE DEF IInv, Receive
<1>1. TypeOK'
  BY DEF TypeOK, PlaceInv, Request, Answers, Phases
<1>2. PlaceInv'
  BY DEF PlaceInv, FlowInv, TypeOK
<1>3. FlowInv'
  BY DEF FlowInv, PlaceInv, TypeOK
<1>4. ScopeInv'
  BY DEF ScopeInv, SameScope, PlaceInv, TypeOK
<1>5. ApprovalInv'
  BY DEF ApprovalInv, PlaceInv, TypeOK
<1>6. ResponseInv'
  BY DEF ResponseInv, PlaceInv, TypeOK
<1>7. AnswersAreHonest'
  BY DEF AnswersAreHonest, SameScope, PlaceInv, FlowInv, TypeOK
<1>8. ResponseIsEvidenced'
  BY DEF ResponseIsEvidenced, ResponseInv, FlowInv, PlaceInv, TypeOK
<1> QED BY <1>1, <1>2, <1>3, <1>4, <1>5, <1>6, <1>7, <1>8

LEMMA ApprovalLooksValidStep ==
  ASSUME IInv, NEW c \in Calls, ApprovalLooksValid(c)
  PROVE  IInv'
<1> USE DEF IInv, ApprovalLooksValid
<1>1. TypeOK'
  BY DEF TypeOK, PlaceInv, Request, Answers, Phases
<1>2. PlaceInv'
  BY DEF PlaceInv, FlowInv, TypeOK
<1>3. FlowInv'
  BY DEF FlowInv, PlaceInv, TypeOK
<1>4. ScopeInv'
  BY DEF ScopeInv, SameScope, PlaceInv, TypeOK
<1>5. ApprovalInv'
  BY DEF ApprovalInv, PlaceInv, TypeOK
<1>6. ResponseInv'
  BY DEF ResponseInv, PlaceInv, TypeOK
<1>7. AnswersAreHonest'
  BY DEF AnswersAreHonest, SameScope, PlaceInv, FlowInv, TypeOK
<1>8. ResponseIsEvidenced'
  BY DEF ResponseIsEvidenced, ResponseInv, FlowInv, PlaceInv, TypeOK
<1> QED BY <1>1, <1>2, <1>3, <1>4, <1>5, <1>6, <1>7, <1>8

LEMMA AskForApprovalStep ==
  ASSUME IInv, NEW c \in Calls, AskForApproval(c)
  PROVE  IInv'
<1> USE DEF IInv, AskForApproval
<1>1. TypeOK'
  BY DEF TypeOK, PlaceInv, Request, Answers, Phases
<1>2. PlaceInv'
  BY DEF PlaceInv, FlowInv, TypeOK
<1>3. FlowInv'
  BY DEF FlowInv, PlaceInv, TypeOK
<1>4. ScopeInv'
  BY DEF ScopeInv, SameScope, PlaceInv, TypeOK
<1>5. ApprovalInv'
  BY DEF ApprovalInv, PlaceInv, TypeOK
<1>6. ResponseInv'
  BY DEF ResponseInv, PlaceInv, TypeOK
<1>7. AnswersAreHonest'
  BY DEF AnswersAreHonest, SameScope, PlaceInv, FlowInv, TypeOK
<1>8. ResponseIsEvidenced'
  BY DEF ResponseIsEvidenced, ResponseInv, FlowInv, PlaceInv, TypeOK
<1> QED BY <1>1, <1>2, <1>3, <1>4, <1>5, <1>6, <1>7, <1>8

LEMMA ReserveStep ==
  ASSUME IInv, NEW c \in Calls, Reserve(c)
  PROVE  IInv'
<1> USE DEF IInv, Reserve, Insert, ApprovalValid
<1>1. TypeOK'
  BY DEF TypeOK, PlaceInv, Request, Answers, Phases
<1>2. PlaceInv'
  BY DEF PlaceInv, FlowInv, TypeOK
<1>3. FlowInv'
  BY DEF FlowInv, PlaceInv, TypeOK
<1>4. ScopeInv'
  BY DEF ScopeInv, SameScope, PlaceInv, TypeOK
<1>5. ApprovalInv'
  BY DEF ApprovalInv, PlaceInv, TypeOK
<1>6. ResponseInv'
  BY DEF ResponseInv, PlaceInv, TypeOK
<1>7. AnswersAreHonest'
  BY DEF AnswersAreHonest, SameScope, PlaceInv, FlowInv, TypeOK
<1>8. ResponseIsEvidenced'
  BY DEF ResponseIsEvidenced, ResponseInv, FlowInv, PlaceInv, TypeOK
<1> QED BY <1>1, <1>2, <1>3, <1>4, <1>5, <1>6, <1>7, <1>8

LEMMA AlreadyReservedStep ==
  ASSUME IInv, NEW c \in Calls, AlreadyReserved(c)
  PROVE  IInv'
<1> USE DEF IInv, AlreadyReserved
<1>1. TypeOK'
  BY DEF TypeOK, PlaceInv, Request, Answers, Phases
<1>2. PlaceInv'
  BY DEF PlaceInv, FlowInv, TypeOK
<1>3. FlowInv'
  BY DEF FlowInv, PlaceInv, TypeOK
<1>4. ScopeInv'
  BY DEF ScopeInv, SameScope, PlaceInv, TypeOK
<1>5. ApprovalInv'
  BY DEF ApprovalInv, PlaceInv, TypeOK
<1>6. ResponseInv'
  BY DEF ResponseInv, PlaceInv, TypeOK
<1>7. AnswersAreHonest'
  BY DEF AnswersAreHonest, SameScope, PlaceInv, FlowInv, TypeOK
<1>8. ResponseIsEvidenced'
  BY DEF ResponseIsEvidenced, ResponseInv, FlowInv, PlaceInv, TypeOK
<1> QED BY <1>1, <1>2, <1>3, <1>4, <1>5, <1>6, <1>7, <1>8

LEMMA NotDispatchedStep ==
  ASSUME IInv, NEW c \in Calls, NotDispatched(c)
  PROVE  IInv'
<1> USE DEF IInv, NotDispatched
<1>1. TypeOK'
  BY DEF TypeOK, PlaceInv, Request, Answers, Phases
<1>2. PlaceInv'
  BY DEF PlaceInv, FlowInv, TypeOK
<1>3. FlowInv'
  BY DEF FlowInv, PlaceInv, TypeOK
<1>4. ScopeInv'
  BY DEF ScopeInv, SameScope, PlaceInv, TypeOK
<1>5. ApprovalInv'
  BY DEF ApprovalInv, PlaceInv, TypeOK
<1>6. ResponseInv'
  BY DEF ResponseInv, PlaceInv, TypeOK
<1>7. AnswersAreHonest'
  BY DEF AnswersAreHonest, SameScope, PlaceInv, FlowInv, TypeOK
<1>8. ResponseIsEvidenced'
  BY DEF ResponseIsEvidenced, ResponseInv, FlowInv, PlaceInv, TypeOK
<1> QED BY <1>1, <1>2, <1>3, <1>4, <1>5, <1>6, <1>7, <1>8

LEMMA LogIntentStep ==
  ASSUME IInv, NEW c \in Calls, LogIntent(c)
  PROVE  IInv'
<1> USE DEF IInv, LogIntent
<1>1. TypeOK'
  BY DEF TypeOK, PlaceInv, Request, Answers, Phases
<1>2. PlaceInv'
  BY DEF PlaceInv, FlowInv, TypeOK
<1>3. FlowInv'
  BY DEF FlowInv, PlaceInv, TypeOK
<1>4. ScopeInv'
  BY DEF ScopeInv, SameScope, PlaceInv, TypeOK
<1>5. ApprovalInv'
  BY DEF ApprovalInv, PlaceInv, TypeOK
<1>6. ResponseInv'
  BY DEF ResponseInv, PlaceInv, TypeOK
<1>7. AnswersAreHonest'
  BY DEF AnswersAreHonest, SameScope, PlaceInv, FlowInv, TypeOK
<1>8. ResponseIsEvidenced'
  BY DEF ResponseIsEvidenced, ResponseInv, FlowInv, PlaceInv, TypeOK
<1> QED BY <1>1, <1>2, <1>3, <1>4, <1>5, <1>6, <1>7, <1>8

LEMMA SendStep ==
  ASSUME IInv, NEW c \in Calls, Send(c)
  PROVE  IInv'
<1> USE DEF IInv, Send
<1>1. TypeOK'
  BY DEF TypeOK, PlaceInv, Request, Answers, Phases
<1>2. PlaceInv'
  BY DEF PlaceInv, FlowInv, TypeOK
<1>3. FlowInv'
  BY DEF FlowInv, PlaceInv, TypeOK
<1>4. ScopeInv'
  BY DEF ScopeInv, SameScope, PlaceInv, TypeOK
<1>5. ApprovalInv'
  BY DEF ApprovalInv, PlaceInv, TypeOK
<1>6. ResponseInv'
  BY DEF ResponseInv, PlaceInv, TypeOK
<1>7. AnswersAreHonest'
  BY DEF AnswersAreHonest, SameScope, PlaceInv, FlowInv, TypeOK
<1>8. ResponseIsEvidenced'
  BY DEF ResponseIsEvidenced, ResponseInv, FlowInv, PlaceInv, TypeOK
<1> QED BY <1>1, <1>2, <1>3, <1>4, <1>5, <1>6, <1>7, <1>8

LEMMA ObserveStep ==
  ASSUME IInv, NEW c \in Calls, Observe(c)
  PROVE  IInv'
<1> USE DEF IInv, Observe, Verdict
<1>1. TypeOK'
  BY DEF TypeOK, PlaceInv, Request, Answers, Phases
<1>2. PlaceInv'
  BY DEF PlaceInv, FlowInv, TypeOK
<1>3. FlowInv'
  BY DEF FlowInv, PlaceInv, TypeOK
<1>4. ScopeInv'
  BY DEF ScopeInv, SameScope, PlaceInv, TypeOK
<1>5. ApprovalInv'
  BY DEF ApprovalInv, PlaceInv, TypeOK
<1>6. ResponseInv'
  BY DEF ResponseInv, PlaceInv, TypeOK
<1>7. AnswersAreHonest'
  BY DEF AnswersAreHonest, SameScope, PlaceInv, FlowInv, TypeOK
<1>8. ResponseIsEvidenced'
  BY DEF ResponseIsEvidenced, ResponseInv, FlowInv, PlaceInv, TypeOK
<1> QED BY <1>1, <1>2, <1>3, <1>4, <1>5, <1>6, <1>7, <1>8

LEMMA PrepareStep ==
  ASSUME IInv, NEW c \in Calls, Prepare(c)
  PROVE  IInv'
<1> USE DEF IInv, Prepare
<1>1. TypeOK'
  BY DEF TypeOK, PlaceInv, Request, Answers, Phases
<1>2. PlaceInv'
  BY DEF PlaceInv, FlowInv, TypeOK
<1>3. FlowInv'
  BY DEF FlowInv, PlaceInv, TypeOK
<1>4. ScopeInv'
  BY DEF ScopeInv, SameScope, PlaceInv, TypeOK
<1>5. ApprovalInv'
  BY DEF ApprovalInv, PlaceInv, TypeOK
<1>6. ResponseInv'
  BY DEF ResponseInv, PlaceInv, TypeOK
<1>7. AnswersAreHonest'
  BY DEF AnswersAreHonest, SameScope, PlaceInv, FlowInv, TypeOK
<1>8. ResponseIsEvidenced'
  BY DEF ResponseIsEvidenced, ResponseInv, FlowInv, PlaceInv, TypeOK
<1> QED BY <1>1, <1>2, <1>3, <1>4, <1>5, <1>6, <1>7, <1>8

LEMMA RespondStep ==
  ASSUME IInv, NEW c \in Calls, Respond(c)
  PROVE  IInv'
<1> USE DEF IInv, Respond
<1>1. TypeOK'
  BY DEF TypeOK, PlaceInv, Request, Answers, Phases
<1>2. PlaceInv'
  BY DEF PlaceInv, FlowInv, TypeOK
<1>3. FlowInv'
  BY DEF FlowInv, PlaceInv, TypeOK
<1>4. ScopeInv'
  BY DEF ScopeInv, SameScope, PlaceInv, TypeOK
<1>5. ApprovalInv'
  BY DEF ApprovalInv, PlaceInv, TypeOK
<1>6. ResponseInv'
  BY DEF ResponseInv, PlaceInv, TypeOK
<1>7. AnswersAreHonest'
  BY DEF AnswersAreHonest, SameScope, PlaceInv, FlowInv, TypeOK
<1>8. ResponseIsEvidenced'
  BY DEF ResponseIsEvidenced, ResponseInv, FlowInv, PlaceInv, TypeOK
<1> QED BY <1>1, <1>2, <1>3, <1>4, <1>5, <1>6, <1>7, <1>8

LEMMA UnavailableStep ==
  ASSUME IInv, NEW c \in Calls, Unavailable(c)
  PROVE  IInv'
<1> USE DEF IInv, Unavailable, MayFail, Outcome
<1>1. TypeOK'
  BY DEF TypeOK, PlaceInv, Request, Answers, Phases
<1>2. PlaceInv'
  BY DEF PlaceInv, FlowInv, TypeOK
<1>3. FlowInv'
  BY DEF FlowInv, PlaceInv, TypeOK
<1>4. ScopeInv'
  BY DEF ScopeInv, SameScope, PlaceInv, TypeOK
<1>5. ApprovalInv'
  BY DEF ApprovalInv, PlaceInv, TypeOK
<1>6. ResponseInv'
  BY DEF ResponseInv, PlaceInv, TypeOK
<1>7. AnswersAreHonest'
  BY DEF AnswersAreHonest, SameScope, PlaceInv, FlowInv, TypeOK
<1>8. ResponseIsEvidenced'
  BY DEF ResponseIsEvidenced, ResponseInv, FlowInv, PlaceInv, TypeOK
<1> QED BY <1>1, <1>2, <1>3, <1>4, <1>5, <1>6, <1>7, <1>8

LEMMA CrashStep ==
  ASSUME IInv, NEW c \in Calls, Crash(c)
  PROVE  IInv'
<1> USE DEF IInv, Crash
<1>1. TypeOK'
  BY DEF TypeOK, PlaceInv, Request, Answers, Phases
<1>2. PlaceInv'
  BY DEF PlaceInv, FlowInv, TypeOK
<1>3. FlowInv'
  BY DEF FlowInv, PlaceInv, TypeOK
<1>4. ScopeInv'
  BY DEF ScopeInv, SameScope, PlaceInv, TypeOK
<1>5. ApprovalInv'
  BY DEF ApprovalInv, PlaceInv, TypeOK
<1>6. ResponseInv'
  BY DEF ResponseInv, PlaceInv, TypeOK
<1>7. AnswersAreHonest'
  BY DEF AnswersAreHonest, SameScope, PlaceInv, FlowInv, TypeOK
<1>8. ResponseIsEvidenced'
  BY DEF ResponseIsEvidenced, ResponseInv, FlowInv, PlaceInv, TypeOK
<1> QED BY <1>1, <1>2, <1>3, <1>4, <1>5, <1>6, <1>7, <1>8

LEMMA ApprovalLapsesStep ==
  ASSUME IInv, NEW a \in Approvals, ApprovalLapses(a)
  PROVE  IInv'
<1> USE DEF IInv, ApprovalLapses
<1>1. TypeOK'
  BY DEF TypeOK, PlaceInv, Request, Answers, Phases
<1>2. PlaceInv'
  BY DEF PlaceInv, FlowInv, TypeOK
<1>3. FlowInv'
  BY DEF FlowInv, PlaceInv, TypeOK
<1>4. ScopeInv'
  BY DEF ScopeInv, SameScope, PlaceInv, TypeOK
<1>5. ApprovalInv'
  BY DEF ApprovalInv, PlaceInv, TypeOK
<1>6. ResponseInv'
  BY DEF ResponseInv, PlaceInv, TypeOK
<1>7. AnswersAreHonest'
  BY DEF AnswersAreHonest, SameScope, PlaceInv, FlowInv, TypeOK
<1>8. ResponseIsEvidenced'
  BY DEF ResponseIsEvidenced, ResponseInv, FlowInv, PlaceInv, TypeOK
<1> QED BY <1>1, <1>2, <1>3, <1>4, <1>5, <1>6, <1>7, <1>8

LEMMA ExecuteStep ==
  ASSUME IInv, NEW c \in Calls, Execute(c)
  PROVE  IInv'
<1> USE DEF IInv, Execute, Refunded
<1>1. TypeOK'
  BY DEF TypeOK, PlaceInv, Request, Answers, Phases
<1>2. PlaceInv'
  BY DEF PlaceInv, FlowInv, TypeOK
<1>3. FlowInv'
  BY DEF FlowInv, PlaceInv, TypeOK
<1>4. ScopeInv'
  BY DEF ScopeInv, SameScope, PlaceInv, TypeOK
<1>5. ApprovalInv'
  BY DEF ApprovalInv, PlaceInv, TypeOK
<1>6. ResponseInv'
  BY DEF ResponseInv, PlaceInv, TypeOK
<1>7. AnswersAreHonest'
  BY DEF AnswersAreHonest, SameScope, PlaceInv, FlowInv, TypeOK
<1>8. ResponseIsEvidenced'
  BY DEF ResponseIsEvidenced, ResponseInv, FlowInv, PlaceInv, TypeOK
<1> QED BY <1>1, <1>2, <1>3, <1>4, <1>5, <1>6, <1>7, <1>8

LEMMA RejectStep ==
  ASSUME IInv, NEW c \in Calls, Reject(c)
  PROVE  IInv'
<1> USE DEF IInv, Reject, Wake
<1>1. TypeOK'
  BY DEF TypeOK, PlaceInv, Request, Answers, Phases
<1>2. PlaceInv'
  BY DEF PlaceInv, FlowInv, TypeOK
<1>3. FlowInv'
  BY DEF FlowInv, PlaceInv, TypeOK
<1>4. ScopeInv'
  BY DEF ScopeInv, SameScope, PlaceInv, TypeOK
<1>5. ApprovalInv'
  BY DEF ApprovalInv, PlaceInv, TypeOK
<1>6. ResponseInv'
  BY DEF ResponseInv, PlaceInv, TypeOK
<1>7. AnswersAreHonest'
  BY DEF AnswersAreHonest, SameScope, PlaceInv, FlowInv, TypeOK
<1>8. ResponseIsEvidenced'
  BY DEF ResponseIsEvidenced, ResponseInv, FlowInv, PlaceInv, TypeOK
<1> QED BY <1>1, <1>2, <1>3, <1>4, <1>5, <1>6, <1>7, <1>8

LEMMA AnswerStep ==
  ASSUME IInv, NEW c \in Calls, Answer(c)
  PROVE  IInv'
<1> USE DEF IInv, Answer, Wake
<1>1. TypeOK'
  BY DEF TypeOK, PlaceInv, Request, Answers, Phases
<1>2. PlaceInv'
  BY DEF PlaceInv, FlowInv, TypeOK
<1>3. FlowInv'
  BY DEF FlowInv, PlaceInv, TypeOK
<1>4. ScopeInv'
  BY DEF ScopeInv, SameScope, PlaceInv, TypeOK
<1>5. ApprovalInv'
  BY DEF ApprovalInv, PlaceInv, TypeOK
<1>6. ResponseInv'
  BY DEF ResponseInv, PlaceInv, TypeOK
<1>7. AnswersAreHonest'
  BY DEF AnswersAreHonest, SameScope, PlaceInv, FlowInv, TypeOK
<1>8. ResponseIsEvidenced'
  BY DEF ResponseIsEvidenced, ResponseInv, FlowInv, PlaceInv, TypeOK
<1> QED BY <1>1, <1>2, <1>3, <1>4, <1>5, <1>6, <1>7, <1>8

LEMMA LoseStep ==
  ASSUME IInv, NEW c \in Calls, Lose(c)
  PROVE  IInv'
<1> USE DEF IInv, Lose
<1>1. TypeOK'
  BY DEF TypeOK, PlaceInv, Request, Answers, Phases
<1>2. PlaceInv'
  BY DEF PlaceInv, FlowInv, TypeOK
<1>3. FlowInv'
  BY DEF FlowInv, PlaceInv, TypeOK
<1>4. ScopeInv'
  BY DEF ScopeInv, SameScope, PlaceInv, TypeOK
<1>5. ApprovalInv'
  BY DEF ApprovalInv, PlaceInv, TypeOK
<1>6. ResponseInv'
  BY DEF ResponseInv, PlaceInv, TypeOK
<1>7. AnswersAreHonest'
  BY DEF AnswersAreHonest, SameScope, PlaceInv, FlowInv, TypeOK
<1>8. ResponseIsEvidenced'
  BY DEF ResponseIsEvidenced, ResponseInv, FlowInv, PlaceInv, TypeOK
<1> QED BY <1>1, <1>2, <1>3, <1>4, <1>5, <1>6, <1>7, <1>8

LEMMA ReconcileStep ==
  ASSUME IInv, NEW c \in Calls, Reconcile(c)
  PROVE  IInv'
<1> USE DEF IInv, Reconcile, Recoverable
<1>1. TypeOK'
  BY DEF TypeOK, PlaceInv, Request, Answers, Phases
<1>2. PlaceInv'
  BY DEF PlaceInv, FlowInv, TypeOK
<1>3. FlowInv'
  BY DEF FlowInv, PlaceInv, TypeOK
<1>4. ScopeInv'
  BY DEF ScopeInv, SameScope, PlaceInv, TypeOK
<1>5. ApprovalInv'
  BY DEF ApprovalInv, PlaceInv, TypeOK
<1>6. ResponseInv'
  BY DEF ResponseInv, PlaceInv, TypeOK
<1>7. AnswersAreHonest'
  BY DEF AnswersAreHonest, SameScope, PlaceInv, FlowInv, TypeOK
<1>8. ResponseIsEvidenced'
  BY DEF ResponseIsEvidenced, ResponseInv, FlowInv, PlaceInv, TypeOK
<1> QED BY <1>1, <1>2, <1>3, <1>4, <1>5, <1>6, <1>7, <1>8

LEMMA ReconcileFailsStep ==
  ASSUME IInv, NEW c \in Calls, ReconcileFails(c)
  PROVE  IInv'
<1> USE DEF IInv, ReconcileFails, Recoverable
<1>1. TypeOK'
  BY DEF TypeOK, PlaceInv, Request, Answers, Phases
<1>2. PlaceInv'
  BY DEF PlaceInv, FlowInv, TypeOK
<1>3. FlowInv'
  BY DEF FlowInv, PlaceInv, TypeOK
<1>4. ScopeInv'
  BY DEF ScopeInv, SameScope, PlaceInv, TypeOK
<1>5. ApprovalInv'
  BY DEF ApprovalInv, PlaceInv, TypeOK
<1>6. ResponseInv'
  BY DEF ResponseInv, PlaceInv, TypeOK
<1>7. AnswersAreHonest'
  BY DEF AnswersAreHonest, SameScope, PlaceInv, FlowInv, TypeOK
<1>8. ResponseIsEvidenced'
  BY DEF ResponseIsEvidenced, ResponseInv, FlowInv, PlaceInv, TypeOK
<1> QED BY <1>1, <1>2, <1>3, <1>4, <1>5, <1>6, <1>7, <1>8

LEMMA NextStep == IInv /\ [Next]_vars => IInv'
<1> SUFFICES ASSUME IInv, [Next]_vars PROVE IInv'
  OBVIOUS
<1>1. CASE \E c \in Calls : Receive(c) \/ Handle(c) \/ Crash(c)
  BY <1>1, ReceiveStep, ApprovalLooksValidStep, AskForApprovalStep, ReserveStep,
     AlreadyReservedStep, NotDispatchedStep, LogIntentStep, SendStep, ObserveStep,
     PrepareStep, RespondStep, UnavailableStep, CrashStep DEF Handle
<1>2. CASE \E c \in Calls : \/ Execute(c) \/ Reject(c) \/ Answer(c) \/ Lose(c)
                          \/ Reconcile(c) \/ ReconcileFails(c)
  BY <1>2, ExecuteStep, RejectStep, AnswerStep, LoseStep, ReconcileStep, ReconcileFailsStep
<1>3. CASE \E a \in Approvals : ApprovalLapses(a)
  BY <1>3, ApprovalLapsesStep
<1>4. CASE DestinationCrash \/ UNCHANGED vars
  BY <1>4 DEF DestinationCrash, vars, IInv, TypeOK, PlaceInv, FlowInv, ScopeInv, SameScope,
     ApprovalInv, ResponseInv, AnswersAreHonest, ResponseIsEvidenced
<1> QED BY <1>1, <1>2, <1>3, <1>4 DEF Next

LEMMA Inductive == Spec => []IInv
BY InitIInv, NextStep, PTL DEF Spec

(* Every variable keeps its type, whatever the number of calls.            *)
THEOREM TypeCorrect == Spec => []TypeOK
<1>1. IInv => TypeOK
  BY DEF IInv
<1> QED BY <1>1, Inductive, PTL

(* No effect without a durable reservation, intent and used-up approval.   *)
THEOREM EffectsAreRecorded == Spec => []EffectIsRecorded
<1>1. IInv => EffectIsRecorded
  BY DEF IInv, EffectIsRecorded, FlowInv, ApprovalInv
<1> QED BY <1>1, Inductive, PTL

(* -32010, -32050 and -32052 are never followed by an effect of that call. *)
THEOREM ClientsAreToldTheTruth == Spec => []AnswersAreHonest
<1>1. IInv => AnswersAreHonest
  BY DEF IInv
<1> QED BY <1>1, Inductive, PTL

(* Required mode releases no response without a committed, signed receipt. *)
THEOREM ResponsesAreEvidenced == Spec => []ResponseIsEvidenced
<1>1. IInv => ResponseIsEvidenced
  BY DEF IInv
<1> QED BY <1>1, Inductive, PTL

-----------------------------------------------------------------------------
(* The pipeline implements OnceOnly.                                       *)

claimsBar == {ClaimOf(c) : c \in operations}

LEMMA ClaimsUnchanged ==
  ASSUME UNCHANGED operations, \A c \in operations : request'[c] = request[c]
  PROVE  claimsBar' = claimsBar
BY DEF claimsBar, ClaimOf

LEMMA ReserveClaims ==
  ASSUME IInv, NEW c \in Calls, Reserve(c)
  PROVE  Once!MakeClaim(ClaimOf(c)) /\ ClaimOf(c) \in Once!Claim
<1> USE DEF IInv, Reserve, Insert
<1>1. c \notin operations /\ request[c] \in Request
  BY DEF PlaceInv
<1>2. claimsBar' = claimsBar \cup {ClaimOf(c)}
  BY DEF claimsBar, ClaimOf
<1>3. ClaimOf(c) \in Once!Claim
  BY <1>1 DEF ClaimOf, Once!Claim, Request
<1>4. ASSUME NEW o \in operations PROVE Once!Compatible(ClaimOf(c), ClaimOf(o))
  <2>1. c # o
    BY <1>1
  <2>2. request[c].key = request[o].key => request[c].key = NoKey
    BY DEF SameScope
  <2>3. Gated => request[c].approval # request[o].approval
    BY DEF ApprovalInv, ApprovalValid
  <2> QED BY <2>1, <2>2, <2>3 DEF Once!Compatible, ClaimOf
<1> QED BY <1>2, <1>3, <1>4 DEF Once!MakeClaim, claimsBar

LEMMA FirstExecution ==
  ASSUME TypeOK, FlowInv, NEW c \in Calls \ ledger, Execute(c)
  PROVE  refunds[c] = 0 /\ refunds' = [refunds EXCEPT ![c] = 1]
<1>1. refunds[c] = 0
  BY DEF FlowInv
<1>2. refunds' = [refunds EXCEPT ![c] = @ + 1]
  BY DEF Execute, Refunded
<1> QED BY <1>1, <1>2 DEF TypeOK

LEMMA ExecutePerforms ==
  ASSUME IInv, NEW c \in Calls, Execute(c)
  PROVE  [Once!Next]_(Once!vars)
<1> USE DEF IInv, Execute, Refunded
<1>1. c \in operations /\ request[c] \in Request
  BY DEF FlowInv, PlaceInv
<1>2. claimsBar' = claimsBar
  BY ClaimsUnchanged
<1>3. ClaimOf(c) \in claimsBar /\ ClaimOf(c).call = c
  BY <1>1 DEF claimsBar, ClaimOf
<1>4. ClaimOf(c) \in Once!Claim
  BY <1>1 DEF ClaimOf, Once!Claim, Request
<1>5. CASE c \in ledger
  BY <1>2, <1>5 DEF Once!vars, claimsBar
<1>6. CASE c \notin ledger
  <2>1. refunds[c] = 0 /\ refunds' = [refunds EXCEPT ![c] = 1]
    BY <1>6, FirstExecution
  <2>2. Once!Perform(ClaimOf(c))
    BY <1>2, <1>3, <2>1 DEF Once!Perform, claimsBar
  <2> QED BY <1>4, <2>2 DEF Once!Next
<1> QED BY <1>5, <1>6

(* Every step of the pipeline claims, performs or leaves both alone.       *)
THEOREM PipelineImplementsOnceOnly == Spec => OnceOnlySpec
<1>1. Init => Once!Init
  BY DEF Init, Once!Init
<1>2. IInv /\ [Next]_vars => [Once!Next]_(Once!vars)
  <2> SUFFICES ASSUME IInv, [Next]_vars PROVE [Once!Next]_(Once!vars)
    OBVIOUS
  <2>1. ASSUME UNCHANGED <<operations, refunds>>, \A c \in operations : request'[c] = request[c]
        PROVE  UNCHANGED Once!vars
    BY <2>1, ClaimsUnchanged DEF Once!vars, claimsBar
  <2>2. CASE \E c \in Calls : Reserve(c)
    BY <2>2, ReserveClaims DEF Once!Next
  <2>3. CASE \E c \in Calls : Execute(c)
    BY <2>3, ExecutePerforms
  <2>4. CASE \E c \in Calls : Receive(c)
    BY <2>1, <2>4 DEF Receive, IInv, PlaceInv, TypeOK
  <2>5. CASE \E c \in Calls :
          \/ ApprovalLooksValid(c) \/ AskForApproval(c) \/ AlreadyReserved(c) \/ NotDispatched(c)
          \/ LogIntent(c) \/ Send(c) \/ Observe(c) \/ Prepare(c) \/ Respond(c)
          \/ Unavailable(c) \/ Crash(c)
    BY <2>1, <2>5 DEF ApprovalLooksValid, AskForApproval, AlreadyReserved, NotDispatched,
       LogIntent, Send, Observe, Prepare, Respond, Unavailable, Crash
  <2>6. CASE \E c \in Calls : \/ Reject(c) \/ Answer(c) \/ Lose(c)
                            \/ Reconcile(c) \/ ReconcileFails(c)
    BY <2>1, <2>6 DEF Reject, Answer, Lose, Reconcile, ReconcileFails
  <2>7. CASE \/ \E a \in Approvals : ApprovalLapses(a)
             \/ DestinationCrash \/ UNCHANGED vars
    BY <2>1, <2>7 DEF ApprovalLapses, DestinationCrash, vars
  <2> QED BY <2>2, <2>3, <2>4, <2>5, <2>6, <2>7 DEF Next, Handle
<1> QED BY <1>1, <1>2, Inductive, PTL DEF Spec, OnceOnlySpec, Once!Spec

\* What OnceOnly keeps true, in the terms of the pipeline.
ClaimsAgree ==
  /\ \A k, l \in claimsBar : k # l => Once!Compatible(k, l)
  /\ refunds \in [Calls -> {0, 1}]

(* However deliveries, crashes and reconciliations interleave, no call     *)
(* takes effect twice, and two calls that took effect at the destination   *)
(* share neither an idempotency key nor an approval                        *)
(* (evidence/store.py, evidence/destination.py; docs/EVIDENCE.md: "reusing *)
(* it for the same operation never sends again").  It is a promise of      *)
(* OnceOnly, which the pipeline implements.                                *)
THEOREM EffectsAreNotRepeated == Spec => []Once!NoRepeatedEffect
<1>1. Once!Init => ClaimsAgree
  BY DEF Once!Init, ClaimsAgree, claimsBar
<1>2. ClaimsAgree /\ [Once!Next]_(Once!vars) => ClaimsAgree'
  <2> SUFFICES ASSUME ClaimsAgree, [Once!Next]_(Once!vars) PROVE ClaimsAgree'
    OBVIOUS
  <2>1. CASE UNCHANGED Once!vars
    BY <2>1 DEF ClaimsAgree, Once!vars, claimsBar
  <2>2. ASSUME NEW k \in Once!Claim, Once!MakeClaim(k)
        PROVE  ClaimsAgree'
    <3>1. /\ claimsBar' = claimsBar \cup {k}
          /\ \A l \in claimsBar : Once!Compatible(k, l)
      BY <2>2 DEF Once!MakeClaim, claimsBar
    <3>2. \A l \in claimsBar : Once!Compatible(l, k)
      BY <3>1 DEF Once!Compatible
    <3> QED BY <2>2, <3>1, <3>2 DEF ClaimsAgree, Once!MakeClaim
  <2>3. ASSUME NEW k \in Once!Claim, Once!Perform(k)
        PROVE  ClaimsAgree'
    BY <2>3 DEF ClaimsAgree, Once!Perform, Once!Claim, claimsBar
  <2> QED BY <2>1, <2>2, <2>3 DEF Once!Next
<1>3. ClaimsAgree => Once!NoRepeatedEffect
  BY DEF ClaimsAgree, Once!NoRepeatedEffect, claimsBar
<1> QED BY <1>1, <1>2, <1>3, PipelineImplementsOnceOnly, PTL DEF OnceOnlySpec, Once!Spec

(* Receipts are signed effects, and no record is ever withdrawn.           *)
THEOREM EvidenceOnlyGrows == Spec => EvidenceIsMonotone
<1>1. IInv /\ IInv' /\ [Next]_vars =>
        [/\ receipts \subseteq receipts' /\ operations \subseteq operations'
         /\ receipts' \subseteq signed' /\ signed' \subseteq ledger']_vars
  <2> SUFFICES ASSUME IInv, IInv', Next
               PROVE  /\ receipts \subseteq receipts' /\ operations \subseteq operations'
                      /\ receipts' \subseteq signed' /\ signed' \subseteq ledger'
    OBVIOUS
  <2>1. receipts' \subseteq signed' /\ signed' \subseteq ledger'
    BY DEF IInv, FlowInv
  <2>2. receipts \subseteq receipts' /\ operations \subseteq operations'
    BY DEF Next, Handle, Receive, ApprovalLooksValid, AskForApproval, Reserve, Insert,
       AlreadyReserved, NotDispatched, LogIntent, Send, Observe, Prepare, Respond,
       Unavailable, Crash, ApprovalLapses, Execute, Reject, Answer, DestinationCrash,
       Lose, Reconcile, ReconcileFails
  <2> QED BY <2>1, <2>2
<1> QED BY <1>1, Inductive, PTL DEF Spec, EvidenceIsMonotone
=============================================================================
