--------------------------- MODULE ExternalChecks ---------------------------
(***************************************************************************)
(* What `evidence check` appends to a history: the verdict on the stored   *)
(* bundle, the conditions under which the payment provider is asked at     *)
(* all, its answer, and the observation that is signed of it.              *)
(*                                                                         *)
(* A signature holds or it does not; a digest binds or it does not.        *)
(***************************************************************************)
EXTENDS EvidenceRecord

\* A bundle with the request and response it is verified against.
Bundle == [permit : {"valid", "unsigned", "unbound"},
           request : {"none", "matches", "differs"},
           receipt : {"none", "unsigned", "unbound", "unscoped", "valid"},
           effect : Effects,
           response : {"none", "matches", "differs"}]

\* The checker's configuration against the bundle and the request, and its
\* observer key against the two trust stores.
Setup == [scope : BOOLEAN, tool : BOOLEAN, arguments : BOOLEAN, account : BOOLEAN,
          observer : {"unknown", "active", "retired", "revoked"},
          authority : BOOLEAN]  \* of the scope, separate, and the signature holds

Statuses == {"succeeded", "failed", "canceled", "pending", "requires_action"}

\* What the provider sends for the account and, if that is read, the refund.
\* "large" answers can be read one by one but not committed to together.
Answer == [reference : BOOLEAN,  \* the receipt names something that can be a refund
           raises : BOOLEAN,     \* no connection, a timeout, too much data, no JSON
           account : {"refused", "missing", "invalid", "other", "ours"},
           refund : {"refused", "missing", "invalid", "differs", "unbound", "ours"},
           status : Statuses \cup {"unsupported"},
           large : BOOLEAN]

-----------------------------------------------------------------------------
(* Offline verification.                                                   *)

Rejected(b) ==
  \/ b.permit # "valid"
  \/ b.request = "differs"
  \/ b.receipt # "none" /\ (b.receipt # "valid" \/ b.response = "differs")

Claim(b) ==
  CASE Rejected(b) -> "none"
    [] ~Rejected(b) /\ b.receipt = "none" -> "authorization_recorded"
    [] ~Rejected(b) /\ b.receipt # "none" ->
         IF b.effect = "committed" THEN "destination_commit_attested"
         ELSE "destination_receipt_verified"

-----------------------------------------------------------------------------
(* The check.                                                              *)

MayAsk(b, s) ==
  /\ Claim(b) = "destination_commit_attested"
  /\ b.request # "none"
  /\ s.scope /\ s.tool /\ s.arguments /\ s.account
  /\ s.observer = "active" /\ s.authority

Outcome(result, reason, status, recorded) ==
  [result |-> result, reason |-> reason, status |-> status, recorded |-> recorded]

Unavailable == Outcome("unknown", "SOURCE_UNAVAILABLE", "none", FALSE)

\* Variants named ...Bug are plausible mistakes; no specification uses them.
EvaluateRefundBug(a) ==
  CASE a.status = "succeeded" -> Outcome("corroborated", "STATUS_MATCH", a.status, TRUE)
    [] a.status \in {"failed", "canceled"} ->
         Outcome("contradicted", "STATUS_CONFLICT", "none", TRUE)
    [] a.status \in {"pending", "requires_action"} ->
         Outcome("pending", "SOURCE_PENDING", a.status, TRUE)
    [] a.status = "unsupported" -> Outcome("unknown", "UNSUPPORTED_STATUS", "none", TRUE)

\* The part of evaluate_refund about a refund that is the expected one.
EvaluateRefund(a) ==
  CASE a.status = "succeeded" -> Outcome("corroborated", "STATUS_MATCH", a.status, TRUE)
    [] a.status \in {"failed", "canceled"} ->
         Outcome("contradicted", "STATUS_CONFLICT", a.status, TRUE)
    [] a.status \in {"pending", "requires_action"} ->
         Outcome("pending", "SOURCE_PENDING", a.status, TRUE)
    [] a.status = "unsupported" -> Outcome("unknown", "UNSUPPORTED_STATUS", "none", TRUE)

Evaluate(a) ==
  IF a.account \in {"refused", "missing"} THEN Unavailable
  ELSE CASE a.refund = "refused" -> Unavailable
         [] a.refund = "missing" -> Outcome("unknown", "SOURCE_NOT_FOUND", "none", FALSE)
         [] a.refund \notin {"refused", "missing"} /\ a.account # "ours" ->
              Outcome("unknown", "ACCOUNT_MISMATCH", "none", FALSE)
         [] a.refund = "invalid" /\ a.account = "ours" ->
              Outcome("unknown", "SOURCE_INVALID", "none", FALSE)
         [] a.refund = "differs" /\ a.account = "ours" ->
              Outcome("contradicted", "FIELD_MISMATCH", "none", TRUE)
         [] a.refund = "unbound" /\ a.account = "ours" ->
              Outcome("unknown", "BINDING_MISMATCH", "none", TRUE)
         [] a.refund = "ours" /\ a.account = "ours" -> EvaluateRefund(a)

\* The validator of an observation that commits to what was read.
Consistent(o) ==
  /\ o.result = (CASE o.reason = "STATUS_MATCH" -> "corroborated"
                   [] o.reason \in {"FIELD_MISMATCH", "STATUS_CONFLICT"} -> "contradicted"
                   [] o.reason = "SOURCE_PENDING" -> "pending"
                   [] OTHER -> "unknown")
  /\ o.reason = "STATUS_MATCH" => o.status = "succeeded"
  /\ o.reason = "STATUS_CONFLICT" => o.status \in {"failed", "canceled"}
  /\ o.reason = "SOURCE_PENDING" => o.status \in {"pending", "requires_action"}
  /\ o.result # "unknown" => o.recorded

\* Any error after the first signature leaves the observation without an answer.
Reported(a) ==
  IF a.reference /\ ~a.raises /\ ~a.large /\ Consistent(Evaluate(a)) THEN Evaluate(a)
  ELSE Unavailable

ExitCode(o) == IF o.result = "corroborated" THEN 0 ELSE 1

-----------------------------------------------------------------------------
(* Properties, looked at once, before anything happens.                    *)

AtStart ==
  /\ receipt = NoReceipt
  /\ \A w \in Recorders : rpc[w] = "idle"
  /\ \A k \in Readers : kpc[k] = "idle"

WasRead(a) == a.reference /\ ~a.raises /\ a.account = "ours" /\ ~a.large

(* "Unknown statuses, malformed responses, unavailable accounts, denied    *)
(* access, timeouts and missing records do not become success": the        *)
(* provider is asked only about a verified commit of the very request, by  *)
(* an active observer of its own; the command succeeds exactly if both     *)
(* reads did and the refund is ours, bound and succeeded; a contradiction  *)
(* is reported exactly if one was read; and no definite answer is lost     *)
(* because its observation does not pass its own validator.                *)
ChecksAreHonest ==
  AtStart =>
    /\ \A b \in Bundle, s \in Setup : MayAsk(b, s) =>
         /\ b.permit = "valid" /\ b.request = "matches" /\ b.receipt = "valid"
         /\ b.effect = "committed"
         /\ s.observer = "active" /\ s.authority /\ s.scope /\ s.account
    /\ \A a \in Answer :
         LET o == Reported(a)
             definite == WasRead(a) /\ a.refund = "ours"
         IN /\ ExitCode(o) = 0 <=> definite /\ a.status = "succeeded"
            /\ o.result = "contradicted" <=>
                 \/ definite /\ a.status \in {"failed", "canceled"}
                 \/ WasRead(a) /\ a.refund = "differs"
            /\ o.result = "pending" <=> definite /\ a.status \in {"pending", "requires_action"}
            /\ o.reason = "SOURCE_UNAVAILABLE" =>
                 ~WasRead(a) \/ a.refund = "refused"
=============================================================================
