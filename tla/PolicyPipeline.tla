--------------------------- MODULE PolicyPipeline ---------------------------
(***************************************************************************)
(* One message through MCPPipeline.handle: policy evaluation on the way in *)
(* and again on the answer, approval, dispatch with its audited intent,    *)
(* filtering of capability lists and enforcement of output rules, for any  *)
(* configured list of policies (PolicyEngine, filter_capabilities,         *)
(* OutputEnforcer) or an external policy engine.                           *)
(*                                                                         *)
(* The life of an approval is ApprovalGate's: here a retry holds a valid   *)
(* one or does not.                                                        *)
(***************************************************************************)
EXTENDS PolicyEngine

CONSTANTS
  Configurations,  \* configurations the gateway may be started with
  NoMessage

ASSUME ConfigurationAssumption == Configurations \subseteq Configuration

VARIABLES
  config,     \* the configuration, fixed
  message,    \* the message being handled
  pc,         \* where its handler is
  decision,   \* decision on the message
  verdict,    \* decision on the answer
  approved,   \* whether an approval was used up for it
  intent,     \* whether its dispatch intent is in the audit log
  forwarded,  \* whether it reached the upstream server
  answer,     \* what came back
  meets,      \* the conditions on output it meets
  visible,    \* capabilities listed to the client
  reply       \* what the client got

exchange == <<forwarded, answer, meets>>
vars == <<config, message, pc, decision, verdict, approved, intent, exchange, visible, reply>>

Message == [form : {"request", "notification", "safe"}, method : Methods,
            capability : Everything, known : BOOLEAN,
            holds : SUBSET (Conditions \ OutputConditions), valid : BOOLEAN]

\* Calls name a capability, the other methods do not.
Messages ==
  {m \in Message : /\ m.method = "call" <=> m.capability \in Capabilities
                   /\ m.form = "safe" => m.method = "other"}

Allowed == [effect |-> "allow", by |-> 0, implicit |-> FALSE]

TypeOK ==
  /\ config \in Configuration
  /\ message \in Messages \cup {NoMessage}
  /\ pc \in {"idle", "received", "decided", "cleared", "armed", "answered", "judged", "over"}
  /\ decision \in Decision /\ verdict \in Decision
  /\ {approved, intent, forwarded} \subseteq BOOLEAN
  /\ answer \in {"none", "nothing", "response"} /\ meets \subseteq OutputConditions
  /\ visible \subseteq Capabilities
  /\ reply \in {"none", "denied", "approval_required", "silence", "error",
                "raw", "filtered", "rewritten", "withheld"}

Init ==
  /\ config \in Configurations
  /\ message = NoMessage
  /\ pc = "idle"
  /\ decision = Allowed /\ verdict = Allowed
  /\ approved = FALSE /\ intent = FALSE /\ forwarded = FALSE
  /\ answer = "none" /\ meets = {} /\ visible = {} /\ reply = "none"

-----------------------------------------------------------------------------
(* The contexts that are evaluated: a message, its answer, a listed item.  *)

\* The conditions on an answer that hold while there is none.
Unanswered == Absent \cap OutputConditions

Inbound(m) ==
  [capability |-> m.capability, method |-> m.method, known |-> m.known,
   holds |-> m.holds \cup Unanswered, valid |-> m.valid]

Outbound(m, met) == [Inbound(m) EXCEPT !.holds = m.holds \cup met]

\* filter_capabilities looks at each listed capability without arguments.
Item(c, known) ==
  [capability |-> c, method |-> "list", known |-> known, holds |-> Absent, valid |-> FALSE]

\* Whether other conditions hold makes no difference.
Asked(g) == {g.policies[i].when : i \in DOMAIN g.policies}

-----------------------------------------------------------------------------
(* What a decision d on message m, or on its answer, comes to.             *)

\* Variants named ...Bug are plausible mistakes; no specification uses them.
RefusedBug(g, m, d) ==
  /\ ~g.dryRun
  /\ d.effect \in Denials
  /\ (m.form = "request" /\ m.method = "list") => ~d.implicit

\* Only calls can wait for an approval.  A list request that no policy matches
\* goes through whatever the default: its items are filtered one by one.
Refused(g, m, d) ==
  /\ ~g.dryRun
  /\ \/ /\ d.effect \in Denials
        /\ (m.form = "request" /\ m.method = "list") => ~d.implicit
     \/ /\ d.effect = "require_approval"
        /\ ~(m.form = "request" /\ m.method = "call")

Held(g, m, d) ==
  /\ ~g.dryRun
  /\ d.effect = "require_approval"
  /\ m.form = "request" /\ m.method = "call"

Listed(d) == d.effect \notin Denials

Rule(g, d) == IF d.by \in DOMAIN g.policies THEN g.policies[d.by].output ELSE "missing"

WithheldWithoutRuleBug(g, d) ==
  /\ ~g.dryRun /\ ~d.implicit
  /\ d.effect \in Denials \/ (d.effect \in Rewriting /\ Rule(g, d) = "refuses")

Withheld(g, d) ==
  /\ ~g.dryRun /\ ~d.implicit
  /\ \/ d.effect \in Denials
     \/ d.effect = "require_approval" /\ g.adapter = "opa"
     \/ /\ d.effect \in Rewriting
        /\ \/ Rule(g, d) \in {"missing", "refuses"}
           \/ Rule(g, d) = "none" /\ g.adapter = "opa"

Rewritten(g, d) == ~g.dryRun /\ d.effect \in Rewriting /\ Rule(g, d) = "rewrites"

-----------------------------------------------------------------------------
(* The way in.                                                             *)

End(r) == pc' = "over" /\ reply' = r

Receive ==
  /\ pc = "idle"
  /\ \E m \in Messages :
       /\ m.holds \subseteq Asked(config)
       /\ message' = m
       /\ pc' = IF m.form = "safe" THEN "cleared" ELSE "received"
  /\ UNCHANGED <<config, decision, verdict, approved, intent, exchange, visible, reply>>

Evaluate ==
  /\ pc = "received"
  /\ \E d \in Decisions(config, Inbound(message)) : decision' = d
  /\ pc' = "decided"
  /\ UNCHANGED <<config, message, verdict, approved, intent, exchange, visible, reply>>

\* The refusal is logged first; strict audit fails the message if that fails.
Refuse ==
  /\ pc = "decided"
  /\ Refused(config, message, decision)
  /\ \/ End(IF message.form = "request" THEN "denied" ELSE "silence")
     \/ config.strict /\ End("error")
  /\ UNCHANGED <<config, message, decision, verdict, approved, intent, exchange, visible>>

AskForApproval ==
  /\ pc = "decided"
  /\ Held(config, message, decision)
  /\ \E r \in {"approval_required", "error"} : End(r)
  /\ UNCHANGED <<config, message, decision, verdict, approved, intent, exchange, visible>>

\* The approval the message carries is consumed; it names the deciding policy.
UseApproval ==
  /\ pc = "decided"
  /\ Held(config, message, decision)
  /\ decision.by # 0
  /\ approved' = TRUE
  /\ pc' = "cleared"
  /\ UNCHANGED <<config, message, decision, verdict, intent, exchange, visible, reply>>

Clear ==
  /\ pc = "decided"
  /\ ~Refused(config, message, decision) /\ ~Held(config, message, decision)
  /\ pc' = "cleared"
  /\ UNCHANGED <<config, message, decision, verdict, approved, intent, exchange, visible, reply>>

LogIntent ==
  /\ pc = "cleared"
  /\ \/ intent' = TRUE /\ pc' = "armed" /\ UNCHANGED reply
     \/ ~config.strict /\ pc' = "armed" /\ UNCHANGED <<intent, reply>>
     \/ config.strict /\ End("error") /\ UNCHANGED intent
  /\ UNCHANGED <<config, message, decision, verdict, approved, exchange, visible>>

Send ==
  /\ pc = "armed"
  /\ forwarded' = TRUE
  /\ \/ answer' = "nothing" /\ UNCHANGED meets
     \/ answer' = "response" /\ meets' \in SUBSET (OutputConditions \cap Asked(config))
  /\ pc' = "answered"
  /\ UNCHANGED <<config, message, decision, verdict, approved, intent, visible, reply>>

\* The upstream call raises, or the log refuses its outcome.
SendFails ==
  /\ pc = "armed"
  /\ forwarded' \in BOOLEAN
  /\ End("error")
  /\ UNCHANGED <<config, message, decision, verdict, approved, intent, answer, meets, visible>>

-----------------------------------------------------------------------------
(* The way back.                                                           *)

Acknowledge ==
  /\ pc = "answered"
  /\ message.form # "request"
  /\ End("silence")
  /\ UNCHANGED <<config, message, decision, verdict, approved, intent, exchange, visible>>

NoResponse ==
  /\ pc = "answered"
  /\ message.form = "request" /\ answer = "nothing"
  /\ End("error")
  /\ UNCHANGED <<config, message, decision, verdict, approved, intent, exchange, visible>>

PassOther ==
  /\ pc = "answered"
  /\ message.form = "request" /\ message.method = "other" /\ answer # "nothing"
  /\ End("raw")
  /\ UNCHANGED <<config, message, decision, verdict, approved, intent, exchange, visible>>

\* Every listed capability is evaluated on its own, unless the answer holds no list.
ReplyList ==
  /\ pc = "answered"
  /\ message.form = "request" /\ message.method = "list" /\ answer # "nothing"
  /\ \/ End("raw") /\ visible' = {}
     \/ config.dryRun /\ End("raw") /\ visible' = Capabilities
     \/ /\ ~config.dryRun
        /\ End("filtered")
        /\ visible' \in {s \in SUBSET Capabilities :
                           \A c \in Capabilities :
                             \E d \in Decisions(config, Item(c, message.known)) :
                               c \in s <=> Listed(d)}
  /\ UNCHANGED <<config, message, decision, verdict, approved, intent, exchange>>

EvaluateOutputBug ==
  /\ pc = "answered"
  /\ message.form = "request" /\ message.method = "call" /\ answer # "nothing"
  /\ \E d \in Decisions(config, Inbound(message)) :
       /\ verdict' = d
       /\ \/ pc' = "judged" /\ UNCHANGED reply
          \/ config.strict /\ ~d.implicit /\ End("error")
  /\ UNCHANGED <<config, message, decision, approved, intent, exchange, visible>>

\* A decision that is not the implicit default is logged.
EvaluateOutput ==
  /\ pc = "answered"
  /\ message.form = "request" /\ message.method = "call" /\ answer # "nothing"
  /\ \E d \in Decisions(config, Outbound(message, meets)) :
       /\ verdict' = d
       /\ \/ pc' = "judged" /\ UNCHANGED reply
          \/ config.strict /\ ~d.implicit /\ End("error")
  /\ UNCHANGED <<config, message, decision, approved, intent, exchange, visible>>

Release ==
  /\ pc = "judged"
  /\ End(IF Withheld(config, verdict) THEN "withheld"
         ELSE IF Rewritten(config, verdict) THEN "rewritten" ELSE "raw")
  /\ UNCHANGED <<config, message, decision, verdict, approved, intent, exchange, visible>>

\* Conditions on what is not there.  An order between an argument and a number
\* has no value if the argument is missing or no number: evaluation raises, and
\* the handler with it.
MayRaise(g, x) ==
  /\ g.adapter = "builtin"
  /\ \E i \in DOMAIN g.policies :
       MatchesStructurally(g.policies[i], x) /\ ~ConditionHolds(g.policies[i], x)

EvaluationRaises ==
  /\ \/ pc = "received" /\ MayRaise(config, Inbound(message))
     \/ /\ pc = "answered" /\ message.form = "request" /\ answer # "nothing"
        /\ \/ message.method = "call" /\ MayRaise(config, Outbound(message, meets))
           \/ /\ message.method = "list" /\ ~config.dryRun
              /\ \E c \in Capabilities : MayRaise(config, Item(c, message.known))
  /\ End("error")
  /\ UNCHANGED <<config, message, decision, verdict, approved, intent, exchange, visible>>

-----------------------------------------------------------------------------
Next ==
  \/ Receive \/ Evaluate \/ Refuse \/ AskForApproval \/ UseApproval \/ Clear
  \/ LogIntent \/ Send \/ SendFails
  \/ Acknowledge \/ NoResponse \/ PassOther \/ ReplyList
  \/ EvaluateOutput \/ Release \/ EvaluationRaises

Spec == Init /\ [][Next]_vars

-----------------------------------------------------------------------------
(* Properties.                                                             *)

Enforced == config.adapter = "builtin" /\ ~config.dryRun

Hits(x) == {config.policies[i] : i \in Matching(config, x)}

(* What reaches the upstream server was let through by every policy: none  *)
(* that matches denies or hides it, one that asks for approval got it, and *)
(* what nothing matches passed by default (or is a list, to be filtered).  *)
(* "Deny and hide policies win over approval. Approval wins over allow."   *)
(* Under strict audit the intent was logged before.                        *)
OnlyPermittedIsForwarded ==
  forwarded =>
    /\ config.strict => intent
    /\ (Enforced /\ message.form # "safe") =>
         /\ \A p \in Hits(Inbound(message)) : p.effect \notin Denials
         /\ \A p \in Hits(Inbound(message)) : p.effect = "require_approval" => approved
         /\ Hits(Inbound(message)) = {} =>
              \/ config.default = "allow"
              \/ message.form = "request" /\ message.method = "list"

(* No answer to a call gets past an output policy: what reaches the client *)
(* matches no deny or hide policy, and as long as no approval policy takes *)
(* precedence, an answer that matches only redactions with a rule is not   *)
(* released as it came.                                                    *)
AnswersAreGuarded ==
  (Enforced /\ message # NoMessage /\ message.method = "call" /\ reply \in {"raw", "rewritten"}) =>
    /\ \A p \in Hits(Outbound(message, meets)) : p.effect \notin Denials
    /\ LET redactions == {p \in Hits(Outbound(message, meets)) : p.effect = "redact"}
       IN reply = "raw" =>
            \/ redactions = {}
            \/ \E p \in redactions : p.output = "none"
            \/ \E p \in Hits(Outbound(message, meets)) : p.effect = "require_approval"

(* In dry run nothing is blocked, held, hidden or rewritten: whatever does *)
(* not fail reaches the server, and its answer comes back as it was        *)
(* ("it does not enforce blocks or hide capabilities").                    *)
DryRunIsTransparent ==
  (config.dryRun /\ pc = "over" /\ reply # "error") =>
    forwarded /\ reply = IF message.form = "request" THEN "raw" ELSE "silence"

\* Every call of a capability, whoever calls and with whatever arguments.
Calls(c) ==
  [capability : {c}, method : {"call"}, known : BOOLEAN,
   holds : {s \cup Unanswered : s \in SUBSET (Conditions \ OutputConditions)}, valid : BOOLEAN]

(* "`hide` removes capabilities from list responses and blocks matching    *)
(* calls": a capability that an unconditional deny or hide policy covers   *)
(* for every method is missing from the filtered list, and any call of it, *)
(* whatever its arguments, would be refused.                               *)
HiddenIsUncallable ==
  (Enforced /\ reply = "filtered") =>
    \A c \in Capabilities, i \in DOMAIN config.policies :
      LET p == config.policies[i]
      IN (p.effect \in Denials /\ p.when = "always" /\ p.methods = Methods /\ c \in p.covers) =>
           /\ c \notin visible
           /\ \A x \in Calls(c) : Builtin(config, x).effect \in Denials

(* The answer of a call that an external engine does not plainly allow (or *)
(* only log) never comes back as it was: an output action without a local  *)
(* rule for it, or naming no known policy, withholds the answer.           *)
ExternalVerdictsFailClosed ==
  (config.adapter = "opa" /\ ~config.dryRun /\ message # NoMessage /\ message.method = "call") =>
    /\ reply = "raw" => verdict.effect \in {"allow", "log"}
    /\ reply = "rewritten" => verdict.by \in DOMAIN config.policies

(* README.md:673: "If a matching output policy redacts the response,       *)
(* selected fields are replaced with `[REDACTED]`."  Every redact policy   *)
(* of the configurations this is checked for has such a rule.              *)
RedactionApplies ==
  (Enforced /\ message # NoMessage /\ message.method = "call" /\ reply = "raw") =>
    \A p \in Hits(Outbound(message, meets)) : p.effect # "redact"
=============================================================================
