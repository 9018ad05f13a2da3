---------------------------- MODULE StdioUpstream ----------------------------
(***************************************************************************)
(* StdioProcessUpstream: a child process spoken to over its two pipes, one *)
(* JSON line per message, one call of send() at a time.  The child answers *)
(* late or never, writes what it was not asked for, ignores SIGTERM or     *)
(* dies at any moment.  A send that fails closes the child, so that a late *)
(* answer is not taken for the next one.                                   *)
(*                                                                         *)
(* A line is what it is to the gateway: an answer under some id, or        *)
(* unusable (invalid, with a method, too large, or cut off by the end of   *)
(* the stream).  The pipe and the read buffer are one sequence: close()    *)
(* empties neither.                                                        *)
(***************************************************************************)
EXTENDS Naturals, Sequences

CONSTANTS
  Ids,          \* ids of requests
  NoId,         \* the id of a notification, and of lines that answer nothing
  MaxMessages,  \* bound: messages sent to the child
  MaxLines      \* bound: lines unread in the pipe

ASSUME NoIdAssumption == NoId \notin Ids
ASSUME BoundsAssumption == MaxMessages \in Nat /\ MaxLines \in Nat

VARIABLES
  child,     \* "up", "stopping" (SIGTERM sent), "killed" (SIGKILL sent) or "gone"
  inbox,     \* requests in the child's stdin it has not answered
  out,       \* lines the child wrote that were not taken
  pc,        \* where send() or close() is
  message,   \* the message of the current or last send
  sent,      \* number of that send
  outcome,   \* what send returned, until the caller takes it
  answered,  \* number of the send whose answer was returned last
  lingers    \* whether close() gave up waiting for the child

pipe == <<child, inbox, out>>
stdio == <<child, inbox, out, pc, message, sent, outcome, answered, lingers>>

Message == [form : {"request"}, id : Ids] \cup [form : {"notification"}, id : {NoId}]

Notification == [form |-> "notification", id |-> NoId]

Request == [id : Ids, re : 1..MaxMessages]

Line == [kind : {"answer", "unusable"}, id : Ids \cup {NoId}, re : 0..MaxMessages]

StdioTypeOK ==
  /\ child \in {"up", "stopping", "killed", "gone"}
  /\ inbox \in Seq(Request) /\ out \in Seq(Line)
  /\ pc \in {"idle", "writing", "waiting", "closing", "terminating"}
  /\ message \in Message /\ sent \in 0..MaxMessages /\ answered \in 0..MaxMessages
  /\ outcome \in {"none", "answer", "nothing", "error"}
  /\ lingers \in BOOLEAN

StdioInit ==
  /\ child = "up" /\ inbox = <<>> /\ out = <<>>
  /\ pc = "idle" /\ message = Notification /\ sent = 0
  /\ outcome = "none" /\ answered = 0 /\ lingers = FALSE

-----------------------------------------------------------------------------
(* The gateway: send(), and close() when it fails.                         *)

\* The caller's step: poll() refuses a child known to be dead.
Send(m) ==
  /\ pc = "idle" /\ outcome = "none" /\ sent < MaxMessages
  /\ message' = m
  /\ sent' = sent + 1
  /\ IF child = "gone"
     THEN outcome' = "error" /\ UNCHANGED pc
     ELSE pc' = "writing" /\ UNCHANGED outcome
  /\ UNCHANGED <<pipe, answered, lingers>>

Write ==
  /\ pc = "writing" /\ child # "gone"
  /\ \/ /\ message.form = "request"
        /\ inbox' = Append(inbox, [id |-> message.id, re |-> sent])
        /\ pc' = "waiting" /\ UNCHANGED outcome
     \/ /\ message.form = "notification"
        /\ pc' = "idle" /\ outcome' = "nothing" /\ UNCHANGED inbox
  /\ UNCHANGED <<child, out, message, sent, answered, lingers>>

\* The deadline passes with the pipe full, or the pipe is broken.
WriteFails ==
  /\ pc = "writing"
  /\ pc' = "closing"
  /\ UNCHANGED <<pipe, message, sent, outcome, answered, lingers>>

\* Variants named ...Bug are plausible mistakes; no specification uses them.
AnswersBug(line) == line.kind = "answer"

Answers(line) == line.kind = "answer" /\ line.id = message.id

\* Whatever is not the answer fails the send.
Take ==
  /\ pc = "waiting" /\ out # <<>>
  /\ out' = Tail(out)
  /\ IF Answers(Head(out))
     THEN pc' = "idle" /\ outcome' = "answer" /\ answered' = Head(out).re
     ELSE pc' = "closing" /\ UNCHANGED <<outcome, answered>>
  /\ UNCHANGED <<child, inbox, message, sent, lingers>>

EndOfOutput ==
  /\ pc = "waiting" /\ out = <<>> /\ child = "gone"
  /\ pc' = "closing"
  /\ UNCHANGED <<pipe, message, sent, outcome, answered, lingers>>

TimeoutBug ==
  /\ pc = "waiting"
  /\ pc' = "idle" /\ outcome' = "error"
  /\ UNCHANGED <<pipe, message, sent, answered, lingers>>

Timeout ==
  /\ pc = "waiting"
  /\ pc' = "closing"
  /\ UNCHANGED <<pipe, message, sent, outcome, answered, lingers>>

\* The caller's own close, in its finally.
Close ==
  /\ pc = "idle" /\ outcome = "none"
  /\ pc' = "closing"
  /\ UNCHANGED <<pipe, message, sent, outcome, answered, lingers>>

Terminate ==
  /\ pc = "closing"
  /\ IF child = "gone"
     THEN pc' = "idle" /\ outcome' = "error" /\ UNCHANGED child
     ELSE pc' = "terminating" /\ child' = (IF child = "up" THEN "stopping" ELSE child)
          /\ UNCHANGED outcome
  /\ UNCHANGED <<inbox, out, message, sent, answered, lingers>>

Reaped ==
  /\ pc = "terminating" /\ child = "gone"
  /\ pc' = "idle" /\ outcome' = "error"
  /\ UNCHANGED <<pipe, message, sent, answered, lingers>>

\* After two seconds: SIGKILL, without waiting for its effect.
Kill ==
  /\ pc = "terminating" /\ child # "gone"
  /\ child' = "killed" /\ lingers' = TRUE
  /\ pc' = "idle" /\ outcome' = "error"
  /\ UNCHANGED <<inbox, out, message, sent, answered>>

-----------------------------------------------------------------------------
(* The child process.                                                      *)

\* It answers in order and each request once, or with a line of no use.
Answer ==
  /\ child # "gone" /\ inbox # <<>>
  /\ inbox' = Tail(inbox)
  /\ \E k \in {"answer", "unusable"} :
       out' = Append(out, [kind |-> k, id |-> Head(inbox).id, re |-> Head(inbox).re])
  /\ UNCHANGED <<child, pc, message, sent, outcome, answered, lingers>>

\* A notification or request of its own, or an answer to nothing.
Chatter ==
  /\ child # "gone" /\ Len(out) < MaxLines
  /\ \E k \in {"answer", "unusable"} :
       out' = Append(out, [kind |-> k, id |-> NoId, re |-> 0])
  /\ UNCHANGED <<child, inbox, pc, message, sent, outcome, answered, lingers>>

\* It exits, crashes or dies of a signal, perhaps in the middle of a line.
Exit ==
  /\ child # "gone"
  /\ child' = "gone"
  /\ out' \in {out, Append(out, [kind |-> "unusable", id |-> NoId, re |-> 0])}
  /\ UNCHANGED <<inbox, pc, message, sent, outcome, answered, lingers>>

Gateway == Write \/ WriteFails \/ Take \/ EndOfOutput \/ Timeout \/ Terminate \/ Reaped \/ Kill

Child == Answer \/ Chatter \/ Exit

-----------------------------------------------------------------------------
(* Properties.                                                             *)

\* close() has run to its end on a child that had not already exited.
Closed == child \in {"killed", "gone"}

(* "Late replies must not be mistaken for the next call's response": the   *)
(* answer a send returns was written for that very message, even when the  *)
(* client uses an id again.  The one gap is a child that had to be killed  *)
(* and is not dead yet: poll() still calls it alive.                       *)
AnswersAreFresh ==
  outcome = "answer" => (answered = sent \/ (lingers /\ Closed))

(* A send that failed leaves no child to be written to, so that neither an *)
(* unfinished request nor an unread answer meets a later message.          *)
FailureEndsTheChild ==
  (outcome = "error" \/ lingers) /\ pc = "idle" => Closed
=============================================================================
