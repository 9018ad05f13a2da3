----------------------------- MODULE StdioWrapper -----------------------------
(***************************************************************************)
(* run_stdio_wrapper: the loop that reads the client's lines, hands each   *)
(* message to the pipeline and writes its reply.  One line is dealt with   *)
(* at a time; the child is closed however the loop ends.  What the         *)
(* pipeline decides is PolicyPipeline's: here it answers a message itself  *)
(* or sends it on.                                                         *)
(***************************************************************************)
EXTENDS StdioUpstream

CONSTANTS
  ClientIds,    \* ids the client gives its requests, over and over
  MaxForwarded  \* bound: messages sent on

ASSUME ClientAssumption == ClientIds \subseteq Ids /\ MaxForwarded \in Nat

VARIABLES
  wrapper,  \* "off" (another client), "reading", "handling", "closing" or "done"
  line,     \* the line read last
  reply     \* what was written for it

loop == <<wrapper, line, reply>>

Lines == {"none", "end", "oversize", "undecodable", "blank", "garbage", "other", "request", "notification"}

WrapperTypeOK ==
  /\ wrapper \in {"off", "reading", "handling", "closing", "done"}
  /\ line \in Lines
  /\ reply \in {"none", "too_large", "parse_error", "invalid_request", "local", "answer", "error"}

WrapperInit == line = "none" /\ reply = "none"

\* The end of input, a line over the limit or one that raises (bytes that are
\* no text, an integer too long to convert) ends the loop.
ReadLast ==
  /\ wrapper = "reading" /\ pc = "idle"
  /\ \/ line' = "end" /\ reply' = "none"
     \/ line' = "oversize" /\ reply' = "too_large"
     \/ line' = "undecodable" /\ reply' = "none"
  /\ wrapper' = "closing"
  /\ UNCHANGED stdio

\* Lines that hold no JSON object are answered on the spot, blank ones are not.
ReadUnusable ==
  /\ wrapper = "reading" /\ pc = "idle"
  /\ \/ line' = "blank" /\ reply' = "none"
     \/ line' = "garbage" /\ reply' = "parse_error"
     \/ line' = "other" /\ reply' = "invalid_request"
  /\ UNCHANGED <<wrapper, stdio>>

\* The pipeline refuses the message, or keeps it for an approval.
ReadRefused ==
  /\ wrapper = "reading" /\ pc = "idle"
  /\ \/ line' = "request" /\ reply' = "local"
     \/ line' = "notification" /\ reply' = "none"
  /\ UNCHANGED <<wrapper, stdio>>

ReadForwarded ==
  /\ wrapper = "reading" /\ sent < MaxForwarded
  /\ \E m \in {m \in Message : m.id \in ClientIds \cup {NoId}} : Send(m) /\ line' = m.form
  /\ reply' = "none"
  /\ wrapper' = "handling"

\* The pipeline raises (a strict log or webhook fails, a condition has no value)
\* before the message is sent on or after it came back: the loop ends.
PipelineRaises ==
  /\ \/ /\ wrapper = "reading" /\ pc = "idle"
        /\ line' \in {"request", "notification"} /\ reply' = "none"
        /\ UNCHANGED stdio
     \/ /\ wrapper = "handling" /\ outcome # "none"
        /\ outcome' = "none"
        /\ UNCHANGED <<pipe, pc, message, sent, answered, lingers, line, reply>>
  /\ wrapper' = "closing"

\* Variants named ...Bug are plausible mistakes; no specification uses them.
DropErrorBug ==
  /\ wrapper = "handling" /\ outcome # "none"
  /\ reply' = (IF outcome = "answer" THEN outcome ELSE "none")
  /\ outcome' = "none"
  /\ wrapper' = "reading"
  /\ UNCHANGED <<pipe, pc, message, sent, answered, lingers, line>>

\* A failure is answered even if a notification failed.
WriteReply ==
  /\ wrapper = "handling" /\ outcome # "none"
  /\ reply' = (IF outcome = "nothing" THEN "none" ELSE outcome)
  /\ outcome' = "none"
  /\ wrapper' = "reading"
  /\ UNCHANGED <<pipe, pc, message, sent, answered, lingers, line>>

\* finally: upstream.close()
Finish ==
  /\ wrapper = "closing"
  /\ Close
  /\ wrapper' = "done"
  /\ UNCHANGED <<line, reply>>

Loop == ReadLast \/ ReadUnusable \/ ReadRefused \/ ReadForwarded \/ WriteReply \/ PipelineRaises \/ Finish

-----------------------------------------------------------------------------
(* The loop goes on after a failed call: each request gets its reply       *)
(* before the next line is read, whatever becomes of the child.  Only an   *)
(* exception of the pipeline ends the loop instead.                        *)
RequestsAreAnswered ==
  wrapper = "handling" ~>
    \/ wrapper = "reading" /\ (line = "request" => reply # "none")
    \/ wrapper = "done"
=============================================================================
