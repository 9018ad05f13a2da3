------------------------- MODULE StdioClientsProofs -------------------------
(***************************************************************************)
(* Proofs about the child process for any ids, any bounds and either       *)
(* client.  A message is sent only to a child that owes nothing: no        *)
(* request is waiting in its pipe and no answer in the buffer.  That stays *)
(* true because a send returns without closing the child only when it has  *)
(* taken the one answer there was.  What discovery finds through such a    *)
(* client is what the pages hold that its cursors lead to.                 *)
(***************************************************************************)
EXTENDS StdioClients, SequenceTheorems, NaturalsInduction, WellFoundedInduction, TLAPS

(* The gateway's side of a send.                                           *)
SendInv ==
  /\ StdioTypeOK
  /\ pc # "idle" => outcome = "none"
  /\ pc = "writing" => sent >= 1
  /\ pc = "waiting" => message.form = "request"

(* What a child that was stopped may still be.                             *)
ChildInv ==
  /\ child = "stopping" => pc = "terminating"
  /\ child = "killed" => lingers
  /\ lingers => Closed
  /\ outcome = "error" => Closed

(* The child owes nothing: nothing to answer and no answer to be read.     *)
Quiet(lines) == \A i \in DOMAIN lines : lines[i].id = NoId

(* It owes the answer to the message being waited for, once.               *)
OwesInbox ==
  /\ Len(inbox) = 1 /\ inbox[1].re = sent
  /\ Quiet(out)

OwesNothingElse ==
  /\ inbox = <<>>
  /\ \A i \in DOMAIN out : out[i].id # NoId => out[i].re = sent
  /\ \A i, j \in DOMAIN out : out[i].id # NoId /\ out[j].id # NoId => i = j

OwedInv ==
  ~lingers =>
    /\ pc = "waiting" => OwesInbox \/ OwesNothingElse
    /\ pc \in {"idle", "writing"} /\ child = "up" => inbox = <<>> /\ Quiet(out)

(* The clients ask for ids the child knows.                                *)
PlaceInv == field \in DOMAIN Fields /\ page \in 0..(MaxPages - 1)

IInv == SendInv /\ ChildInv /\ OwedInv /\ AnswersAreFresh /\ PlaceInv

\* The caller takes what send returned.
Taken ==
  /\ outcome # "none" /\ outcome' = "none"
  /\ UNCHANGED <<pipe, pc, message, sent, answered, lingers>>

\* All that happens to the child and to send().
Step ==
  \/ \E m \in Message : Send(m)
  \/ Gateway \/ Child \/ Close \/ Taken \/ UNCHANGED stdio

USE NoIdAssumption, BoundsAssumption

-----------------------------------------------------------------------------
LEMMA InitIInv == Init => IInv
<1> SUFFICES ASSUME Init PROVE IInv
  OBVIOUS
<1>1. field \in DOMAIN Fields /\ page \in 0..(MaxPages - 1)
  BY FieldsAssumption, PagesAssumption DEF Init, DiscoveryInit
<1>2. Notification \in Message
  BY DEF Notification, Message
<1>3. inbox \in Seq(Request) /\ out \in Seq(Line) /\ Len(inbox) = 0 /\ Len(out) = 0
  BY DEF Init, StdioInit
<1>4. SendInv
  <2>1. lingers \in BOOLEAN
    BY DEF Init, StdioInit
  <2>2. sent = 0 /\ answered = 0 /\ 0 \in 0..MaxMessages
    BY DEF Init, StdioInit
  <2>3. inbox \in Seq(Request) /\ out \in Seq(Line)
    BY <1>3
  <2>4. message \in Message
    BY <1>2 DEF Init, StdioInit
  <2> QED BY <2>1, <2>2, <2>3, <2>4 DEF Init, StdioInit, SendInv, StdioTypeOK
<1>5. ChildInv /\ AnswersAreFresh
  BY DEF Init, StdioInit, ChildInv, Closed, AnswersAreFresh
<1>6. OwedInv
  BY <1>3 DEF Init, StdioInit, OwedInv, Quiet
<1> QED
  BY <1>1, <1>4, <1>5, <1>6 DEF IInv, PlaceInv

LEMMA StepsOfClients ==
  ASSUME IInv, [Next]_vars
  PROVE  Step /\ PlaceInv'
<1> USE DEF IInv, PlaceInv
<1>a. CASE UNCHANGED vars
  BY <1>a DEF vars, discovery, Step
<1>b. CASE (Gateway \/ Child) /\ UNCHANGED <<loop, discovery>>
  BY <1>b DEF Step, discovery
<1>c. CASE Loop /\ UNCHANGED discovery
  <2>1. CASE ReadLast \/ ReadUnusable \/ ReadRefused
    BY <1>c, <2>1 DEF ReadLast, ReadUnusable, ReadRefused, Step, discovery
  <2>2. CASE ReadForwarded
    BY <1>c, <2>2 DEF ReadForwarded, Step, discovery
  <2>3. CASE WriteReply \/ PipelineRaises
    BY <1>c, <2>3 DEF WriteReply, PipelineRaises, Step, Taken, discovery
  <2>4. CASE Finish
    BY <1>c, <2>4 DEF Finish, Step, discovery
  <2> QED BY <1>c, <2>1, <2>2, <2>3, <2>4 DEF Loop
<1>d. CASE Discover /\ UNCHANGED loop
  <2>1. ASSUME NEW id \in Ids, Ask(id) PROVE Step
    <3>1. [form |-> "request", id |-> id] \in Message
      BY DEF Message
    <3> QED BY <2>1, <3>1 DEF Ask, Step
  <2>2. ASSUME NEW results, results \subseteq {"answer", "nothing", "error"}, Heard(results) PROVE Step
    BY <2>2 DEF Heard, Taken, Step
  <2>3. NextField => PlaceInv'
    BY FieldsAssumption, PagesAssumption DEF NextField
  <2>4. CASE Initialize
    BY <2>1, <2>4, IdsAssumption DEF Initialize
  <2>5. CASE Greeted \/ Confirmed \/ HandshakeFails
    BY <2>2, <2>5 DEF Greeted, Confirmed, HandshakeFails
  <2>6. CASE Confirm
    <3>1. Notification \in Message
      BY DEF Notification, Message
    <3> QED BY <2>6, <3>1 DEF Confirm, Step
  <2>7. CASE AskPage
    BY <2>1, <2>7, IdsAssumption DEF AskPage
  <2>8. CASE PageFails \/ PageUnusable
    BY <2>2, <2>3, <2>8 DEF PageFails, PageUnusable, ListFails
  <2>9. CASE TakePage
    <3>1. Heard({"answer"})
      BY <2>9 DEF TakePage
    <3>2. NextField \/ (UNCHANGED field /\ page' = page + 1 /\ page + 1 # MaxPages)
      BY <2>9 DEF TakePage, ListFails
    <3>3. PlaceInv'
      BY <2>3, <3>2, PagesAssumption
    <3> QED BY <2>2, <3>1, <3>3
  <2>10. CASE CloseClient
    BY <2>10 DEF CloseClient, Step
  <2> QED
    BY <1>d, <2>4, <2>5, <2>6, <2>7, <2>8, <2>9, <2>10 DEF Discover
<1> QED BY <1>a, <1>b, <1>c, <1>d DEF Next, Client

-----------------------------------------------------------------------------
LEMMA SendStep ==
  ASSUME IInv, Step
  PROVE  SendInv'
<1> USE DEF IInv, SendInv, StdioTypeOK
<1>1. CASE \E m \in Message : Send(m)
  BY <1>1 DEF Send, pipe
<1>2. CASE Write
  <2>1. CASE message.form = "request"
    <3>1. [id |-> message.id, re |-> sent] \in Request
      BY <1>2, <2>1 DEF Write, Message, Request
    <3> QED BY <1>2, <2>1, <3>1 DEF Write, Message
  <2>2. CASE message.form = "notification"
    BY <1>2, <2>2 DEF Write
  <2> QED BY <1>2, <2>1, <2>2 DEF Write
<1>3. CASE WriteFails \/ EndOfOutput \/ Timeout \/ Close
  BY <1>3 DEF WriteFails, EndOfOutput, Timeout, Close, pipe
<1>4. CASE Take
  <2>1. Head(out) \in Line /\ Tail(out) \in Seq(Line)
    BY <1>4 DEF Take
  <2> QED BY <1>4, <2>1 DEF Take, Line
<1>5. CASE Terminate \/ Reaped \/ Kill
  BY <1>5 DEF Terminate, Reaped, Kill, pipe
<1>6. CASE Answer
  <2>1. Head(inbox) \in Request /\ Tail(inbox) \in Seq(Request)
    BY <1>6 DEF Answer
  <2>2. \A k \in {"answer", "unusable"} :
          [kind |-> k, id |-> Head(inbox).id, re |-> Head(inbox).re] \in Line
    BY <2>1 DEF Request, Line
  <2> QED BY <1>6, <2>1, <2>2 DEF Answer
<1>7. CASE Chatter
  <2>1. \A k \in {"answer", "unusable"} : [kind |-> k, id |-> NoId, re |-> 0] \in Line
    BY DEF Line
  <2> QED BY <1>7, <2>1 DEF Chatter
<1>8. CASE Exit
  <2>1. [kind |-> "unusable", id |-> NoId, re |-> 0] \in Line
    BY DEF Line
  <2> QED BY <1>8, <2>1 DEF Exit
<1>9. CASE Taken \/ UNCHANGED stdio
  BY <1>9 DEF Taken, stdio, pipe
<1> QED
  BY <1>1, <1>2, <1>3, <1>4, <1>5, <1>6, <1>7, <1>8, <1>9 DEF Step, Gateway, Child

LEMMA ChildStep ==
  ASSUME IInv, Step
  PROVE  ChildInv'
<1> USE DEF IInv, SendInv, StdioTypeOK, ChildInv, Closed
<1>1. CASE \E m \in Message : Send(m)
  BY <1>1 DEF Send, pipe
<1>2. CASE Write \/ WriteFails \/ Take \/ EndOfOutput \/ Timeout \/ Close
  BY <1>2 DEF Write, WriteFails, Take, EndOfOutput, Timeout, Close, pipe
<1>3. CASE Terminate \/ Reaped \/ Kill
  BY <1>3 DEF Terminate, Reaped, Kill, pipe
<1>4. CASE Child
  BY <1>4 DEF Child, Answer, Chatter, Exit
<1>5. CASE Taken \/ UNCHANGED stdio
  BY <1>5 DEF Taken, stdio, pipe
<1> QED BY <1>1, <1>2, <1>3, <1>4, <1>5 DEF Step, Gateway

-----------------------------------------------------------------------------
(* What the child still owes.                                              *)

LEMMA AppendedQuiet ==
  ASSUME NEW lines \in Seq(Line), Quiet(lines), NEW x \in Line, x.id = NoId
  PROVE  Quiet(Append(lines, x))
BY DEF Quiet

LEMMA OwedAfterChatter ==
  ASSUME SendInv, OwedInv, NEW x \in Line, x.id = NoId,
         out' \in {out, Append(out, x)}, child' \in {child, "gone"},
         UNCHANGED <<inbox, pc, sent, lingers>>
  PROVE  OwedInv'
<1> USE DEF SendInv, StdioTypeOK
<1>1. Quiet(out) => Quiet(out)'
  BY AppendedQuiet DEF Quiet
<1>2. OwesNothingElse => OwesNothingElse'
  <2>1. /\ DOMAIN out = 1..Len(out)
        /\ DOMAIN out' \in {1..Len(out), 1..(Len(out) + 1)}
        /\ Len(out) \in Nat
        /\ \A i \in DOMAIN out' : IF i \in DOMAIN out THEN out'[i] = out[i] ELSE out'[i] = x
    OBVIOUS
  <2> QED BY <2>1 DEF OwesNothingElse
<1> QED BY <1>1, <1>2 DEF OwedInv, OwesInbox

LEMMA OwedStep ==
  ASSUME IInv, Step
  PROVE  OwedInv'
<1> USE DEF IInv, SendInv, StdioTypeOK
<1>1. CASE \E m \in Message : Send(m)
  BY <1>1 DEF Send, pipe, OwedInv, Quiet
<1>2. CASE Write
  <2>1. child # "up" => lingers
    BY <1>2 DEF Write, ChildInv
  <2>2. ~lingers => inbox = <<>> /\ Quiet(out)
    BY <1>2, <2>1 DEF Write, OwedInv
  <2>3. CASE message.form = "request"
    <3>1. inbox = <<>> => Len(inbox') = 1 /\ inbox'[1].re = sent
      BY <1>2, <2>3 DEF Write
    <3>2. pc' = "waiting" /\ UNCHANGED <<out, sent, lingers>>
      BY <1>2, <2>3 DEF Write
    <3> QED BY <2>2, <3>1, <3>2 DEF OwedInv, OwesInbox, Quiet
  <2>4. CASE message.form = "notification"
    BY <1>2, <2>2, <2>4 DEF Write, OwedInv, Quiet
  <2> QED BY <1>2, <2>3, <2>4 DEF Write
<1>3. CASE WriteFails \/ EndOfOutput \/ Timeout \/ Close
  BY <1>3 DEF WriteFails, EndOfOutput, Timeout, Close, OwedInv
<1>4. CASE Take
  <2>1. CASE ~Answers(Head(out))
    BY <1>4, <2>1 DEF Take, OwedInv
  <2>2. CASE Answers(Head(out)) /\ ~lingers
    <3>1. out[1].id # NoId /\ 1 \in DOMAIN out
      BY <1>4, <2>2 DEF Take, Answers, Message
    <3>2. OwesNothingElse
      BY <1>4, <2>2, <3>1 DEF Take, OwedInv, OwesInbox, Quiet
    <3>3. \A i \in DOMAIN Tail(out) : Tail(out)[i] = out[i + 1] /\ i + 1 \in DOMAIN out /\ i + 1 # 1
      BY <1>4 DEF Take
    <3>4. Quiet(Tail(out))
      BY <3>1, <3>2, <3>3 DEF Quiet, OwesNothingElse
    <3> QED BY <1>4, <2>2, <3>2, <3>4 DEF Take, OwedInv, OwesNothingElse, Quiet
  <2>3. CASE lingers
    BY <1>4, <2>3 DEF Take, OwedInv
  <2> QED BY <2>1, <2>2, <2>3
<1>5. CASE Terminate \/ Reaped \/ Kill
  BY <1>5 DEF Terminate, Reaped, Kill, pipe, OwedInv
<1>6. CASE Answer
  <2> SUFFICES ASSUME ~lingers PROVE OwedInv'
    BY <1>6 DEF Answer, OwedInv
  <2>1. CASE pc = "waiting"
    <3>1. Len(inbox) = 1 /\ inbox[1].re = sent /\ Quiet(out)
      BY <1>6, <2>1 DEF Answer, OwedInv, OwesInbox, OwesNothingElse
    <3>2. PICK k \in {"answer", "unusable"} :
            out' = Append(out, [kind |-> k, id |-> Head(inbox).id, re |-> Head(inbox).re])
      BY <1>6 DEF Answer
    <3>3. Head(inbox).re = sent /\ Tail(inbox) = <<>>
      <4>1. Head(inbox) = inbox[1]
        BY <3>1
      <4>2. Tail(inbox) \in Seq(Request) /\ Len(Tail(inbox)) = 0
        BY <1>6, <3>1, HeadTailProperties DEF Answer
      <4> QED BY <3>1, <4>1, <4>2, EmptySeq
    <3>4. DEFINE x == [kind |-> k, id |-> Head(inbox).id, re |-> Head(inbox).re]
    <3>5. x.re = sent
      BY <3>3
    <3> HIDE DEF x
    <3>6. out' = Append(out, x)
      BY <3>2 DEF x
    <3>7. \A i \in DOMAIN out' : IF i = Len(out) + 1 THEN out'[i] = x ELSE i \in DOMAIN out /\ out'[i] = out[i]
      BY <3>6
    <3>8. OwesNothingElse'
      BY <1>6, <3>1, <3>3, <3>5, <3>7 DEF Answer, OwesNothingElse, Quiet
    <3> QED BY <1>6, <2>1, <3>8 DEF Answer, OwedInv
  <2>2. CASE pc \in {"idle", "writing"}
    BY <1>6, <2>2 DEF Answer, OwedInv, ChildInv
  <2>3. CASE pc \in {"closing", "terminating"}
    BY <1>6, <2>3 DEF Answer, OwedInv
  <2> QED BY <2>1, <2>2, <2>3
<1>7. CASE Chatter
  <2>1. PICK k \in {"answer", "unusable"} : out' = Append(out, [kind |-> k, id |-> NoId, re |-> 0])
    BY <1>7 DEF Chatter
  <2>2. [kind |-> k, id |-> NoId, re |-> 0] \in Line
    BY DEF Line
  <2> QED BY <1>7, <2>1, <2>2, OwedAfterChatter DEF Chatter
<1>8. CASE Exit
  <2>1. [kind |-> "unusable", id |-> NoId, re |-> 0] \in Line
    BY DEF Line
  <2> QED BY <1>8, <2>1, OwedAfterChatter DEF Exit
<1>9. CASE Taken \/ UNCHANGED stdio
  BY <1>9 DEF Taken, stdio, pipe, OwedInv, OwesInbox, OwesNothingElse, Quiet
<1> QED
  BY <1>1, <1>2, <1>3, <1>4, <1>5, <1>6, <1>7, <1>8, <1>9 DEF Step, Gateway, Child

LEMMA FreshStep ==
  ASSUME IInv, Step
  PROVE  AnswersAreFresh'
<1> USE DEF IInv, SendInv, StdioTypeOK, ChildInv, Closed, AnswersAreFresh
<1>1. CASE \E m \in Message : Send(m)
  BY <1>1 DEF Send, pipe
<1>2. CASE Take
  <2>1. CASE Answers(Head(out)) /\ ~lingers
    <3>1. out[1].id # NoId /\ 1 \in DOMAIN out /\ Head(out) = out[1]
      BY <1>2, <2>1 DEF Take, Answers, Message
    <3>2. out[1].re = sent
      BY <1>2, <2>1, <3>1 DEF Take, OwedInv, OwesInbox, OwesNothingElse, Quiet
    <3> QED BY <1>2, <2>1, <3>1, <3>2 DEF Take
  <2>2. CASE ~Answers(Head(out)) \/ lingers
    BY <1>2, <2>2 DEF Take
  <2> QED BY <2>1, <2>2
<1>3. CASE Write \/ WriteFails \/ EndOfOutput \/ Timeout \/ Close \/ Terminate \/ Reaped \/ Kill
  BY <1>3 DEF Write, WriteFails, EndOfOutput, Timeout, Close, Terminate, Reaped, Kill, pipe
<1>4. CASE Child
  BY <1>4 DEF Child, Answer, Chatter, Exit
<1>5. CASE Taken \/ UNCHANGED stdio
  BY <1>5 DEF Taken, stdio, pipe
<1> QED BY <1>1, <1>2, <1>3, <1>4, <1>5 DEF Step, Gateway

LEMMA NextIInv == IInv /\ [Next]_vars => IInv'
<1> SUFFICES ASSUME IInv, [Next]_vars PROVE IInv'
  OBVIOUS
<1>1. Step /\ PlaceInv'
  BY StepsOfClients
<1> QED BY <1>1, SendStep, ChildStep, OwedStep, FreshStep DEF IInv

THEOREM Invariance == Spec => []IInv
<1> QED BY InitIInv, NextIInv, PTL DEF Spec

-----------------------------------------------------------------------------
(* send() as it stands returns the answer to the very message it was       *)
(* given, for any reuse of ids and however the child behaves, unless the   *)
(* child survived SIGTERM (upstream/stdio.py, send and _terminate).        *)
THEOREM FreshAnswers == Spec => []AnswersAreFresh
<1>1. IInv => AnswersAreFresh
  BY DEF IInv
<1> QED BY <1>1, Invariance, PTL

(* After a send that failed the child is dead or killed, so no message     *)
(* follows the failed one into its pipe.                                   *)
THEOREM FailuresEndTheChild == Spec => []FailureEndsTheChild
<1>1. IInv => FailureEndsTheChild
  BY DEF IInv, ChildInv, FailureEndsTheChild
<1> QED BY <1>1, Invariance, PTL

(* The variables of the child and of send() keep their types.              *)
THEOREM StdioTyped == Spec => []StdioTypeOK
<1>1. IInv => StdioTypeOK
  BY DEF IInv, SendInv
<1> QED BY <1>1, Invariance, PTL

-----------------------------------------------------------------------------
(* Discovery.  What has been found of the list being read is what is on    *)
(* the pages taken so far, and their cursors lead to the one asked for.    *)

Complete(f) == \E path \in Paths : Ends(f, path) /\ Holds(f, path, found[f])

Known(f) == f \in errors \/ Complete(f)

Handshake == {"initialize", "initialized"}

KeptInv ==
  /\ server \in Servers /\ previous \in Snapshots
  /\ cursor \in Cursors \cup {Start}
  /\ found \in [Lists -> Listing]

StartInv ==
  stage \in {"initialize", "greeting", "initialized", "confirming"} =>
    field = 1 /\ page = 0 /\ cursor = Start /\ found = [f \in Lists |-> <<>>]

ReadingInv ==
  stage \in {"list", "listing"} =>
    \E path \in [1..page -> Cursors \cup {Start}] :
      /\ Leads(Fields[field], path)
      /\ Holds(Fields[field], path, found[Fields[field]])
      /\ IF page = 0 THEN cursor = Start
         ELSE cursor \in Cursors /\ cursor = server[Fields[field]][path[page]].next

OtherListsInv ==
  stage \in {"list", "listing"} =>
    \A i \in DOMAIN Fields :
      /\ i < field => Known(Fields[i])
      /\ i > field => found[Fields[i]] = <<>>

AllReadInv ==
  stage \in {"closing", "done"} =>
    errors \cap Handshake # {} \/ \A f \in Lists : Known(f)

DiscoveryInv == KeptInv /\ StartInv /\ ReadingInv /\ OtherListsInv /\ AllReadInv

\* The comparison of snapshots, for two that are functions.
LEMMA SameListings ==
  ASSUME NEW g \in Listing, NEW h \in Listing
  PROVE  Added(g, h) \cup Removed(g, h) \cup Changed(g, h) = {} <=> g = h
<1>1. g = [m \in DOMAIN g |-> g[m]] /\ h = [m \in DOMAIN h |-> h[m]]
  BY DEF Listing
<1>2. ASSUME Added(g, h) \cup Removed(g, h) \cup Changed(g, h) = {}
      PROVE  g = h
  <2>1. DOMAIN g = DOMAIN h
    BY <1>2 DEF Added, Removed
  <2>2. \A m \in DOMAIN g : g[m] = h[m]
    BY <1>2, <2>1 DEF Changed
  <2> QED BY <1>1, <2>1, <2>2
<1>3. g = h => Added(g, h) \cup Removed(g, h) \cup Changed(g, h) = {}
  BY DEF Added, Removed, Changed
<1> QED BY <1>2, <1>3

LEMMA ServerTypes ==
  ASSUME KeptInv, NEW f \in Lists, NEW c \in Cursors \cup {Start}
  PROVE  /\ server[f][c].items \in Listing
         /\ server[f][c].next \in Cursors \cup {Start, Malformed}
<1>1. server[f][c] \in Page
  BY ServersAssumption DEF KeptInv, Server
<1> QED BY <1>1 DEF Page

(* Taking the page a path leads to is what makes it one page longer.       *)
LEMMA OnePageMore ==
  ASSUME KeptInv, NEW f \in Lists, NEW n \in Nat, NEW path \in [1..n -> Cursors \cup {Start}],
         NEW items \in Listing, Leads(f, path), Holds(f, path, items),
         NEW c \in Cursors \cup {Start},
         IF n = 0 THEN c = Start ELSE c \in Cursors /\ c = server[f][path[n]].next
  PROVE  \E longer \in [1..(n + 1) -> Cursors \cup {Start}] :
           /\ Leads(f, longer)
           /\ Holds(f, longer, Update(items, server[f][c].items))
           /\ longer[n + 1] = c
<1> DEFINE longer == [i \in 1..(n + 1) |-> IF i = n + 1 THEN c ELSE path[i]]
           new == server[f][c].items
           all == Update(items, new)
<1>1. /\ longer \in [1..(n + 1) -> Cursors \cup {Start}] /\ longer[n + 1] = c
      /\ DOMAIN longer = 1..(n + 1) /\ DOMAIN path = 1..n
      /\ \A i \in 1..n : longer[i] = path[i] /\ i \in 1..(n + 1) /\ i # n + 1
      /\ \A i \in 1..(n + 1) : i \in 1..n \/ i = n + 1
  OBVIOUS
<1>2. DOMAIN all = DOMAIN items \cup DOMAIN new
      /\ \A m \in DOMAIN all : all[m] = IF m \in DOMAIN new THEN new[m] ELSE items[m]
  BY DEF Update
<1> HIDE DEF longer, all
<1>3. Leads(f, longer)
  <2> SUFFICES ASSUME NEW i \in 1..(n + 1)
               PROVE  IF i = 1 THEN longer[i] = Start
                      ELSE longer[i] \in Cursors /\ longer[i] = server[f][longer[i - 1]].next
    BY <1>1 DEF Leads
  <2>1. CASE i \in 1..n
    <3>1. i # 1 => i - 1 \in 1..n
      BY <2>1
    <3> QED BY <1>1, <2>1, <3>1 DEF Leads
  <2>2. CASE i = n + 1
    <3>1. n # 0 => n \in 1..n /\ i # 1 /\ i - 1 = n
      BY <2>2
    <3> QED BY <1>1, <2>2, <3>1
  <2> QED BY <1>1, <2>1, <2>2
<1>4. DOMAIN items = UNION {DOMAIN server[f][path[i]].items : i \in 1..n}
  BY <1>1 DEF Holds
<1>5. DOMAIN all = UNION {DOMAIN server[f][longer[i]].items : i \in 1..(n + 1)}
  <2>1. \A m : m \in DOMAIN all <=> (\E i \in 1..n : m \in DOMAIN server[f][path[i]].items) \/ m \in DOMAIN new
    BY <1>2, <1>4
  <2>2. \A m : (\E i \in 1..(n + 1) : m \in DOMAIN server[f][longer[i]].items) <=>
               (\E i \in 1..n : m \in DOMAIN server[f][path[i]].items) \/ m \in DOMAIN new
    <3>1. n + 1 \in 1..(n + 1)
      OBVIOUS
    <3> QED BY <1>1, <3>1
  <2> QED BY <2>1, <2>2
<1>6. ASSUME NEW m \in DOMAIN all
      PROVE  \E i \in 1..(n + 1) :
               /\ m \in DOMAIN server[f][longer[i]].items /\ all[m] = server[f][longer[i]].items[m]
               /\ \A j \in 1..(n + 1) : j > i => m \notin DOMAIN server[f][longer[j]].items
  <2>1. CASE m \in DOMAIN new
    <3>1. n + 1 \in 1..(n + 1) /\ \A j \in 1..(n + 1) : ~(j > n + 1)
      OBVIOUS
    <3> QED BY <1>1, <1>2, <2>1, <3>1
  <2>2. CASE m \notin DOMAIN new
    <3>1. m \in DOMAIN items /\ all[m] = items[m]
      BY <1>2, <2>2
    <3>2. PICK i \in 1..n : /\ m \in DOMAIN server[f][path[i]].items
                            /\ items[m] = server[f][path[i]].items[m]
                            /\ \A j \in 1..n : j > i => m \notin DOMAIN server[f][path[j]].items
      BY <1>1, <3>1 DEF Holds
    <3> QED BY <1>1, <2>2, <3>1, <3>2
  <2> QED BY <2>1, <2>2
<1>7. Holds(f, longer, all)
  BY <1>1, <1>5, <1>6 DEF Holds
<1> QED BY <1>1, <1>3, <1>7 DEF all

LEMMA LeastNumber ==
  ASSUME NEW T, T \subseteq Nat, T # {}
  PROVE  \E n \in T : \A m \in T : n <= m
<1> DEFINE R == {ss \in Nat \X Nat : ss[1] < ss[2]}
<1>1. IsWellFoundedOn(R, Nat)
  BY NatLessThanWellFounded, Zenon DEF OpToRel
<1>2. \E n \in T : \A m \in T : <<m, n>> \notin R
  BY <1>1, WFMin, Zenon
<1>3. \A n, m \in Nat : <<m, n>> \notin R => n <= m
  OBVIOUS
<1> QED BY <1>2, <1>3

LEMMA PathTypes ==
  ASSUME NEW path \in Paths
  PROVE  \E n \in 1..MaxPages : /\ path \in [1..n -> Cursors \cup {Start}]
                                /\ Len(path) = n /\ DOMAIN path = 1..n
<1>1. PICK n \in 1..MaxPages : path \in [1..n -> Cursors \cup {Start}]
  BY DEF Paths
<1>2. n \in Nat
  BY PagesAssumption
<1>3. path \in Seq(Cursors \cup {Start})
  BY <1>1, <1>2, SeqDef
<1> QED BY <1>1, <1>2, <1>3

(* A list has one sequence of pages.                                       *)
LEMMA OneEnd ==
  ASSUME NEW f, NEW p \in Paths, NEW q \in Paths, Ends(f, p), Ends(f, q)
  PROVE  p = q
<1>1. PICK n \in 1..MaxPages : /\ p \in [1..n -> Cursors \cup {Start}]
                               /\ Len(p) = n /\ DOMAIN p = 1..n
  BY PathTypes
<1>2. PICK k \in 1..MaxPages : /\ q \in [1..k -> Cursors \cup {Start}]
                               /\ Len(q) = k /\ DOMAIN q = 1..k
  BY PathTypes
<1>3. n \in Nat /\ k \in Nat /\ n >= 1 /\ k >= 1
  BY PagesAssumption
<1>4. /\ \A i \in 1..n : IF i = 1 THEN p[i] = Start
                         ELSE p[i] \in Cursors /\ p[i] = server[f][p[i - 1]].next
      /\ \A i \in 1..k : IF i = 1 THEN q[i] = Start
                         ELSE q[i] \in Cursors /\ q[i] = server[f][q[i - 1]].next
      /\ server[f][p[n]].next = Start /\ server[f][q[k]].next = Start
  BY <1>1, <1>2 DEF Ends, Leads
<1>5. \A i \in (1..n) \cap (1..k) : p[i] = q[i]
  <2> DEFINE T == {i \in (1..n) \cap (1..k) : p[i] # q[i]}
  <2> SUFFICES ASSUME T # {} PROVE FALSE
    OBVIOUS
  <2>1. T \subseteq Nat
    BY <1>3
  <2>2. PICK i \in T : \A j \in T : i <= j
    BY <2>1, LeastNumber
  <2>3. i # 1 /\ i \in Nat /\ i \in 1..n /\ i \in 1..k
    BY <1>3, <1>4, <2>2
  <2>4. i - 1 \in (1..n) \cap (1..k) /\ i - 1 \notin T
    BY <1>3, <2>2, <2>3
  <2>5. p[i - 1] = q[i - 1]
    BY <2>4
  <2> QED BY <1>4, <2>2, <2>3, <2>5
<1>6. ~(n < k)
  <2> SUFFICES ASSUME n < k PROVE FALSE
    OBVIOUS
  <2>1. n \in (1..n) \cap (1..k) /\ n + 1 \in 1..k /\ n + 1 # 1 /\ (n + 1) - 1 = n
    BY <1>3
  <2>2. q[n + 1] \in Cursors /\ q[n + 1] = server[f][q[n]].next
    BY <1>4, <2>1
  <2> QED BY <1>4, <1>5, <2>1, <2>2, CursorAssumption
<1>7. ~(k < n)
  <2> SUFFICES ASSUME k < n PROVE FALSE
    OBVIOUS
  <2>1. k \in (1..n) \cap (1..k) /\ k + 1 \in 1..n /\ k + 1 # 1 /\ (k + 1) - 1 = k
    BY <1>3
  <2>2. p[k + 1] \in Cursors /\ p[k + 1] = server[f][p[k]].next
    BY <1>4, <2>1
  <2> QED BY <1>4, <1>5, <2>1, <2>2, CursorAssumption
<1>8. n = k
  BY <1>3, <1>6, <1>7
<1> QED BY <1>1, <1>2, <1>5, <1>8

(* What is on the pages determines what is held.                           *)
LEMMA OneContent ==
  ASSUME NEW f, NEW path \in Paths, NEW g \in Listing, NEW h \in Listing,
         Holds(f, path, g), Holds(f, path, h)
  PROVE  g = h
<1>1. g = [m \in DOMAIN g |-> g[m]] /\ h = [m \in DOMAIN h |-> h[m]]
  BY DEF Listing
<1>2. DOMAIN g = DOMAIN h
  BY DEF Holds
<1>3. ASSUME NEW m \in DOMAIN g PROVE g[m] = h[m]
  <2>1. DOMAIN path \subseteq Nat
    BY PathTypes, PagesAssumption
  <2>2. PICK i \in DOMAIN path :
          /\ m \in DOMAIN server[f][path[i]].items /\ g[m] = server[f][path[i]].items[m]
          /\ \A j \in DOMAIN path : j > i => m \notin DOMAIN server[f][path[j]].items
    BY <1>3 DEF Holds
  <2>3. PICK j \in DOMAIN path :
          /\ m \in DOMAIN server[f][path[j]].items /\ h[m] = server[f][path[j]].items[m]
          /\ \A k \in DOMAIN path : k > j => m \notin DOMAIN server[f][path[k]].items
    BY <1>2, <1>3 DEF Holds
  <2>4. ~(i > j) /\ ~(j > i) /\ i \in Nat /\ j \in Nat
    BY <2>1, <2>2, <2>3
  <2>5. i = j
    BY <2>4
  <2> QED BY <2>2, <2>3, <2>5
<1> QED BY <1>1, <1>2, <1>3

LEMMA KnownStays ==
  ASSUME NEW f, Known(f), server' = server, errors \subseteq errors', found'[f] = found[f]
  PROVE  Known(f)'
BY DEF Known, Complete, Ends, Leads, Holds

LEMMA InitDiscovery == Init => DiscoveryInv
<1> SUFFICES ASSUME Init PROVE DiscoveryInv
  OBVIOUS
<1>1. <<>> \in Listing
  <2>1. <<>> \in [{} -> Versions] /\ {} \in SUBSET Names
    OBVIOUS
  <2> QED BY <2>1 DEF Listing
<1>2. server \in Servers /\ previous \in Snapshots
  BY DEF Init, DiscoveryInit
<1>3. KeptInv
  BY <1>1, <1>2 DEF Init, DiscoveryInit, KeptInv
<1> QED
  BY <1>3 DEF Init, DiscoveryInit, DiscoveryInv, StartInv, ReadingInv, OtherListsInv, AllReadInv

(* The list being read is done with, whichever way.                        *)
LEMMA OnToTheNextList ==
  ASSUME IInv, DiscoveryInv, stage = "listing", NextField, server' = server,
         errors \subseteq errors', NEW f, f = Fields[field], Known(f)',
         \A i \in DOMAIN Fields : i # field => found'[Fields[i]] = found[Fields[i]]
  PROVE  (StartInv /\ ReadingInv /\ OtherListsInv /\ AllReadInv)'
<1>1. field \in DOMAIN Fields /\ DOMAIN Fields = 1..Len(Fields) /\ Len(Fields) \in Nat
  BY FieldsAssumption DEF IInv, PlaceInv
<1>2. \A i \in DOMAIN Fields : i < field => Known(Fields[i])'
  BY <1>1, KnownStays DEF DiscoveryInv, OtherListsInv
<1>3. CASE field < Len(Fields)
  <2>1. /\ field' = field + 1 /\ stage' = "list" /\ page' = 0 /\ cursor' = Start
        /\ field + 1 \in DOMAIN Fields
    BY <1>1, <1>3 DEF NextField
  <2>2. \A i \in DOMAIN Fields : i > field => found'[Fields[i]] = <<>>
    BY <1>1 DEF DiscoveryInv, OtherListsInv
  <2>3. ReadingInv'
    <3>1. PICK g : g = Fields[field']
      OBVIOUS
    <3>2. found'[g] = <<>>
      BY <1>1, <2>1, <2>2, <3>1
    <3>3. PICK path : path \in [1..0 -> Cursors \cup {Start}]
      <4>1. [i \in 1..0 |-> Start] \in [1..0 -> Cursors \cup {Start}]
        OBVIOUS
      <4> QED BY <4>1
    <3>4. DOMAIN path = {} /\ DOMAIN <<>> = {}
      BY <3>3
    <3>5. Leads(g, path)' /\ Holds(g, path, found[g])'
      BY <3>4, <3>2 DEF Leads, Holds
    <3> QED BY <2>1, <3>1, <3>3, <3>5 DEF ReadingInv
  <2>4. OtherListsInv'
    <3> SUFFICES ASSUME NEW i \in DOMAIN Fields
                 PROVE  /\ i < field + 1 => Known(Fields[i])'
                        /\ i > field + 1 => found'[Fields[i]] = <<>>
      BY <2>1 DEF OtherListsInv
    <3>1. i < field + 1 => i < field \/ i = field
      BY <1>1
    <3>2. i > field + 1 => i > field
      BY <1>1
    <3> QED BY <1>2, <2>2, <3>1, <3>2
  <2> QED BY <2>1, <2>3, <2>4 DEF StartInv, AllReadInv
<1>4. CASE ~(field < Len(Fields))
  <2>1. stage' = "closing" /\ field = Len(Fields)
    BY <1>1, <1>4 DEF NextField
  <2>2. \A i \in DOMAIN Fields : Known(Fields[i])'
    <3>1. \A i \in DOMAIN Fields : i < field \/ i = field
      BY <1>1, <2>1
    <3> QED BY <1>2, <3>1
  <2>3. \A l \in Lists : Known(l)'
    BY <2>2 DEF Lists
  <2> QED BY <2>1, <2>3 DEF StartInv, ReadingInv, OtherListsInv, AllReadInv
<1> QED BY <1>3, <1>4

LEMMA DiscoveryUnchanged ==
  ASSUME DiscoveryInv, UNCHANGED <<server, previous, field, page, cursor, found, errors>>,
         \/ stage' = stage
         \/ stage = "list" /\ stage' = "listing"
         \/ stage = "closing" /\ stage' = "done"
         \/ {stage, stage'} \subseteq {"initialize", "greeting", "initialized", "confirming"}
  PROVE  DiscoveryInv'
<1>1. \A f : Known(f) => Known(f)'
  BY KnownStays
<1>2. \A f, path, items : /\ Leads(f, path) => Leads(f, path)'
                          /\ Holds(f, path, items) => Holds(f, path, items)'
  BY DEF Leads, Holds
<1>3. KeptInv' /\ StartInv'
  BY DEF DiscoveryInv, KeptInv, StartInv
<1>4. ReadingInv'
  BY <1>2 DEF DiscoveryInv, ReadingInv
<1>5. OtherListsInv' /\ AllReadInv'
  BY <1>1 DEF DiscoveryInv, OtherListsInv, AllReadInv
<1> QED BY <1>3, <1>4, <1>5 DEF DiscoveryInv

LEMMA DiscoveryStep ==
  ASSUME IInv, DiscoveryInv, [Next]_vars
  PROVE  DiscoveryInv'
<1>0. DOMAIN Fields = 1..Len(Fields) /\ Len(Fields) >= 1 /\ Len(Fields) \in Nat /\ MaxPages \in Nat
  BY FieldsAssumption, PagesAssumption
<1>1. CASE UNCHANGED discovery
  BY <1>1, DiscoveryUnchanged DEF discovery
<1>2. CASE Discover
  <2>1. CASE Initialize \/ Confirm \/ AskPage \/ CloseClient
    BY <2>1, DiscoveryUnchanged DEF Initialize, Confirm, AskPage, CloseClient
  <2>2. CASE Greeted
    <3>1. CASE stage' = "initialized"
      BY <2>2, <3>1, DiscoveryUnchanged DEF Greeted
    <3>2. CASE stage' = "closing" /\ errors' = {"initialize"}
      BY <2>2, <3>2 DEF Greeted, DiscoveryInv, KeptInv, StartInv, ReadingInv, OtherListsInv,
                        AllReadInv, Handshake
    <3> QED BY <2>2, <3>1, <3>2 DEF Greeted
  <2>3. CASE HandshakeFails
    BY <2>3 DEF HandshakeFails, DiscoveryInv, KeptInv, StartInv, ReadingInv, OtherListsInv,
                AllReadInv, Handshake
  <2>4. CASE Confirmed
    <3>1. /\ stage' = "list" /\ field = 1 /\ page = 0 /\ cursor = Start
          /\ found = [f \in Lists |-> <<>>]
          /\ UNCHANGED <<server, previous, field, page, cursor, found, errors>>
      BY <2>4 DEF Confirmed, DiscoveryInv, StartInv
    <3>2. \A i \in DOMAIN Fields : found[Fields[i]] = <<>>
      BY <3>1 DEF Lists
    <3>3. PICK path : path \in [1..0 -> Cursors \cup {Start}]
      <4>1. [i \in 1..0 |-> Start] \in [1..0 -> Cursors \cup {Start}]
        OBVIOUS
      <4> QED BY <4>1
    <3>4. DOMAIN path = {} /\ DOMAIN <<>> = {}
      BY <3>3
    <3>5. PICK g : g = Fields[1]
      OBVIOUS
    <3>6. found'[g] = <<>>
      BY <1>0, <3>1, <3>2, <3>5
    <3>7. Leads(g, path)' /\ Holds(g, path, found[g])'
      BY <3>4, <3>6 DEF Leads, Holds
    <3>8. ReadingInv'
      BY <3>1, <3>3, <3>7, <3>5 DEF ReadingInv
    <3>9. OtherListsInv'
      BY <1>0, <3>1, <3>2 DEF OtherListsInv
    <3> QED BY <3>1, <3>8, <3>9 DEF DiscoveryInv, KeptInv, StartInv, AllReadInv
  <2>5. CASE PageFails \/ PageUnusable
    <3>1. /\ stage = "listing" /\ NextField /\ errors' = errors \cup {Fields[field]}
          /\ UNCHANGED <<server, previous, found>>
      BY <2>5 DEF PageFails, PageUnusable, ListFails
    <3>2. PICK f : f = Fields[field]
      OBVIOUS
    <3>3. Known(f)'
      BY <3>1, <3>2 DEF Known
    <3>4. KeptInv'
      BY <3>1 DEF DiscoveryInv, KeptInv, NextField
    <3> QED BY <3>1, <3>3, <3>4, <3>2, OnToTheNextList DEF DiscoveryInv
  <2>6. CASE TakePage
    <3>0. PICK f : f = Fields[field]
      OBVIOUS
    <3> DEFINE p == server[f][cursor]
    <3>1. /\ stage = "listing" /\ UNCHANGED <<server, previous>>
          /\ found' = [found EXCEPT ![f] = Update(@, p.items)]
          /\ f \in Lists /\ field \in DOMAIN Fields /\ page \in 0..(MaxPages - 1)
      BY <2>6, <3>0 DEF TakePage, IInv, PlaceInv, Lists
    <3>2. KeptInv /\ found[f] \in Listing /\ page \in Nat
      BY <1>0, <3>1 DEF DiscoveryInv, KeptInv
    <3>3. p.items \in Listing /\ p.next \in Cursors \cup {Start, Malformed}
      BY <3>1, <3>2, ServerTypes DEF KeptInv
    <3>4. Update(found[f], p.items) \in Listing
      <4>1. PICK s \in SUBSET Names : found[f] \in [s -> Versions]
        BY <3>2 DEF Listing
      <4>2. PICK t \in SUBSET Names : p.items \in [t -> Versions]
        BY <3>3 DEF Listing
      <4>3. Update(found[f], p.items) \in [s \cup t -> Versions]
        BY <4>1, <4>2 DEF Update
      <4> QED BY <4>3 DEF Listing
    <3>5. found'[f] = Update(found[f], p.items) /\ found' \in [Lists -> Listing]
      BY <3>1, <3>2, <3>4 DEF KeptInv
    <3>6. \A i \in DOMAIN Fields : i # field => found'[Fields[i]] = found[Fields[i]]
      BY <3>0, <3>1, <3>2, FieldsAssumption DEF KeptInv, Lists
    <3>7. PICK path \in [1..page -> Cursors \cup {Start}] :
            /\ Leads(f, path)
            /\ Holds(f, path, found[f])
            /\ IF page = 0 THEN cursor = Start
               ELSE cursor \in Cursors /\ cursor = server[f][path[page]].next
      BY <3>0, <3>1 DEF DiscoveryInv, ReadingInv
    <3>8. PICK longer \in [1..(page + 1) -> Cursors \cup {Start}] :
            /\ Leads(f, longer) /\ Holds(f, longer, found'[f]) /\ longer[page + 1] = cursor
      <4>1. cursor \in Cursors \cup {Start}
        BY <3>2 DEF KeptInv
      <4> QED BY <3>1, <3>2, <3>5, <3>7, <4>1, OnePageMore
    <3>9. Leads(f, longer)' /\ Holds(f, longer, found[f])'
      BY <3>1, <3>8 DEF Leads, Holds
    <3>10. KeptInv' \/ cursor' \notin Cursors \cup {Start}
      BY <3>1, <3>2, <3>5 DEF KeptInv
    <3> HIDE DEF p
    <3>11. CASE p.next = Start /\ NextField /\ UNCHANGED errors
      <4>1. page + 1 \in 1..MaxPages
        BY <1>0, <3>1
      <4>2. longer \in Paths /\ Len(longer) = page + 1
        <5>1. longer \in Paths
          BY <3>8, <4>1 DEF Paths
        <5>2. PICK n \in 1..MaxPages : longer \in [1..n -> Cursors \cup {Start}] /\ Len(longer) = n
          BY <5>1, PathTypes
        <5>3. 1..n = 1..(page + 1) /\ n \in Nat /\ page + 1 \in Nat
          BY <1>0, <3>2, <3>8, <5>2
        <5>4. n = page + 1
          BY <3>2, <5>3
        <5> QED BY <5>1, <5>2, <5>4
      <4>3. Ends(f, longer)'
        BY <3>1, <3>8, <3>9, <3>11, <4>2 DEF Ends, p
      <4>4. Known(f)'
        BY <3>9, <4>2, <4>3 DEF Known, Complete
      <4> QED BY <3>0, <3>1, <3>6, <3>10, <3>11, <4>4, OnToTheNextList DEF DiscoveryInv, NextField
    <3>12. CASE ListFails
      <4>1. Known(f)'
        BY <3>0, <3>12 DEF ListFails, Known
      <4> QED BY <3>0, <3>1, <3>6, <3>10, <3>12, <4>1, OnToTheNextList DEF DiscoveryInv, NextField, ListFails
    <3>13. CASE /\ p.next \in Cursors /\ page' = page + 1 /\ cursor' = p.next
                /\ stage' = "list" /\ UNCHANGED <<field, errors>>
      <4>1. longer \in [1..page' -> Cursors \cup {Start}] /\ page' # 0
        BY <3>2, <3>8, <3>13
      <4>2. cursor' \in Cursors /\ cursor' = server'[f][longer[page']].next
        BY <3>1, <3>8, <3>13 DEF p
      <4>3. ReadingInv'
        BY <3>0, <3>9, <3>13, <4>1, <4>2 DEF ReadingInv
      <4>4. \A g : Known(g) /\ found'[g] = found[g] => Known(g)'
        BY <3>1, <3>13, KnownStays
      <4>5. OtherListsInv'
        <5> SUFFICES ASSUME NEW i \in DOMAIN Fields
                     PROVE  /\ i < field => Known(Fields[i])'
                            /\ i > field => found'[Fields[i]] = <<>>
          BY <3>13 DEF OtherListsInv
        <5>1. i < field \/ i > field => i # field
          BY <1>0, <3>1
        <5> QED BY <3>1, <3>6, <4>4, <5>1 DEF DiscoveryInv, OtherListsInv
      <4> QED BY <3>10, <3>13, <4>3, <4>5 DEF DiscoveryInv, StartInv, AllReadInv
    <3> QED BY <2>6, <3>0, <3>11, <3>12, <3>13 DEF TakePage, p
  <2> QED BY <1>2, <2>1, <2>2, <2>3, <2>4, <2>5, <2>6 DEF Discover
<1>3. Discover \/ UNCHANGED discovery
  BY DEF Next, Client, vars
<1> QED BY <1>1, <1>2, <1>3

LEMMA Discovering == Spec => [](IInv /\ DiscoveryInv)
<1>1. IInv /\ DiscoveryInv /\ [Next]_vars => DiscoveryInv'
  BY DiscoveryStep
<1> QED BY <1>1, InitDiscovery, Invariance, PTL DEF Spec

(* A list without an error is all there is on its pages, for any server,   *)
(* any page limit and any child (capabilities/discovery.py, _list_all).    *)
THEOREM ListsAreComplete == Spec => []DiscoveredIsComplete
<1>1. DiscoveryInv => DiscoveredIsComplete
  BY DEF DiscoveryInv, AllReadInv, DiscoveredIsComplete, Known, Complete, Handshake
<1> QED BY <1>1, Discovering, PTL

(* Of a list read without an error, whatever became of the others, the     *)
(* comparison reports a difference exactly if the pages hold one           *)
(* (diff_snapshots).                                                       *)
THEOREM DiffsAreExact == Spec => []DiffIsExact
<1>1. DiscoveryInv => DiffIsExact
  <2> SUFFICES ASSUME DiscoveryInv, stage = "done", errors \cap {"initialize", "initialized"} = {},
                      NEW f \in Lists \ errors
               PROVE  Differs(f) <=> IsOther(f)
    BY DEF DiffIsExact, HasChanges
  <2>1. found[f] \in Listing /\ previous[f] \in Listing
    BY SnapshotsAssumption DEF DiscoveryInv, KeptInv
  <2>2. Complete(f)
    BY DEF DiscoveryInv, AllReadInv, Known, Handshake
  <2>3. Differs(f) <=> previous[f] # found[f]
    BY <2>1, SameListings DEF Differs
  <2>4. PICK path \in Paths : Ends(f, path) /\ Holds(f, path, found[f])
    BY <2>2 DEF Complete
  <2>5. \A q \in Paths : Ends(f, q) => q = path
    BY <2>4, OneEnd
  <2>6. Holds(f, path, previous[f]) => previous[f] = found[f]
    BY <2>1, <2>4, OneContent
  <2> QED BY <2>3, <2>4, <2>5, <2>6 DEF IsOther
<1> QED BY <1>1, Discovering, PTL
=============================================================================
