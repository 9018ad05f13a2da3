----------------------------- MODULE AuditChain -----------------------------
(***************************************************************************)
(* The hash-chained audit file (AuditLogger._write, _locked_append,        *)
(* _last_event and verify_audit_hash_chain), shared by threads and         *)
(* processes.  A writer takes the flock, reads the last line, buffers its  *)
(* own line, flushes it, releases the flock and closes the handle, which   *)
(* flushes again whatever a failed flush left in the buffer.               *)
(*                                                                         *)
(* A write to a full disk may leave nothing or the head of a line behind.  *)
(* The file is therefore a sequence of pieces: whole lines, heads without  *)
(* a newline, and the tails that complete them.  The hash of an event is   *)
(* the name of its writer, each of which writes one event.                 *)
(***************************************************************************)
EXTENDS Naturals, Sequences, FiniteSets

CONSTANTS
  Writers,  \* audit writes, by any thread of any process
  Strict,   \* audit.strict
  Faults,   \* what the disk does: subset of {"full", "partial"}
  NoOne     \* previous_event_hash null; also the holder of a free lock

ASSUME WriterAssumption == NoOne \notin Writers
ASSUME FaultAssumption == Strict \in BOOLEAN /\ Faults \subseteq {"full", "partial"}

VARIABLES
  file,    \* the pieces in the file
  struck,  \* the disk faults met so far
  lock,    \* holder of the flock
  pc,      \* pc[w]: where write w is
  event,   \* event[w]: the event of write w with its chain fields
  buffer,  \* buffer[w]: what the handle of w still has to write
  result   \* result[w]: what the caller of write w was told

vars == <<file, struck, lock, pc, event, buffer, result>>

Event == [by : Writers, previous : Writers \cup {NoOne}, sequence : Nat]
Piece == [event : Event, part : {"whole", "head", "tail"}]

TypeOK ==
  /\ file \in Seq(Piece)
  /\ struck \subseteq Faults
  /\ lock \in Writers \cup {NoOne}
  /\ pc \in [Writers -> {"idle", "locked", "buffered", "unlocking", "closing", "over"}]
  /\ event \in [Writers -> Event]
  /\ buffer \in [Writers -> {"empty", "whole", "tail"}]
  /\ result \in [Writers -> {"none", "ok", "failed"}]

Init ==
  /\ file = <<>>
  /\ struck = {}
  /\ lock = NoOne
  /\ pc = [w \in Writers |-> "idle"]
  /\ event = [w \in Writers |-> [by |-> w, previous |-> NoOne, sequence |-> 0]]
  /\ buffer = [w \in Writers |-> "empty"]
  /\ result = [w \in Writers |-> "none"]

-----------------------------------------------------------------------------
(* Lines.                                                                  *)

EndsLine(p) == p.part \in {"whole", "tail"}

\* The first piece of the line that piece n ends.
Start(f, n) == IF f[n].part = "tail" THEN n - 1 ELSE n

\* The line that piece n ends holds one event, unmixed.
Readable(f, n) ==
  /\ EndsLine(f[n])
  /\ Start(f, n) > 0
  /\ f[n].part = "tail" => f[n - 1] = [f[n] EXCEPT !.part = "head"]
  /\ Start(f, n) > 1 => EndsLine(f[Start(f, n) - 1])

\* _previous_chain_state: an unreadable last line counts as no event at all.
PreviousOf(f) ==
  IF f # <<>> /\ Readable(f, Len(f))
  THEN [hash |-> f[Len(f)].event.by, sequence |-> f[Len(f)].event.sequence]
  ELSE [hash |-> NoOne, sequence |-> 0]

\* verify_audit_hash_chain.
Verified(f) ==
  /\ f # <<>> => EndsLine(f[Len(f)])
  /\ \A n \in 1..Len(f) :
       EndsLine(f[n]) =>
         LET s == Start(f, n) IN
         /\ Readable(f, n)
         /\ f[n].event.previous = IF s = 1 THEN NoOne ELSE f[s - 1].event.by
         /\ f[n].event.sequence = IF s = 1 THEN 1 ELSE f[s - 1].event.sequence + 1

\* iter_audit_events: one line that is no event fails the whole search.
Searchable(f) ==
  /\ f # <<>> => EndsLine(f[Len(f)])
  /\ \A n \in 1..Len(f) : EndsLine(f[n]) => Readable(f, n)

Hits(f, wanted) == {n \in 1..Len(f) : EndsLine(f[n]) /\ f[n].event.by \in wanted}

\* search_audit_events: the lines it shows, the oldest of those that match.
Search(f, wanted, limit) ==
  IF Searchable(f)
  THEN {n \in Hits(f, wanted) : Cardinality({h \in Hits(f, wanted) : h < n}) < limit}
  ELSE {}

-----------------------------------------------------------------------------
(* A write.                                                                *)

Put(w, part) == file' = Append(file, [event |-> event[w], part |-> part])

\* Variants named ...Bug are plausible mistakes; no specification uses them.
LockBug(w) ==
  /\ pc[w] = "idle"
  /\ pc' = [pc EXCEPT ![w] = "locked"]
  /\ lock' = w
  /\ UNCHANGED <<file, struck, event, buffer, result>>

Lock(w) ==
  /\ pc[w] = "idle"
  /\ lock = NoOne
  /\ lock' = w
  /\ pc' = [pc EXCEPT ![w] = "locked"]
  /\ UNCHANGED <<file, struck, event, buffer, result>>

\* _with_hash.
WithHash(w) ==
  [by |-> w, previous |-> PreviousOf(file).hash, sequence |-> PreviousOf(file).sequence + 1]

Fill(w) ==
  /\ pc[w] = "locked"
  /\ event' = [event EXCEPT ![w] = WithHash(w)]
  /\ buffer' = [buffer EXCEPT ![w] = "whole"]
  /\ pc' = [pc EXCEPT ![w] = "buffered"]
  /\ UNCHANGED <<file, struck, lock, result>>

Flush(w) ==
  /\ pc[w] = "buffered"
  /\ Put(w, "whole")
  /\ buffer' = [buffer EXCEPT ![w] = "empty"]
  /\ result' = [result EXCEPT ![w] = "ok"]
  /\ pc' = [pc EXCEPT ![w] = "unlocking"]
  /\ UNCHANGED <<struck, lock, event>>

ToldBug == "ok"

Told == IF Strict THEN "failed" ELSE "ok"

Refuses(w) ==
  /\ "full" \in Faults
  /\ struck' = struck \cup {"full"}
  /\ UNCHANGED <<file, buffer>>

CutsShort(w) ==
  /\ "partial" \in Faults
  /\ struck' = struck \cup {"partial"}
  /\ Put(w, "head")
  /\ buffer' = [buffer EXCEPT ![w] = "tail"]

FsyncFails(w) ==
  /\ Strict
  /\ Put(w, "whole")
  /\ buffer' = [buffer EXCEPT ![w] = "empty"]
  /\ UNCHANGED struck

FlushFails(w) ==
  /\ pc[w] = "buffered"
  /\ Refuses(w) \/ CutsShort(w) \/ FsyncFails(w)
  /\ result' = [result EXCEPT ![w] = Told]
  /\ pc' = [pc EXCEPT ![w] = "unlocking"]
  /\ UNCHANGED <<lock, event>>

UnlockBug(w) ==
  /\ pc[w] = "unlocking"
  /\ lock' = IF buffer[w] = "empty" THEN NoOne ELSE lock
  /\ pc' = [pc EXCEPT ![w] = "closing"]
  /\ UNCHANGED <<file, struck, event, buffer, result>>

Unlock(w) ==
  /\ pc[w] = "unlocking"
  /\ lock' = NoOne
  /\ pc' = [pc EXCEPT ![w] = "closing"]
  /\ UNCHANGED <<file, struck, event, buffer, result>>

\* handle.close() writes what is left; what still cannot be written is lost.
Close(w) ==
  /\ pc[w] = "closing"
  /\ \/ buffer[w] # "empty" /\ Put(w, buffer[w])
     \/ UNCHANGED file
  /\ buffer' = [buffer EXCEPT ![w] = "empty"]
  /\ pc' = [pc EXCEPT ![w] = "over"]
  /\ UNCHANGED <<struck, lock, event, result>>

\* The process dies: the kernel drops its lock, its buffer is gone.
Crash(w) ==
  /\ pc[w] \notin {"idle", "over"}
  /\ pc' = [pc EXCEPT ![w] = "over"]
  /\ lock' = IF lock = w THEN NoOne ELSE lock
  /\ buffer' = [buffer EXCEPT ![w] = "empty"]
  /\ UNCHANGED <<file, struck, event, result>>

-----------------------------------------------------------------------------
Step(w) ==
  \/ Lock(w) \/ Fill(w) \/ Flush(w) \/ FlushFails(w) \/ Unlock(w) \/ Close(w)

Next == \E w \in Writers : Step(w) \/ Crash(w)

Spec == Init /\ [][Next]_vars

FairSpec == Spec /\ \A w \in Writers : WF_vars(Step(w))

-----------------------------------------------------------------------------
(* Properties.                                                             *)

(* As long as the disk takes what it is given the file verifies, whatever  *)
(* threads and processes write, whichever of them die in between.          *)
ChainVerifies == struck = {} => Verified(file)

(* "Appended under an exclusive lock so concurrent writers cannot fork the *)
(* chain": no two events in the file name the same predecessor.            *)
NoFork ==
  \A m, n \in 1..Len(file) :
    /\ m # n /\ EndsLine(file[m]) /\ EndsLine(file[n])
    /\ file[m].event.previous # NoOne
    => file[m].event.previous # file[n].event.previous

(* "Strict audit durably writes a dispatch intent before forwarding": an   *)
(* event whose write succeeded is found by `audit search` for it, also     *)
(* when it may show one event only, unless the disk has cut some write     *)
(* short (then nothing is found any more).                                 *)
WrittenIsFound ==
  "partial" \notin struck =>
    \A w \in Writers : result[w] = "ok" => Search(file, {w}, 1) # {}

(* The flock is always released, so every write ends.                      *)
EveryWriteEnds == \A w \in Writers : <>(pc[w] = "over")
=============================================================================
