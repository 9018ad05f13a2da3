-------------------------- MODULE AuditChainProofs --------------------------
(***************************************************************************)
(* Proofs about AuditChain for any number of writers.  As long as the disk *)
(* has refused no write, no handle has bytes left to write after the       *)
(* unlock, so the file only changes under the flock and what a writer has  *)
(* read of its last line is still true when it writes.  Refused writes may *)
(* fork the chain, but only a write cut short mixes two lines.             *)
(***************************************************************************)
EXTENDS AuditChain, FiniteSetTheorems, WellFoundedInduction, TLAPS

Holding == {"locked", "buffered", "unlocking"}

WholeLines == \A n \in 1..Len(file) : file[n].part = "whole"

(* An event names its own writer.                                          *)
OwnInv == \A w \in Writers : event[w].by = w

(* The file grows line by line, and a tail is never left to write.         *)
LinesInv == WholeLines /\ \A w \in Writers : buffer[w] # "tail"

(* What a strict caller was told to be written is in the file.             *)
ToldInv ==
  \A w \in Writers : result[w] = "ok" => \E n \in 1..Len(file) : file[n].event.by = w

(* The flock excludes; a buffered event continues the last line.           *)
LockInv ==
  \A w \in Writers :
    /\ pc[w] \in Holding => lock = w
    /\ pc[w] = "buffered" => event[w] = WithHash(w)
    /\ pc[w] # "buffered" => buffer[w] = "empty"

ChainInv == LinesInv /\ LockInv /\ Verified(file)

(* What holds depends on what the disk has done so far.                    *)
IInv ==
  /\ TypeOK /\ OwnInv
  /\ "partial" \notin struck => LinesInv
  /\ struck = {} => ChainInv

USE WriterAssumption, FaultAssumption

-----------------------------------------------------------------------------
(* Facts about pieces, lines and the chain.                                *)

LEMMA PutType ==
  ASSUME TypeOK, NEW w \in Writers, NEW part \in {"whole", "head", "tail"}, Put(w, part)
  PROVE  /\ file' \in Seq(Piece)
         /\ Len(file) \in Nat /\ Len(file') = Len(file) + 1
         /\ file'[Len(file) + 1].event = event[w]
         /\ file'[Len(file) + 1].part = part
         /\ \A n \in 1..Len(file) : file'[n] = file[n]
<1>1. [event |-> event[w], part |-> part] \in Piece
  BY DEF TypeOK, Piece
<1> QED BY <1>1 DEF TypeOK, Put

LEMMA PreviousType ==
  ASSUME TypeOK
  PROVE  PreviousOf(file) \in [hash : Writers \cup {NoOne}, sequence : Nat]
<1>1. file # <<>> => file[Len(file)] \in Piece
  BY DEF TypeOK
<1> QED BY <1>1 DEF PreviousOf, Piece, Event

LEMMA WholeIsReadable ==
  ASSUME TypeOK, WholeLines, NEW n \in 1..Len(file)
  PROVE  EndsLine(file[n]) /\ Start(file, n) = n /\ Readable(file, n)
<1>1. EndsLine(file[n]) /\ Start(file, n) = n
  BY DEF WholeLines, EndsLine, Start
<1>2. n > 1 => n - 1 \in 1..Len(file) /\ EndsLine(file[n - 1])
  BY DEF WholeLines, EndsLine, TypeOK
<1> QED BY <1>1, <1>2 DEF Readable, WholeLines

(* In a file of whole lines the chain is a condition on neighbours.        *)
Link(f, n) ==
  /\ f[n].event.previous = IF n = 1 THEN NoOne ELSE f[n - 1].event.by
  /\ f[n].event.sequence = IF n = 1 THEN 1 ELSE f[n - 1].event.sequence + 1

LEMMA ChainIsLinks ==
  ASSUME TypeOK, WholeLines
  PROVE  Verified(file) <=> \A n \in 1..Len(file) : Link(file, n)
<1>1. file # <<>> => Len(file) \in 1..Len(file)
  BY DEF TypeOK
<1> QED BY <1>1, WholeIsReadable DEF Verified, Link

-----------------------------------------------------------------------------
(* Type correctness.                                                       *)

LEMMA InitType == Init => TypeOK
<1> SUFFICES ASSUME Init PROVE TypeOK
  OBVIOUS
<1>1. file \in Seq(Piece)
  BY DEF Init
<1>2. \A w \in Writers : [by |-> w, previous |-> NoOne, sequence |-> 0] \in Event
  BY DEF Event
<1> QED BY <1>1, <1>2 DEF Init, TypeOK

LEMMA NextType == TypeOK /\ [Next]_vars => TypeOK'
<1> SUFFICES ASSUME TypeOK, [Next]_vars PROVE TypeOK'
  OBVIOUS
<1>1. ASSUME NEW w \in Writers, Lock(w) PROVE TypeOK'
  BY <1>1 DEF TypeOK, Lock
<1>2. ASSUME NEW w \in Writers, Fill(w) PROVE TypeOK'
  <2>1. WithHash(w) \in Event
    BY PreviousType DEF WithHash, Event
  <2> QED BY <1>2, <2>1 DEF TypeOK, Fill
<1>3. ASSUME NEW w \in Writers, Flush(w) PROVE TypeOK'
  BY <1>3, PutType DEF TypeOK, Flush
<1>4. ASSUME NEW w \in Writers, FlushFails(w) PROVE TypeOK'
  <2>1. file' \in Seq(Piece)
    BY <1>4, PutType DEF FlushFails, Refuses, CutsShort, FsyncFails, TypeOK
  <2>2. buffer' \in [Writers -> {"empty", "whole", "tail"}] /\ struck' \subseteq Faults
    BY <1>4 DEF FlushFails, Refuses, CutsShort, FsyncFails, TypeOK
  <2> QED BY <1>4, <2>1, <2>2 DEF TypeOK, FlushFails, Told
<1>5. ASSUME NEW w \in Writers, Unlock(w) PROVE TypeOK'
  BY <1>5 DEF TypeOK, Unlock
<1>6. ASSUME NEW w \in Writers, Close(w) PROVE TypeOK'
  <2>1. buffer[w] # "empty" => buffer[w] \in {"whole", "head", "tail"}
    BY DEF TypeOK
  <2>2. file' \in Seq(Piece)
    BY <1>6, <2>1, PutType DEF Close, TypeOK
  <2> QED BY <1>6, <2>2 DEF TypeOK, Close
<1>7. ASSUME NEW w \in Writers, Crash(w) PROVE TypeOK'
  BY <1>7 DEF TypeOK, Crash
<1>8. CASE UNCHANGED vars
  BY <1>8 DEF TypeOK, vars
<1> QED BY <1>1, <1>2, <1>3, <1>4, <1>5, <1>6, <1>7, <1>8 DEF Next, Step

(* Every variable keeps its type, whatever the disk does (the whole        *)
(* module).                                                                *)
THEOREM TypeCorrect == Spec => []TypeOK
BY InitType, NextType, PTL DEF Spec

-----------------------------------------------------------------------------
(* Lines never mix while the disk fails whole writes only.                 *)

LEMMA InitLines == Init => LinesInv
BY DEF Init, LinesInv, WholeLines

LEMMA NextOwn == TypeOK /\ OwnInv /\ [Next]_vars => OwnInv'
BY DEF TypeOK, OwnInv, WithHash, vars, Next, Step, Lock, Fill, Flush, FlushFails, Unlock, Close, Crash

LEMMA StruckGrows == [Next]_vars => struck \subseteq struck'
BY DEF vars, Next, Step, Lock, Fill, Flush, FlushFails, Refuses, CutsShort, FsyncFails,
       Unlock, Close, Crash

LEMMA NextLines ==
  ASSUME "partial" \notin struck', TypeOK, LinesInv, [Next]_vars
  PROVE  LinesInv'
<1>1. ASSUME NEW w \in Writers, Put(w, "whole") PROVE WholeLines'
  <2>1. /\ Len(file) \in Nat /\ Len(file') = Len(file) + 1
        /\ file'[Len(file) + 1].part = "whole"
        /\ \A n \in 1..Len(file) : file'[n] = file[n]
    BY <1>1, PutType
  <2> QED BY <2>1 DEF LinesInv, WholeLines
<1>2. ASSUME NEW w \in Writers, Lock(w) \/ Unlock(w) \/ Crash(w) PROVE LinesInv'
  BY <1>2 DEF LinesInv, WholeLines, TypeOK, Lock, Unlock, Crash
<1>3. ASSUME NEW w \in Writers, Fill(w) PROVE LinesInv'
  BY <1>3 DEF LinesInv, WholeLines, TypeOK, Fill
<1>4. ASSUME NEW w \in Writers, Flush(w) PROVE LinesInv'
  BY <1>1, <1>4 DEF LinesInv, TypeOK, Flush
<1>5. ASSUME NEW w \in Writers, FlushFails(w) PROVE LinesInv'
  BY <1>1, <1>5 DEF LinesInv, WholeLines, TypeOK, FlushFails,
         Refuses, CutsShort, FsyncFails
<1>6. ASSUME NEW w \in Writers, Close(w) PROVE LinesInv'
  <2>1. buffer[w] # "empty" => buffer[w] = "whole"
    BY DEF LinesInv, TypeOK
  <2> QED BY <1>1, <1>6, <2>1 DEF LinesInv, WholeLines, TypeOK, Close
<1>7. CASE UNCHANGED vars
  BY <1>7 DEF LinesInv, WholeLines, vars
<1> QED BY <1>2, <1>3, <1>4, <1>5, <1>6, <1>7 DEF Next, Step

LEMMA NextTold ==
  ASSUME Strict, TypeOK, OwnInv, ToldInv, [Next]_vars
  PROVE  ToldInv'
<1>1. ASSUME NEW w \in Writers, NEW part \in {"whole", "head", "tail"}, Put(w, part)
      PROVE  /\ \A x \in Writers : (\E n \in 1..Len(file) : file[n].event.by = x)
                               => (\E n \in 1..Len(file') : file'[n].event.by = x)
             /\ \E n \in 1..Len(file') : file'[n].event.by = w
  <2>1. /\ Len(file) \in Nat /\ Len(file') = Len(file) + 1
        /\ file'[Len(file) + 1].event = event[w]
        /\ \A n \in 1..Len(file) : file'[n] = file[n]
    BY <1>1, PutType
  <2>2. Len(file) + 1 \in 1..Len(file') /\ 1..Len(file) \subseteq 1..Len(file')
    BY <2>1
  <2>3. event[w].by = w
    BY DEF OwnInv
  <2> QED BY <2>1, <2>2, <2>3
<1>2. ASSUME NEW w \in Writers, Lock(w) \/ Fill(w) \/ Unlock(w) \/ Crash(w) PROVE ToldInv'
  BY <1>2 DEF ToldInv, Lock, Fill, Unlock, Crash
<1>3. ASSUME NEW w \in Writers, Flush(w) PROVE ToldInv'
  BY <1>1, <1>3 DEF ToldInv, TypeOK, Flush
<1>4. ASSUME NEW w \in Writers, FlushFails(w) PROVE ToldInv'
  <2>1. result' = [result EXCEPT ![w] = "failed"]
    BY <1>4 DEF FlushFails, Told
  <2>2. file' = file \/ \E part \in {"whole", "head", "tail"} : Put(w, part)
    BY <1>4 DEF FlushFails, Refuses, CutsShort, FsyncFails
  <2> QED BY <1>1, <2>1, <2>2 DEF ToldInv, TypeOK
<1>5. ASSUME NEW w \in Writers, Close(w) PROVE ToldInv'
  <2>1. buffer[w] # "empty" => buffer[w] \in {"whole", "head", "tail"}
    BY DEF TypeOK
  <2> QED BY <1>1, <1>5, <2>1 DEF ToldInv, Close
<1>6. CASE UNCHANGED vars
  BY <1>6 DEF ToldInv, vars
<1> QED BY <1>2, <1>3, <1>4, <1>5, <1>6 DEF Next, Step

-----------------------------------------------------------------------------
(* A disk that takes what it is given keeps the chain whole.               *)

LEMMA PutExtendsChain ==
  ASSUME TypeOK, LinesInv, Verified(file), NEW w \in Writers, event[w] = WithHash(w),
         Put(w, "whole"), TypeOK', WholeLines'
  PROVE  Verified(file)'
<1> DEFINE l == Len(file)
<1>1. \A n \in 1..l : Link(file, n)
  BY ChainIsLinks DEF LinesInv
<1>2. /\ l \in Nat /\ Len(file') = l + 1
      /\ file'[l + 1].event = WithHash(w)
      /\ \A n \in 1..l : file'[n] = file[n]
  BY PutType
<1>3. PreviousOf(file) = IF l = 0 THEN [hash |-> NoOne, sequence |-> 0]
                         ELSE [hash |-> file[l].event.by, sequence |-> file[l].event.sequence]
  <2>1. file = <<>> <=> l = 0
    BY DEF TypeOK
  <2>2. l # 0 => Readable(file, l)
    BY <1>2, WholeIsReadable DEF LinesInv
  <2> QED BY <2>1, <2>2 DEF PreviousOf
<1> HIDE DEF l
<1>4. ASSUME NEW n \in 1..l+1 PROVE Link(file', n)
  <2>1. CASE n \in 1..l
    <3>1. n # 1 => n - 1 \in 1..l
      BY <1>2, <2>1
    <3> QED BY <1>1, <1>2, <2>1, <3>1 DEF Link
  <2>2. CASE n = l + 1
    <3>1. l # 0 => file'[l] = file[l] /\ n - 1 = l /\ n # 1
      BY <1>2, <2>2
    <3>2. l = 0 <=> n = 1
      BY <1>2, <2>2
    <3> QED BY <1>2, <1>3, <2>2, <3>1, <3>2 DEF Link, WithHash
  <2> QED BY <1>2, <2>1, <2>2
<1>5. \A n \in 1..Len(file') : Link(file', n)
  BY <1>2, <1>4
<1>6. (TypeOK /\ WholeLines => (Verified(file) <=> \A n \in 1..Len(file) : Link(file, n)))'
  BY ChainIsLinks, PTL
<1> QED BY <1>5, <1>6

LEMMA InitChain == Init => ChainInv
<1> SUFFICES ASSUME Init PROVE ChainInv
  OBVIOUS
<1>1. Verified(file)
  BY DEF Init, Verified
<1> QED BY <1>1, InitLines DEF ChainInv, LockInv, Holding, Init

LEMMA NextChain ==
  ASSUME struck' = {}, TypeOK, ChainInv, [Next]_vars, TypeOK', LinesInv'
  PROVE  ChainInv'
<1> USE DEF ChainInv
<1>1. ASSUME file' = file PROVE Verified(file)' /\ \A w \in Writers : WithHash(w)' = WithHash(w)
  BY <1>1 DEF Verified, WithHash, PreviousOf, Readable, Start, EndsLine
<1>2. ASSUME NEW w \in Writers, Lock(w) PROVE ChainInv'
  BY <1>1, <1>2 DEF LockInv, Holding, TypeOK, Lock
<1>3. ASSUME NEW w \in Writers, Fill(w) PROVE ChainInv'
  BY <1>1, <1>3 DEF LockInv, Holding, TypeOK, Fill
<1>4. ASSUME NEW w \in Writers, Flush(w) PROVE ChainInv'
  <2>1. Verified(file)'
    BY <1>4, PutExtendsChain DEF LockInv, LinesInv, Flush
  <2>2. LockInv'
    BY <1>4 DEF LockInv, Holding, TypeOK, Flush
  <2> QED BY <2>1, <2>2
<1>5. ASSUME NEW w \in Writers, FlushFails(w) PROVE ChainInv'
  <2>1. Verified(file)'
    BY <1>5, PutExtendsChain DEF LockInv, LinesInv, FlushFails, Refuses, CutsShort, FsyncFails
  <2>2. LockInv'
    BY <1>5 DEF LockInv, Holding, TypeOK, FlushFails, Refuses, CutsShort, FsyncFails
  <2> QED BY <2>1, <2>2
<1>6. ASSUME NEW w \in Writers, Unlock(w) PROVE ChainInv'
  BY <1>1, <1>6 DEF LockInv, Holding, TypeOK, Unlock
<1>7. ASSUME NEW w \in Writers, Close(w) PROVE ChainInv'
  <2>1. file' = file
    BY <1>7 DEF LockInv, Close
  <2> QED BY <1>1, <1>7, <2>1 DEF LockInv, Holding, TypeOK, Close
<1>8. ASSUME NEW w \in Writers, Crash(w) PROVE ChainInv'
  BY <1>1, <1>8 DEF LockInv, Holding, TypeOK, Crash
<1>9. CASE UNCHANGED vars
  BY <1>1, <1>9 DEF LockInv, Holding, vars
<1> QED BY <1>2, <1>3, <1>4, <1>5, <1>6, <1>7, <1>8, <1>9 DEF Next, Step

-----------------------------------------------------------------------------
(* The invariant.                                                          *)

LEMMA InitInvariant == Init => IInv
BY InitType, InitLines, InitChain DEF IInv, OwnInv, Init

LEMMA NextInvariant == IInv /\ [Next]_vars => IInv'
<1> SUFFICES ASSUME IInv, [Next]_vars PROVE IInv'
  OBVIOUS
<1>1. TypeOK' /\ OwnInv'
  BY NextType, NextOwn DEF IInv
<1>2. ASSUME "partial" \notin struck' PROVE LinesInv'
  BY <1>2, StruckGrows, NextLines DEF IInv
<1>3. ASSUME struck' = {} PROVE ChainInv'
  BY <1>1, <1>2, <1>3, StruckGrows, NextChain DEF IInv
<1> QED BY <1>1, <1>2, <1>3 DEF IInv

(* While the disk takes what it is given the file always verifies, for any *)
(* number of writers and wherever they die (verify_audit_hash_chain).      *)
THEOREM ChainAlwaysVerifies == Spec => []ChainVerifies
<1>1. IInv => ChainVerifies
  BY DEF IInv, ChainInv, ChainVerifies
<1> QED BY <1>1, InitInvariant, NextInvariant, PTL DEF Spec

(* A search that may show one event finds one that has none before it.     *)
LEMMA OldestIsShown ==
  ASSUME NEW h \in SUBSET Nat, h # {}
  PROVE  \E o \in h : {i \in h : i < o} = {}
<1>1. PICK o \in h : \A i \in h : <<i, o>> \notin OpToRel(<, Nat)
  BY WFMin, NatLessThanWellFounded
<1>2. \A i \in h : ~(i < o)
  BY <1>1 DEF OpToRel
<1> QED BY <1>2

(* While the disk fails whole writes only, what a strict caller was told   *)
(* to be on disk is found by a search, for any number of writers (_write   *)
(* and _locked_append with the late write of close, search_audit_events).  *)
THEOREM StrictWritesAreFound ==
  ASSUME Strict
  PROVE  Spec => []WrittenIsFound
<1>1. Init => ToldInv
  BY DEF Init, ToldInv
<1>2. IInv /\ ToldInv /\ [Next]_vars => ToldInv'
  BY NextTold DEF IInv
<1>3. ASSUME IInv, ToldInv, "partial" \notin struck, NEW w \in Writers, result[w] = "ok"
      PROVE  Search(file, {w}, 1) # {}
  <2> DEFINE h == Hits(file, {w})
  <2>1. WholeLines
    BY <1>3 DEF IInv, LinesInv
  <2>2. Searchable(file)
    <3>1. file # <<>> => Len(file) \in 1..Len(file)
      BY <1>3 DEF IInv, TypeOK
    <3> QED BY <1>3, <2>1, <3>1, WholeIsReadable DEF Searchable, IInv
  <2>3. PICK n \in 1..Len(file) : file[n].event.by = w
    BY <1>3 DEF ToldInv
  <2>4. n \in h
    BY <1>3, <2>1, <2>3, WholeIsReadable DEF Hits, IInv
  <2>5. h \in SUBSET Nat
    BY <1>3 DEF Hits, IInv, TypeOK
  <2> HIDE DEF h
  <2>6. PICK o \in h : {i \in h : i < o} = {}
    BY <2>4, <2>5, OldestIsShown
  <2>7. Cardinality({}) = 0
    BY FS_EmptySet
  <2>8. Cardinality({i \in h : i < o}) = 0
    BY <2>6, <2>7
  <2>9. o \in {m \in h : Cardinality({i \in h : i < m}) < 1}
    BY <2>8
  <2> QED BY <2>2, <2>9 DEF Search, h
<1>4. IInv /\ ToldInv => WrittenIsFound
  BY <1>3 DEF WrittenIsFound
<1> QED BY <1>1, <1>2, <1>4, InitInvariant, NextInvariant, PTL DEF Spec
=============================================================================
