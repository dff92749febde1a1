------------------------------ MODULE MtCoderProofs ------------------------------
(***************************************************************************)
(* Proofs about MtCoder, for any number of threads, blocks of the ring,    *)
(* output buffers, calls and faults: one thread at a time is inside each   *)
(* callback, no buffer is used twice, and the threads together code as     *)
(* module OrderedBlocks promises.                                          *)
(***************************************************************************)
EXTENDS MtCoder, FiniteSetTheorems, TLAPS

(* The inductive invariant. A call begins only when no thread is held up   *)
(* between its count and the return (~Dawdles).                            *)

\* Threads that take no part, and those that do or have been told to
Quiet  == {"none", "parked", "count", "exited"}
Active == {t \in Threads : \/ threads[t].pc \notin Quiet
                           \/ threads[t].pc = "parked" /\ t \in startEvent}

\* What the threads do while the caller is where it is
CallInv ==
  /\ \A t \in Threads : threads[t].pc \in {"none", "parked"} => threads[t].res = "ok"
  /\ caller.pc \in {"idle", "props", "init", "start", "wait"} => caller.res = "ok"
  /\ caller.pc \in {"idle", "props", "init", "start"} =>
       /\ startEvent = {}
       /\ \A t \in Threads : threads[t].pc \in {"none", "parked", "count"} /\ ~threads[t].stop
  /\ caller.pc \in {"props", "init", "start"} => \A t \in Threads : threads[t].pc # "count"
  /\ caller.pc = "start" => ~finishedEvent /\ ~readEvent /\ numFinishedThreads = 0
  /\ caller.pc = "wait" =>
       /\ \A t \in Threads :
            /\ ~threads[t].stop /\ threads[t].pc # "exited"
            /\ t \in startEvent => threads[t].pc = "parked"
            /\ t >= numStartedThreads => threads[t].pc \in {"none", "parked"} /\ t \notin startEvent
            /\ threads[t].pc = "count" => threads[t].n <= numFinishedThreads
       /\ numFinishedThreads + Cardinality(Active) = numStartedThreads
       /\ numStartedThreads >= 1
       /\ finishedEvent => Active = {}
  /\ caller.pc \in {"free", "join", "failed"} =>
       /\ caller.res \in troubles
       /\ \A t \in Threads : threads[t].pc \in Quiet /\ (t \in startEvent => threads[t].stop)
  /\ caller.pc = "join" => caller.i < NumThreads

\* readEvent is a lock
Reader(t) == threads[t].pc \in {"reading", "take"}
LockInv ==
  /\ \A t, u \in Threads : Reader(t) /\ Reader(u) => t = u
  /\ \A t \in Threads : Reader(t) => ~readEvent

\* The ring: the blocks in flight follow each other from the oldest one
Own(t)       == threads[t].pc \in {"buffer", "code", "publish"}
Writer(t)    == threads[t].pc \in {"write", "release", "next"}
Unsignalled  == {t \in Threads : threads[t].pc \in {"next", "last"}}
IsOldest(b)  == b = writeIndex \/ \E t \in Threads : Writer(t) /\ threads[t].wi = b
InFlight     == NumBlocks - blocksSemaphore - Cardinality(Unsignalled)
Dist(a, b)   == IF b >= a THEN b - a ELSE b - a + NumBlocks

WriterInv ==
  /\ \A t, u \in Threads : Writer(t) /\ Writer(u) => t = u
  /\ writeIndex = Nowhere <=> \E t \in Threads : Writer(t)

RingFrom(o) ==
  /\ IF InFlight = NumBlocks THEN blockIndex = o ELSE Dist(o, blockIndex) = InFlight
  /\ \A t \in Threads : Own(t) =>
       /\ Dist(o, threads[t].bi) < InFlight
       /\ writeIndex = Nowhere => threads[t].bi # o
  /\ \A b \in Blocks : ReadyBlocks[b] => Dist(o, b) < InFlight /\ b # o
  /\ \A b \in Blocks : Dist(o, b) < InFlight =>
       \/ ReadyBlocks[b]
       \/ \E t \in Threads : Own(t) /\ threads[t].bi = b
       \/ b = o /\ writeIndex = Nowhere

RingInv ==
  /\ InFlight \in 0 .. NumBlocks
  /\ writeIndex = Nowhere => InFlight > 0
  /\ \A t \in Threads : Own(t) => ~ReadyBlocks[threads[t].bi]
  /\ \A t, u \in Threads : Own(t) /\ Own(u) /\ threads[t].bi = threads[u].bi => t = u
  /\ \A o \in Blocks : IsOldest(o) => RingFrom(o)

\* The buffers: each is free once, or of one thread or one block that waits
Free == {freeBlocks[k] : k \in 1 .. Len(freeBlocks)}

FreeInv ==
  /\ \A k, l \in 1 .. Len(freeBlocks) : k # l => freeBlocks[k] # freeBlocks[l]
  /\ \A f \in Buffers : \/ f \in Free
                        \/ \E t \in Holders : threads[t].buf = f
                        \/ \E b \in Waiting : blocks[b].buf = f

ApartInv ==
  /\ \A t, u \in Holders : t # u => threads[t].buf # threads[u].buf
  /\ \A b, c \in Waiting : b # c => blocks[b].buf # blocks[c].buf
  /\ \A t \in Holders : /\ threads[t].buf \notin Free
                        /\ \A b \in Waiting : threads[t].buf # blocks[b].buf
  /\ \A b \in Waiting : blocks[b].buf \notin Free

\* The errors of a call are kept until it returns
Running == caller.pc \in {"start", "wait"}
Queued(b) == ReadyBlocks[b] \/ \E t \in Threads : threads[t].pc = "next" /\ threads[t].wi = b

TroubleInv ==
  /\ caller.pc \in {"props", "init", "start"} => troubles = {} /\ written = <<>>
  /\ Running =>
     /\ progressRes = "ok" <=> troubles = {}
     /\ \A res \in {readRes, writeRes, progressRes} : res # "ok" => res \in troubles
     /\ \A t \in Threads : threads[t].pc \notin Quiet /\ threads[t].res # "ok" => troubles # {}
     /\ \A b \in Blocks : Queued(b) /\ blocks[b].res # "ok" => troubles # {}

\* Reading ends with the short block
ReadInv ==
  Running =>
    /\ \/ stopReading
       \/ readProcessed <= input
       \/ \E t \in Threads : threads[t].pc = "take" /\ threads[t].finished
    /\ \A t \in Threads :
         /\ threads[t].pc = "reading" => ~stopReading /\ readProcessed <= input
                                         /\ threads[t].res = "ok"
         /\ threads[t].pc = "take" => ~stopReading
         /\ threads[t].pc = "take" /\ threads[t].res = "ok" => threads[t].blk \in 1 .. input + 1
         /\ Own(t) /\ threads[t].res = "ok" => threads[t].blk \in 1 .. input + 1

\* What is coded is a block of the input
CodedInv ==
  Running =>
    /\ \A t \in Threads :
         LET th == threads[t] IN
         /\ th.pc = "buffer" => th.res = "ok" /\ th.buf = Nowhere
         /\ th.pc = "code" => th.res = "ok" /\ th.buf # Nowhere
         /\ th.pc = "publish" /\ th.res = "ok" => th.buf # Nowhere /\ outBufs[th.buf] = th.blk
         /\ th.pc = "write" => th.res = "ok" /\ th.buf # Nowhere
                               /\ outBufs[th.buf] \in 1 .. input + 1
    /\ \A b \in Blocks : Queued(b) /\ blocks[b].res = "ok" =>
         blocks[b].buf # Nowhere /\ outBufs[blocks[b].buf] \in 1 .. input + 1

\* As long as nothing goes wrong, the blocks in flight are those after the ones
\* written, in their order
Base == IF \E t \in Threads : threads[t].pc = "release" THEN Len(written) - 1 ELSE Len(written)

OrderFrom(o) ==
  /\ \A t \in Threads : Own(t) => threads[t].blk = Base + 1 + Dist(o, threads[t].bi)
  /\ \A b \in Blocks : Queued(b) => outBufs[blocks[b].buf] = Base + 1 + Dist(o, b)

OrderOf(u) ==
  LET th == threads[u] IN
  /\ th.pc = "write" => outBufs[th.buf] = Base + 1
  /\ th.pc = "take" => th.blk = readProcessed /\ (th.finished <=> th.blk = input + 1)
  /\ th.pc \in {"buffer", "code", "publish", "write", "release", "next", "last"} /\ th.finished
       => stopReading
  /\ th.pc \in {"done", "count"} => stopReading

Took == IF \E t \in Threads : threads[t].pc = "take" THEN 1 ELSE 0

OrderInv ==
  Running /\ troubles = {} =>
    /\ \A o \in Blocks : IsOldest(o) => OrderFrom(o)
    /\ \A t \in Threads : OrderOf(t)
    /\ \A b \in Blocks : Queued(b) /\ blocks[b].finished => stopReading
    /\ readProcessed = Base + InFlight + Took
    /\ stopReading => readProcessed = input + 1
    /\ numFinishedThreads > 0 => stopReading

CoderInv == /\ TypeOK /\ CallInv /\ LockInv /\ WriterInv /\ RingInv /\ FreeInv /\ ApartInv
            /\ TroubleInv /\ ReadInv /\ CodedInv /\ OrderInv
-------------------------------------------------------------------------------
(* The types                                                               *)

ThreadPcs  == {"none", "parked", "read", "reading", "take", "buffer", "code", "publish",
               "write", "release", "next", "last", "done", "count", "exited"}
Results    == {"ok"} \union Errors
ThreadType == [pc : ThreadPcs, stop : BOOLEAN, blk : 0 .. MaxInput + 1, bi : Blocks,
               buf : Buffers \union {Nowhere}, res : Results, finished : BOOLEAN,
               wi : Blocks, n : 0 .. NumThreads]
BlockType  == [res : Results, buf : Buffers \union {Nowhere}, finished : BOOLEAN]
CallerPcs  == {"idle", "props", "init", "start", "wait", "free", "join", "failed"}

\* The types of all but the caller, the threads and the blocks
PlainTypes ==
  /\ startEvent \subseteq Threads
  /\ readEvent \in BOOLEAN /\ finishedEvent \in BOOLEAN
  /\ blocksSemaphore \in 0 .. NumBlocks
  /\ stopReading \in BOOLEAN
  /\ readProcessed \in 0 .. MaxInput + 1
  /\ blockIndex \in Blocks
  /\ numStartedThreads \in 0 .. NumThreads
  /\ writeIndex \in Blocks \union {Nowhere}
  /\ ReadyBlocks \in [Blocks -> BOOLEAN]
  /\ freeBlocks \in Seq(Buffers)
  /\ numFinishedThreads \in 0 .. NumThreads
  /\ readRes \in Results /\ writeRes \in Results /\ progressRes \in Results
  /\ outBufs \in [Buffers -> 0 .. MaxInput + 1]
  /\ input \in 0 .. MaxInput
  /\ written \in Seq(1 .. MaxInput + 1)
  /\ troubles \subseteq Errors
  /\ faults \in 0 .. MaxFaults

\* The constants
LEMMA Sizes ==
    /\ NumThreads \in Nat /\ NumThreads > 0 /\ NumBlocks \in Nat /\ NumBlocks > 0
    /\ NumBuffers \in Nat /\ NumBuffers >= NumBlocks
    /\ MaxInput \in Nat /\ MaxCodes \in Nat /\ MaxFaults \in Nat
    /\ Nowhere \notin Blocks /\ Nowhere \notin Buffers /\ "ok" \notin Errors
    /\ 0 \in Threads /\ 0 \in Blocks
  BY SizesAssumption DEF Nowhere, Blocks, Buffers, Errors, Threads

\* The threads and the blocks of the ring, record by record
LEMMA Records ==
    ASSUME TypeOK
    PROVE  /\ threads \in [Threads -> ThreadType] /\ blocks \in [Blocks -> BlockType]
           /\ \A t \in Threads :
                /\ threads[t] \in ThreadType
                /\ threads[t].pc \in ThreadPcs /\ threads[t].stop \in BOOLEAN
                /\ threads[t].blk \in 0 .. MaxInput + 1 /\ threads[t].bi \in Blocks
                /\ threads[t].buf \in Buffers \union {Nowhere} /\ threads[t].res \in Results
                /\ threads[t].finished \in BOOLEAN /\ threads[t].wi \in Blocks
                /\ threads[t].n \in 0 .. NumThreads
           /\ \A b \in Blocks :
                /\ blocks[b] \in BlockType
                /\ blocks[b].res \in Results /\ blocks[b].finished \in BOOLEAN
                /\ blocks[b].buf \in Buffers \union {Nowhere}
<1>1. threads \in [Threads -> ThreadType] /\ blocks \in [Blocks -> BlockType]
  BY DEF TypeOK, ThreadType, ThreadPcs, Results, BlockType
<1>2. ASSUME NEW t \in Threads
      PROVE  /\ threads[t] \in ThreadType
             /\ threads[t].pc \in ThreadPcs /\ threads[t].stop \in BOOLEAN
             /\ threads[t].blk \in 0 .. MaxInput + 1 /\ threads[t].bi \in Blocks
             /\ threads[t].buf \in Buffers \union {Nowhere} /\ threads[t].res \in Results
             /\ threads[t].finished \in BOOLEAN /\ threads[t].wi \in Blocks
             /\ threads[t].n \in 0 .. NumThreads
  <2>1. threads[t] \in ThreadType
    BY <1>1
  <2>. QED
    BY <2>1 DEF ThreadType
<1>3. ASSUME NEW b \in Blocks
      PROVE  /\ blocks[b] \in BlockType
             /\ blocks[b].res \in Results /\ blocks[b].finished \in BOOLEAN
             /\ blocks[b].buf \in Buffers \union {Nowhere}
  <2>1. blocks[b] \in BlockType
    BY <1>1
  <2>. QED
    BY <2>1 DEF BlockType
<1>. QED
  BY <1>1, <1>2, <1>3

\* A thread that has just been created has no block and no buffer.
LEMMA NewThreads ==
    /\ NewThread \in ThreadType /\ NewThread.res = "ok" /\ NewThread.buf = Nowhere
    /\ NewThread.finished = FALSE /\ NewThread.n = 0
<1>1. 0 \in 0 .. MaxInput + 1 /\ 0 \in 0 .. NumThreads /\ 0 \in Blocks
  BY Sizes
<1>. QED
  BY <1>1 DEF NewThread, ThreadType, ThreadPcs, Results

\* The types with names for the records
LEMMA TypedRecords ==
    /\ TypeOK <=> /\ caller \in [pc : CallerPcs, codes : 0 .. MaxCodes, i : 0 .. NumThreads,
                                 res : Results]
                  /\ threads \in [Threads -> ThreadType] /\ blocks \in [Blocks -> BlockType]
                  /\ PlainTypes
    /\ TypeOK' <=> /\ caller' \in [pc : CallerPcs, codes : 0 .. MaxCodes, i : 0 .. NumThreads,
                                   res : Results]
                   /\ threads' \in [Threads -> ThreadType] /\ blocks' \in [Blocks -> BlockType]
                   /\ PlainTypes'
  BY DEF TypeOK, PlainTypes, CallerPcs, ThreadType, ThreadPcs, Results, BlockType

-------------------------------------------------------------------------------
(* The ring: distances, and the step from a block to the following one     *)

\* The block after a block of the ring is one of the ring.
LEMMA FollowingBlock ==
    ASSUME NEW b \in Blocks
    PROVE  /\ Following(b) \in Blocks
           /\ b + 1 < NumBlocks => Following(b) = b + 1
           /\ b + 1 = NumBlocks => Following(b) = 0
<1>1. b \in Nat /\ b < NumBlocks /\ NumBlocks \in Nat /\ NumBlocks > 0
  BY Sizes DEF Blocks
<1>2. CASE b + 1 < NumBlocks
  BY <1>1, <1>2 DEF Following, Blocks
<1>3. CASE b + 1 = NumBlocks
  <2>1. (b + 1) % NumBlocks = 0
    BY <1>1, <1>3
  <2>. QED
    BY <2>1, <1>1, <1>3 DEF Following, Blocks
<1>. QED
  BY <1>1, <1>2, <1>3

\* How far a block is ahead of another in the ring.
LEMMA Distances ==
    ASSUME NEW o \in Blocks, NEW b \in Blocks
    PROVE  /\ Dist(o, b) \in Blocks /\ Dist(o, o) = 0
           /\ \A c \in Blocks : Dist(o, b) = Dist(o, c) => b = c
           /\ Dist(o, b) = 0 => b = o
           /\ b # o => Dist(Following(o), b) = Dist(o, b) - 1
           /\ Dist(Following(o), o) = NumBlocks - 1
           /\ Dist(o, b) + 1 < NumBlocks => Dist(o, Following(b)) = Dist(o, b) + 1
           /\ Dist(o, b) + 1 = NumBlocks => Following(b) = o
  BY FollowingBlock, Sizes DEF Dist, Blocks

(* The sets of threads                                                     *)

\* The sets of threads that the invariant counts are finite.
LEMMA ThreadSets ==
    /\ IsFiniteSet(Threads)
    /\ IsFiniteSet(Active) /\ Cardinality(Active) \in Nat
    /\ IsFiniteSet(Unsignalled) /\ Cardinality(Unsignalled) \in Nat
<1>1. IsFiniteSet(Threads)
  BY FS_Interval, Sizes DEF Threads
<1>2. Active \in SUBSET Threads /\ Unsignalled \in SUBSET Threads
  BY DEF Active, Unsignalled
<1>3. IsFiniteSet(Active) /\ IsFiniteSet(Unsignalled)
  BY <1>1, <1>2, FS_Subset
<1>. QED
  BY <1>1, <1>3, FS_CardinalityType

\* A thread that codes does so within a call
LEMMA InCall ==
    ASSUME CoderInv, NEW t \in Threads, threads[t].pc \notin Quiet
    PROVE  /\ caller.pc = "wait" /\ Running /\ caller.res = "ok"
           /\ t < numStartedThreads /\ t \in Active /\ t \notin startEvent
           /\ ~threads[t].stop /\ finishedEvent = FALSE
<1>1. caller.pc \in {"idle", "props", "init", "start", "wait", "free", "join", "failed"}
  BY DEF CoderInv, TypeOK
<1>2. caller.pc = "wait"
  BY <1>1 DEF CoderInv, CallInv, Quiet
<1>3. t \in Active
  BY DEF Active
<1>4. finishedEvent = FALSE
  BY <1>2, <1>3 DEF CoderInv, CallInv, TypeOK
<1>5. t < numStartedThreads
  BY <1>2, Sizes DEF CoderInv, CallInv, TypeOK, Quiet, Threads
<1>. QED
  BY <1>2, <1>3, <1>4, <1>5 DEF CoderInv, CallInv, Running, Quiet

\* The numbers that the invariant adds and compares.
LEMMA Numbers ==
    ASSUME CoderInv
    PROVE  /\ readProcessed \in Nat /\ input \in Nat /\ Len(written) \in Nat /\ Base \in Int
           /\ InFlight \in Nat /\ InFlight <= NumBlocks /\ numStartedThreads \in Nat
           /\ numFinishedThreads \in Nat /\ Running \in BOOLEAN
<1>1. /\ readProcessed \in Nat /\ input \in Nat /\ Len(written) \in Nat
      /\ numStartedThreads \in Nat /\ numFinishedThreads \in Nat
  BY Sizes DEF CoderInv, TypeOK
<1>. QED
  BY <1>1, Sizes DEF CoderInv, RingInv, Base, Running

\* There is an oldest block
LEMMA SomeOldest ==
    ASSUME CoderInv
    PROVE  \E o \in Blocks : IsOldest(o) /\ \A p \in Blocks : IsOldest(p) => p = o
<1>1. CASE writeIndex \in Blocks
  <2>1. writeIndex # Nowhere
    BY <1>1, Sizes
  <2>. QED
    BY <1>1, <2>1 DEF CoderInv, WriterInv, IsOldest
<1>2. CASE writeIndex = Nowhere
  <2>1. PICK t \in Threads : Writer(t)
    BY <1>2 DEF CoderInv, WriterInv
  <2>2. threads[t].wi \in Blocks
    BY Records DEF CoderInv
  <2>. QED
    BY <1>2, <2>1, <2>2, Sizes DEF CoderInv, WriterInv, IsOldest
<1>. QED
  BY <1>1, <1>2 DEF CoderInv, TypeOK

-------------------------------------------------------------------------------
(* What a step keeps that does not touch the ring, or the buffers          *)

\* RingInv is kept by a step that moves no thread into, in or out of the ring.
LEMMA RingKept ==
    ASSUME CoderInv, UNCHANGED <<writeIndex, ReadyBlocks, blocksSemaphore, blockIndex>>,
           \A u \in Threads :
              /\ Own(u)' <=> Own(u)
              /\ Own(u) => threads'[u].bi = threads[u].bi
              /\ Writer(u)' <=> Writer(u)
              /\ Writer(u) => threads'[u].wi = threads[u].wi
              /\ threads'[u].pc \in {"next", "last"} <=> threads[u].pc \in {"next", "last"}
    PROVE  /\ \A b : IsOldest(b)' <=> IsOldest(b)
           /\ InFlight' = InFlight
           /\ WriterInv' /\ RingInv'
<1>1. \A b : IsOldest(b)' <=> IsOldest(b)
  BY DEF IsOldest
<1>2. Unsignalled' = Unsignalled
  BY DEF Unsignalled
<1>3. InFlight' = InFlight
  BY <1>2 DEF InFlight
<1>4. WriterInv'
  BY DEF CoderInv, WriterInv
<1>5. ASSUME NEW o \in Blocks, IsOldest(o)'
      PROVE  RingFrom(o)'
  <2>1. RingFrom(o)
    BY <1>1, <1>5 DEF CoderInv, RingInv
  <2>. QED
    BY <2>1, <1>3 DEF RingFrom
<1>6. RingInv'
  BY <1>3, <1>5 DEF CoderInv, RingInv
<1>. QED
  BY <1>1, <1>3, <1>4, <1>6

Holds(u) == threads[u].buf # Nowhere /\ threads[u].pc \in {"code", "publish", "write", "release"}
Next2(u) == threads[u].pc = "next"

\* BufferInv is kept by a step in which the same threads hold the same buffers.
LEMMA BuffersKept ==
    ASSUME CoderInv, UNCHANGED <<ReadyBlocks, blocks, freeBlocks>>,
           \A u \in Threads :
              /\ Holds(u)' <=> Holds(u)
              /\ Holds(u) => threads'[u].buf = threads[u].buf
              /\ threads'[u].pc = "next" <=> threads[u].pc = "next"
              /\ threads[u].pc = "next" => threads'[u].wi = threads[u].wi
    PROVE  /\ Holders' = Holders /\ Waiting' = Waiting
           /\ \A b : Queued(b)' <=> Queued(b)
           /\ FreeInv' /\ ApartInv'
<1>1. Holders' = Holders
  BY DEF Holders, Holds
<1>2. \A b : Queued(b)' <=> Queued(b)
  BY DEF Queued
<1>3. Waiting' = Waiting
  BY DEF Waiting
<1>4. Free' = Free
  BY DEF Free
<1>5. FreeInv'
  <2>1. \A u \in Holders : threads'[u].buf = threads[u].buf
    BY DEF Holders, Holds
  <2>. QED
    BY <1>1, <1>3, <1>4, <2>1 DEF CoderInv, FreeInv
<1>6. ApartInv'
  <2>1. \A u \in Holders : threads'[u].buf = threads[u].buf
    BY DEF Holders, Holds
  <2>. QED
    BY <1>1, <1>3, <1>4, <2>1 DEF CoderInv, ApartInv
<1>. QED
  BY <1>1, <1>2, <1>3, <1>5, <1>6

\* The fields of the caller.
LEMMA CallerTypes ==
    ASSUME TypeOK
    PROVE  /\ caller \in [pc : CallerPcs, codes : 0 .. MaxCodes, i : 0 .. NumThreads, res : Results]
           /\ caller.pc \in CallerPcs /\ caller.codes \in Nat /\ caller.codes <= MaxCodes
           /\ caller.i \in Nat /\ caller.i <= NumThreads /\ caller.res \in Results
<1>1. caller \in [pc : CallerPcs, codes : 0 .. MaxCodes, i : 0 .. NumThreads, res : Results]
  BY DEF TypeOK, CallerPcs, Results
<1>. QED
  BY <1>1, Sizes

\* A thread that is started waits for its event
LEMMA StartedThread ==
    ASSUME NEW th \in [Threads -> ThreadType], NEW n \in Threads,
           th[n].pc \in {"none", "parked"}
    PROVE  /\ CreateAndStart(th, n) \in [Threads -> ThreadType]
           /\ CreateAndStart(th, n)[n].pc = "parked" /\ ~CreateAndStart(th, n)[n].stop
           /\ CreateAndStart(th, n)[n].res = th[n].res
           /\ \A u \in Threads : u # n => CreateAndStart(th, n)[u] = th[u]
<1>. DEFINE r == [th[n] EXCEPT !.stop = FALSE, !.pc = IF @ = "none" THEN "parked" ELSE @]
<1>1. CreateAndStart(th, n) = [th EXCEPT ![n] = r]
  BY DEF CreateAndStart
<1>2. r \in ThreadType /\ r.pc = "parked" /\ ~r.stop /\ r.res = th[n].res
  <2>1. th[n] \in ThreadType
    OBVIOUS
  <2>. QED
    BY <2>1 DEF ThreadType, ThreadPcs
<1>. HIDE DEF r
<1>. QED
  BY <1>1, <1>2

-------------------------------------------------------------------------------
(* The buffers: taking one from the list and giving it back                *)

\* The first element of a sequence, and the sequence without it.
LEMMA HeadAndTail ==
    ASSUME NEW S, NEW s \in Seq(S), s # <<>>
    PROVE  /\ Len(s) \in Nat /\ Len(s) >= 1 /\ Head(s) = s[1] /\ Head(s) \in S
           /\ Tail(s) \in Seq(S) /\ Len(Tail(s)) = Len(s) - 1
           /\ \A k \in 1 .. Len(s) - 1 : Tail(s)[k] = s[k + 1]
  OBVIOUS

\* A sequence with an element put in front.
LEMMA InFront ==
    ASSUME NEW S, NEW s \in Seq(S), NEW x \in S
    PROVE  /\ <<x>> \o s \in Seq(S) /\ Len(<<x>> \o s) = Len(s) + 1 /\ (<<x>> \o s)[1] = x
           /\ \A k \in 1 .. Len(s) : (<<x>> \o s)[k + 1] = s[k]
  OBVIOUS

\* Taking the first buffer of the free list.
LEMMA FirstFree ==
    ASSUME CoderInv, freeBlocks # <<>>, freeBlocks' = Tail(freeBlocks)
    PROVE  /\ Head(freeBlocks) \in Buffers /\ freeBlocks' \in Seq(Buffers)
           /\ Head(freeBlocks) \in Free /\ Free' = Free \ {Head(freeBlocks)}
           /\ \A k, l \in 1 .. Len(freeBlocks') : k # l => freeBlocks'[k] # freeBlocks'[l]
<1>1. /\ Len(freeBlocks) \in Nat /\ Len(freeBlocks) >= 1 /\ Head(freeBlocks) = freeBlocks[1]
      /\ Head(freeBlocks) \in Buffers
      /\ freeBlocks' \in Seq(Buffers) /\ Len(freeBlocks') = Len(freeBlocks) - 1
      /\ \A k \in 1 .. Len(freeBlocks) - 1 : freeBlocks'[k] = freeBlocks[k + 1]
  BY HeadAndTail DEF CoderInv, TypeOK
<1>2. \A k, l \in 1 .. Len(freeBlocks) : k # l => freeBlocks[k] # freeBlocks[l]
  BY DEF CoderInv, FreeInv
<1>3. Head(freeBlocks) \in Free
  BY <1>1 DEF Free
<1>4. ASSUME NEW k \in 1 .. Len(freeBlocks')
      PROVE  freeBlocks'[k] \in Free \ {Head(freeBlocks)}
  <2>1. k + 1 \in 1 .. Len(freeBlocks) /\ k + 1 # 1 /\ freeBlocks'[k] = freeBlocks[k + 1]
    BY <1>1
  <2>. QED
    BY <2>1, <1>1, <1>2 DEF Free
<1>5. ASSUME NEW f \in Free, f # Head(freeBlocks)
      PROVE  \E k \in 1 .. Len(freeBlocks') : freeBlocks'[k] = f
  <2>1. PICK l \in 1 .. Len(freeBlocks) : freeBlocks[l] = f
    BY DEF Free
  <2>2. l - 1 \in 1 .. Len(freeBlocks') /\ freeBlocks'[l - 1] = f
    BY <1>1, <1>5, <2>1
  <2>. QED
    BY <2>2
<1>6. Free' = Free \ {Head(freeBlocks)}
  BY <1>4, <1>5 DEF Free
<1>7. \A k, l \in 1 .. Len(freeBlocks') : k # l => freeBlocks'[k] # freeBlocks'[l]
  BY <1>1, <1>2
<1>. QED
  BY <1>1, <1>3, <1>6, <1>7

\* Putting a buffer in front of the free list.
LEMMA GivenBack ==
    ASSUME CoderInv, NEW f \in Buffers, f \notin Free, freeBlocks' = <<f>> \o freeBlocks
    PROVE  /\ freeBlocks' \in Seq(Buffers) /\ Free' = Free \union {f}
           /\ \A k, l \in 1 .. Len(freeBlocks') : k # l => freeBlocks'[k] # freeBlocks'[l]
<1>1. /\ freeBlocks' \in Seq(Buffers) /\ Len(freeBlocks') = Len(freeBlocks) + 1
      /\ freeBlocks'[1] = f /\ Len(freeBlocks) \in Nat
      /\ \A k \in 1 .. Len(freeBlocks) : freeBlocks'[k + 1] = freeBlocks[k]
  BY InFront DEF CoderInv, TypeOK
<1>2. \A k, l \in 1 .. Len(freeBlocks) : k # l => freeBlocks[k] # freeBlocks[l]
  BY DEF CoderInv, FreeInv
<1>3. ASSUME NEW k \in 1 .. Len(freeBlocks'), k # 1
      PROVE  k - 1 \in 1 .. Len(freeBlocks) /\ freeBlocks'[k] = freeBlocks[k - 1]
  <2>1. k - 1 \in 1 .. Len(freeBlocks) /\ (k - 1) + 1 = k
    BY <1>1, <1>3
  <2>. QED
    BY <2>1, <1>1
<1>4. \A k \in 1 .. Len(freeBlocks) : k + 1 \in 1 .. Len(freeBlocks') /\ 1 \in 1 .. Len(freeBlocks')
  BY <1>1
<1>5. 1 \in 1 .. Len(freeBlocks')
  BY <1>1
<1>6. Free' = Free \union {f}
  BY <1>1, <1>3, <1>4, <1>5 DEF Free
<1>7. ASSUME NEW k \in 1 .. Len(freeBlocks'), NEW l \in 1 .. Len(freeBlocks'), k # l
      PROVE  freeBlocks'[k] # freeBlocks'[l]
  <2>1. \A j \in 1 .. Len(freeBlocks) : freeBlocks[j] # f
    BY DEF Free
  <2>2. CASE k # 1 /\ l # 1
    <3>1. /\ k - 1 \in 1 .. Len(freeBlocks) /\ freeBlocks'[k] = freeBlocks[k - 1]
          /\ l - 1 \in 1 .. Len(freeBlocks) /\ freeBlocks'[l] = freeBlocks[l - 1]
      BY <1>3, <2>2
    <3>2. k - 1 # l - 1
      BY <1>1, <1>7
    <3>. QED
      BY <3>1, <3>2, <1>2
  <2>3. CASE k = 1
    BY <2>1, <2>3, <1>1, <1>3, <1>7
  <2>4. CASE l = 1
    BY <2>1, <2>4, <1>1, <1>3, <1>7
  <2>. QED
    BY <2>2, <2>3, <2>4
<1>. QED
  BY <1>1, <1>6, <1>7

\* There is a free buffer for a thread that has got a block of the ring: every
\* buffer that is not free is of another block
LEMMA FreeBuffer ==
    ASSUME CoderInv, NEW t \in Threads, threads[t].pc = "buffer"
    PROVE  freeBlocks # <<>>
<1>. SUFFICES ASSUME freeBlocks = <<>>
              PROVE  FALSE
  OBVIOUS
<1>. DEFINE bi == threads[t].bi
            Others == Blocks \ {bi}
            Of(b, f) == \/ \E u \in Holders : /\ threads[u].buf = f
                                              /\ \/ Own(u) /\ threads[u].bi = b
                                                 \/ Writer(u) /\ threads[u].wi = b
                        \/ b \in Waiting /\ blocks[b].buf = f
            Used == {b \in Others : \E f \in Buffers : Of(b, f)}
            buffer == [b \in Used |-> CHOOSE f \in Buffers : Of(b, f)]
<1>0. /\ Own(t) /\ bi \in Blocks /\ t \notin Holders /\ ~ReadyBlocks[bi]
      /\ \A u \in Threads : u # t /\ Own(u) => threads[u].bi # bi
  BY Records DEF CoderInv, RingInv, Own, Holders
<1>1. \A u \in Threads : Writer(u) => threads[u].wi \in Others
  <2>. SUFFICES ASSUME NEW u \in Threads, Writer(u)
                PROVE  threads[u].wi \in Others
    OBVIOUS
  <2>1. threads[u].wi \in Blocks /\ IsOldest(threads[u].wi) /\ writeIndex = Nowhere
    BY Records DEF CoderInv, IsOldest, WriterInv
  <2>2. RingFrom(threads[u].wi)
    BY <2>1 DEF CoderInv, RingInv
  <2>. QED
    BY <1>0, <2>1, <2>2 DEF RingFrom
<1>2. \A u \in Holders : Own(u) \/ Writer(u)
  BY DEF Holders, Own, Writer
<1>3. Waiting \subseteq Others
  <2>. SUFFICES ASSUME NEW b \in Waiting
                PROVE  b \in Others
    OBVIOUS
  <2>1. b \in Blocks
    BY DEF Waiting
  <2>2. CASE ReadyBlocks[b]
    BY <1>0, <2>1, <2>2
  <2>3. ASSUME NEW u \in Threads, threads[u].pc = "next", threads[u].wi = b
        PROVE  b \in Others
    BY <1>1, <2>3 DEF Writer
  <2>. QED
    BY <2>2, <2>3 DEF Waiting
<1>4. ASSUME NEW f \in Buffers
      PROVE  \E b \in Used : Of(b, f)
  <2>1. f \notin Free
    BY DEF Free
  <2>2. CASE \E u \in Holders : threads[u].buf = f
    <3>1. PICK u \in Holders : threads[u].buf = f
      BY <2>2
    <3>2. u \in Threads /\ u # t
      BY <1>0 DEF Holders
    <3>3. CASE Own(u)
      <4>1. threads[u].bi \in Others
        BY <1>0, <3>2, <3>3, Records DEF CoderInv
      <4>. QED
        BY <3>1, <3>3, <4>1
    <3>4. CASE Writer(u)
      BY <1>1, <3>1, <3>2, <3>4
    <3>. QED
      BY <1>2, <3>1, <3>3, <3>4
  <2>3. CASE \E b \in Waiting : blocks[b].buf = f
    BY <1>3, <2>3
  <2>. QED
    BY <2>1, <2>2, <2>3 DEF CoderInv, FreeInv
<1>5. ASSUME NEW b \in Used, NEW f, NEW g, Of(b, f), Of(b, g)
      PROVE  f = g
  <2>0. b \in Blocks
    OBVIOUS
  <2>1. \A u, v \in Threads : Own(u) /\ Own(v) /\ threads[u].bi = threads[v].bi => u = v
    BY DEF CoderInv, RingInv
  <2>2. \A u, v \in Threads : Writer(u) /\ Writer(v) => u = v
    BY DEF CoderInv, WriterInv
  <2>3. \A u, v \in Threads : Own(u) /\ Writer(v) => threads[u].bi # threads[v].wi
    <3>. SUFFICES ASSUME NEW u \in Threads, NEW v \in Threads, Own(u), Writer(v)
                  PROVE  threads[u].bi # threads[v].wi
      OBVIOUS
    <3>1. threads[v].wi \in Blocks /\ IsOldest(threads[v].wi) /\ writeIndex = Nowhere
      BY Records DEF CoderInv, IsOldest, WriterInv
    <3>. QED
      BY <3>1 DEF CoderInv, RingInv, RingFrom
  <2>4. \A u \in Threads : Own(u) /\ threads[u].bi = b => b \notin Waiting
    BY <2>3 DEF CoderInv, RingInv, Waiting, Writer
  <2>5. \A u \in Holders : Writer(u) /\ threads[u].wi = b => b \notin Waiting
    <3>. SUFFICES ASSUME NEW u \in Holders, Writer(u), threads[u].wi = b, b \in Waiting
                  PROVE  FALSE
      OBVIOUS
    <3>1. u \in Threads /\ threads[u].pc # "next"
      BY DEF Holders
    <3>2. IsOldest(b)
      BY <3>1 DEF IsOldest
    <3>3. ~ReadyBlocks[b]
      BY <2>0, <3>2 DEF CoderInv, RingInv, RingFrom
    <3>4. PICK v \in Threads : threads[v].pc = "next"
      BY <3>3 DEF Waiting
    <3>. QED
      BY <2>2, <3>1, <3>4 DEF Writer
  <2>6. \A u \in Holders : u \in Threads
    BY DEF Holders
  <2>. QED
    BY <1>5, <2>1, <2>2, <2>3, <2>4, <2>5, <2>6
<1>. HIDE DEF Of
<1>6. buffer \in Surjection(Used, Buffers)
  <2>1. \A b \in Used : buffer[b] \in Buffers /\ Of(b, buffer[b])
    OBVIOUS
  <2>2. buffer \in [Used -> Buffers]
    BY <2>1
  <2>3. \A f \in Buffers : \E b \in Used : buffer[b] = f
    BY <1>4, <1>5, <2>1
  <2>. QED
    BY <2>2, <2>3 DEF Surjection
<1>7. IsFiniteSet(Blocks) /\ Cardinality(Blocks) = NumBlocks
  BY FS_Interval, Sizes DEF Blocks
<1>8. IsFiniteSet(Others) /\ Cardinality(Others) = NumBlocks - 1
  BY <1>0, <1>7, FS_RemoveElement
<1>9. IsFiniteSet(Used) /\ Cardinality(Used) <= NumBlocks - 1
  <2>1. Used \in SUBSET Others
    OBVIOUS
  <2>. HIDE DEF Used, Others
  <2>. QED
    BY <1>8, <2>1, FS_Subset
<1>10. Cardinality(Buffers) <= Cardinality(Used)
  <2>. HIDE DEF Used, buffer
  <2>. QED
    BY <1>6, <1>9, FS_Surjection
<1>11. Cardinality(Buffers) = NumBuffers
  BY FS_Interval, Sizes DEF Buffers
<1>12. Cardinality(Used) \in Nat
  <2>. HIDE DEF Used
  <2>. QED
    BY <1>9, FS_CardinalityType
<1>. HIDE DEF Used
<1>. QED
  BY <1>9, <1>10, <1>11, <1>12, Sizes

-------------------------------------------------------------------------------
(* What a step does to the ring and to the buffers                         *)

\* RingInv is kept when a thread takes the next block of the ring.
LEMMA RingGrown ==
    ASSUME CoderInv, NEW t \in Threads, threads[t].pc = "take", blocksSemaphore > 0,
           blocksSemaphore' = blocksSemaphore - 1, blockIndex' = Following(blockIndex),
           UNCHANGED <<writeIndex, ReadyBlocks>>,
           threads'[t].pc \in {"buffer", "publish"}, threads'[t].bi = blockIndex,
           \A u \in Threads : u # t =>
              /\ Own(u)' <=> Own(u)
              /\ Own(u) => threads'[u].bi = threads[u].bi
              /\ Writer(u)' <=> Writer(u)
              /\ Writer(u) => threads'[u].wi = threads[u].wi
              /\ threads'[u].pc \in {"next", "last"} <=> threads[u].pc \in {"next", "last"}
    PROVE  /\ \A b : IsOldest(b)' <=> IsOldest(b)
           /\ InFlight' = InFlight + 1 /\ InFlight < NumBlocks
           /\ \A o \in Blocks : IsOldest(o) => Dist(o, blockIndex) = InFlight
           /\ WriterInv' /\ RingInv'
<1>0. ~Own(t) /\ ~Writer(t) /\ Own(t)' /\ ~Writer(t)' /\ blockIndex \in Blocks
  BY DEF Own, Writer, CoderInv, TypeOK
<1>1. \A b : IsOldest(b)' <=> IsOldest(b)
  BY <1>0 DEF IsOldest
<1>2. Unsignalled' = Unsignalled
  BY DEF Unsignalled
<1>3. InFlight' = InFlight + 1 /\ InFlight < NumBlocks /\ InFlight \in Nat
  <2>1. Cardinality(Unsignalled) \in Nat /\ blocksSemaphore \in Nat
    BY ThreadSets, Sizes DEF CoderInv, TypeOK
  <2>. QED
    BY <1>2, <2>1, Numbers, Sizes DEF InFlight
<1>4. WriterInv'
  BY <1>0 DEF CoderInv, WriterInv
<1>5. ASSUME NEW o \in Blocks, IsOldest(o)
      PROVE  Dist(o, blockIndex) = InFlight /\ RingFrom(o)
  BY <1>3, <1>5, Sizes DEF CoderInv, RingInv, RingFrom
<1>6. ASSUME NEW u \in Threads, Own(u), u # t
      PROVE  threads[u].bi # blockIndex /\ Own(u)' /\ threads'[u].bi = threads[u].bi
  <2>1. PICK o \in Blocks : IsOldest(o)
    BY SomeOldest
  <2>2. Dist(o, threads[u].bi) < InFlight
    BY <1>5, <1>6, <2>1 DEF RingFrom
  <2>. QED
    BY <1>3, <1>5, <1>6, <2>1, <2>2
<1>7. ~ReadyBlocks[blockIndex]
  <2>1. PICK o \in Blocks : IsOldest(o)
    BY SomeOldest
  <2>. QED
    BY <1>0, <1>3, <1>5, <2>1 DEF RingFrom
<1>8. ASSUME NEW o \in Blocks, IsOldest(o)
      PROVE  RingFrom(o)'
  <2>1. Dist(o, blockIndex) = InFlight /\ RingFrom(o)
    BY <1>5, <1>8
  <2>2. IF InFlight' = NumBlocks THEN blockIndex' = o ELSE Dist(o, blockIndex') = InFlight'
    <3>1. /\ InFlight + 1 < NumBlocks => Dist(o, Following(blockIndex)) = InFlight + 1
          /\ InFlight + 1 = NumBlocks => Following(blockIndex) = o
      BY <1>0, <2>1, Distances
    <3>. QED
      BY <3>1, <1>3, Sizes
  <2>3. \A u \in Threads : Own(u)' =>
           /\ Dist(o, threads'[u].bi) < InFlight'
           /\ writeIndex' = Nowhere => threads'[u].bi # o
    <3>1. writeIndex = Nowhere => blockIndex # o
      <4>1. writeIndex = Nowhere => InFlight > 0
        BY DEF CoderInv, RingInv
      <4>. QED
        BY <4>1, <1>3, <2>1, Distances
    <3>0. \A b \in Blocks : Dist(o, b) \in Int
      BY Distances DEF Blocks
    <3>2. \A u \in Threads : Dist(o, threads[u].bi) \in Int
      BY <3>0, Records DEF CoderInv
    <3>. QED
      BY <3>1, <3>2, <1>0, <1>3, <1>6, <2>1 DEF RingFrom
  <2>4. \A b \in Blocks : ReadyBlocks'[b] => Dist(o, b) < InFlight' /\ b # o
    <3>1. \A b \in Blocks : Dist(o, b) \in Int
      BY Distances DEF Blocks
    <3>. QED
      BY <3>1, <1>3, <2>1 DEF RingFrom
  <2>5. ASSUME NEW b \in Blocks, Dist(o, b) < InFlight'
        PROVE  \/ ReadyBlocks'[b]
               \/ \E u \in Threads : Own(u)' /\ threads'[u].bi = b
               \/ b = o /\ writeIndex' = Nowhere
    <3>1. CASE b = blockIndex
      BY <1>0, <3>1
    <3>2. CASE b # blockIndex
      <4>1. Dist(o, b) # InFlight /\ Dist(o, b) \in Int
        BY <1>0, <2>1, <3>2, Distances DEF Blocks
      <4>2. Dist(o, b) < InFlight
        BY <4>1, <1>3, <2>5
      <4>. QED
        BY <4>2, <1>0, <2>1 DEF RingFrom
    <3>. QED
      BY <3>1, <3>2
  <2>. QED
    BY <2>2, <2>3, <2>4, <2>5 DEF RingFrom
<1>9. RingInv'
  <2>1. InFlight' \in 0 .. NumBlocks /\ (writeIndex' = Nowhere => InFlight' > 0)
    BY <1>3, Sizes
  <2>2. \A u \in Threads : Own(u)' => ~ReadyBlocks'[threads'[u].bi]
    BY <1>6, <1>7 DEF CoderInv, RingInv
  <2>3. \A u, v \in Threads : Own(u)' /\ Own(v)' /\ threads'[u].bi = threads'[v].bi => u = v
    BY <1>6 DEF CoderInv, RingInv
  <2>. QED
    BY <2>1, <2>2, <2>3, <1>1, <1>8 DEF RingInv
<1>. QED
  BY <1>1, <1>3, <1>4, <1>5, <1>9

\* The parts of TakeBlock
TakeRes(t) == IF threads[t].res = "ok" THEN progressRes ELSE threads[t].res
TakeEnd(t) == threads[t].finished \/ TakeRes(t) # "ok"
OnBlock(t, r, e) ==
  [threads EXCEPT ![t].bi = blockIndex, ![t].res = r, ![t].finished = e, ![t].buf = Nowhere,
                  ![t].pc = IF r = "ok" THEN "buffer" ELSE "publish"]

\* Facts about a thread that has a block of the ring
LEMMA OwnBlock ==
    ASSUME CoderInv, NEW t \in Threads, Own(t)
    PROVE  /\ threads[t].bi \in Blocks /\ ~ReadyBlocks[threads[t].bi] /\ ~Queued(threads[t].bi)
           /\ \A u \in Threads : Own(u) /\ threads[u].bi = threads[t].bi => u = t
           /\ \A o \in Blocks : IsOldest(o) => /\ Dist(o, threads[t].bi) < InFlight /\ RingFrom(o)
                                               /\ writeIndex = Nowhere => threads[t].bi # o
<1>1. threads[t].bi \in Blocks
  BY Records DEF CoderInv
<1>2. /\ ~ReadyBlocks[threads[t].bi]
      /\ \A u \in Threads : Own(u) /\ threads[u].bi = threads[t].bi => u = t
  BY DEF CoderInv, RingInv
<1>3. \A o \in Blocks : IsOldest(o) => /\ Dist(o, threads[t].bi) < InFlight /\ RingFrom(o)
                                       /\ writeIndex = Nowhere => threads[t].bi # o
  BY DEF CoderInv, RingInv, RingFrom
<1>4. \A u \in Threads : threads[u].pc = "next" => threads[u].wi # threads[t].bi
  <2>. SUFFICES ASSUME NEW u \in Threads, threads[u].pc = "next"
                PROVE  threads[u].wi # threads[t].bi
    OBVIOUS
  <2>1. threads[u].wi \in Blocks /\ IsOldest(threads[u].wi) /\ writeIndex = Nowhere
    BY Records DEF CoderInv, IsOldest, WriterInv, Writer
  <2>. QED
    BY <1>3, <2>1
<1>. QED
  BY <1>1, <1>2, <1>3, <1>4 DEF Queued

\* The facts about the writing thread
LEMMA TheWriter ==
    ASSUME CoderInv, NEW t \in Threads, Writer(t)
    PROVE  /\ threads[t].wi \in Blocks /\ ~ReadyBlocks[threads[t].wi] /\ InFlight > 0
           /\ writeIndex = Nowhere
           /\ \A u \in Threads : Writer(u) => u = t
           /\ \A o \in Blocks : IsOldest(o) <=> o = threads[t].wi
           /\ RingFrom(threads[t].wi)
<1>1. threads[t].wi \in Blocks
  BY Records DEF CoderInv
<1>2. /\ writeIndex = Nowhere /\ InFlight > 0
      /\ \A u \in Threads : Writer(u) => u = t
  BY DEF CoderInv, WriterInv, RingInv
<1>3. \A o \in Blocks : IsOldest(o) <=> o = threads[t].wi
  BY <1>1, <1>2, Sizes DEF IsOldest
<1>4. RingFrom(threads[t].wi)
  BY <1>1, <1>3 DEF CoderInv, RingInv
<1>. QED
  BY <1>1, <1>2, <1>3, <1>4 DEF RingFrom

\* RingInv is kept when a thread leaves its block for the writer, or becomes the writer.
LEMMA RingPublished ==
    ASSUME CoderInv, NEW t \in Threads, Own(t), ~Own(t)',
           UNCHANGED <<blocksSemaphore, blockIndex>>,
           threads'[t].pc \notin {"next", "last"},
           \A u \in Threads : u # t => threads'[u] = threads[u],
           \/ /\ writeIndex = threads[t].bi /\ writeIndex' = Nowhere
              /\ Writer(t)' /\ threads'[t].wi = threads[t].bi
              /\ ReadyBlocks' = ReadyBlocks
           \/ /\ writeIndex # threads[t].bi /\ writeIndex' = writeIndex
              /\ ~Writer(t)'
              /\ ReadyBlocks' = [ReadyBlocks EXCEPT ![threads[t].bi] = TRUE]
    PROVE  /\ \A b \in Blocks : IsOldest(b)' <=> IsOldest(b)
           /\ InFlight' = InFlight
           /\ WriterInv' /\ RingInv'
<1>. DEFINE bi == threads[t].bi
<1>0. /\ bi \in Blocks /\ ~ReadyBlocks[bi] /\ ~Writer(t)
      /\ \A u \in Threads : Own(u) /\ threads[u].bi = bi => u = t
      /\ \A u \in Threads : u # t => (Own(u)' <=> Own(u)) /\ (Writer(u)' <=> Writer(u))
      /\ ReadyBlocks \in [Blocks -> BOOLEAN]
  BY OwnBlock DEF Own, Writer, CoderInv, TypeOK
<1>1. \A b \in Blocks : IsOldest(b)' <=> IsOldest(b)
  BY <1>0, Sizes DEF IsOldest, CoderInv, WriterInv
<1>2. Unsignalled' = Unsignalled
  BY DEF Unsignalled, Own
<1>3. InFlight' = InFlight
  BY <1>2 DEF InFlight
<1>4. WriterInv'
  BY <1>0, Sizes DEF CoderInv, WriterInv
<1>5. ASSUME NEW o \in Blocks, IsOldest(o)
      PROVE  RingFrom(o)'
  <2>1. /\ RingFrom(o) /\ Dist(o, bi) < InFlight /\ (writeIndex = Nowhere => bi # o)
        /\ writeIndex # Nowhere => o = writeIndex
    BY <1>5, OwnBlock DEF IsOldest, CoderInv, WriterInv
  <2>2. CASE writeIndex = bi
    <3>1. writeIndex' = Nowhere /\ ReadyBlocks' = ReadyBlocks /\ o = bi
      BY <1>0, <2>1, <2>2, Sizes
    <3>. QED
      BY <3>1, <2>1, <1>0, <1>3 DEF RingFrom
  <2>3. CASE writeIndex # bi
    <3>1. /\ writeIndex' = writeIndex /\ bi # o
          /\ ReadyBlocks' = [ReadyBlocks EXCEPT ![bi] = TRUE]
      BY <2>1, <2>3
    <3>. HIDE DEF bi
    <3>2. ReadyBlocks'[bi] /\ \A b \in Blocks : b # bi => ReadyBlocks'[b] = ReadyBlocks[b]
      BY <3>1, <1>0
    <3>. USE DEF bi
    <3>3. \A b \in Blocks : ReadyBlocks'[b] => Dist(o, b) < InFlight /\ b # o
      BY <3>1, <3>2, <2>1 DEF RingFrom
    <3>. QED
      BY <3>1, <3>2, <3>3, <2>1, <1>0, <1>3 DEF RingFrom
  <2>. QED
    BY <2>2, <2>3
<1>6. RingInv'
  <2>1. \A u \in Threads : Own(u)' => ~ReadyBlocks'[threads'[u].bi]
    <3>. SUFFICES ASSUME NEW u \in Threads, Own(u)'
                  PROVE  ~ReadyBlocks'[threads'[u].bi]
      OBVIOUS
    <3>1. u # t /\ Own(u) /\ threads'[u].bi = threads[u].bi /\ threads[u].bi \in Blocks
      BY <1>0, Records DEF CoderInv
    <3>2. threads[u].bi # bi /\ ~ReadyBlocks[threads[u].bi]
      BY <3>1, <1>0 DEF CoderInv, RingInv
    <3>. QED
      BY <3>1, <3>2, <1>0
  <2>2. \A u, v \in Threads : Own(u)' /\ Own(v)' /\ threads'[u].bi = threads'[v].bi => u = v
    BY <1>0 DEF CoderInv, RingInv
  <2>3. InFlight \in 0 .. NumBlocks /\ (writeIndex' = Nowhere => InFlight > 0)
    <3>1. InFlight \in 0 .. NumBlocks /\ (writeIndex = Nowhere => InFlight > 0)
      BY DEF CoderInv, RingInv
    <3>2. writeIndex = bi => InFlight > 0
      <4>1. (IsOldest(bi) /\ Dist(bi, bi) = 0) \/ writeIndex # bi
        BY <1>0, Distances DEF IsOldest
      <4>. QED
        BY <4>1, <1>0, OwnBlock
    <3>. QED
      BY <3>1, <3>2
  <2>. QED
    BY <2>1, <2>2, <2>3, <1>1, <1>3, <1>5 DEF RingInv
<1>. QED
  BY <1>1, <1>3, <1>4, <1>6

\* The parts of Publish
PublishRes(t) == IF writeRes # "ok" THEN writeRes ELSE threads[t].res
Published(t)  == [res |-> threads[t].res, buf |-> threads[t].buf, finished |-> threads[t].finished]

\* RingInv is kept when the writer moves to the block after the one it wrote.
LEMMA RingReleased ==
    ASSUME CoderInv, NEW t \in Threads, threads[t].pc = "release",
           UNCHANGED <<blocksSemaphore, blockIndex>>,
           threads'[t].wi = Following(threads[t].wi),
           \A u \in Threads : u # t => threads'[u] = threads[u],
           ReadyBlocks' = [ReadyBlocks EXCEPT ![Following(threads[t].wi)] = FALSE],
           \/ /\ ReadyBlocks[Following(threads[t].wi)]
              /\ writeIndex' = writeIndex /\ threads'[t].pc = "next"
           \/ /\ ~ReadyBlocks[Following(threads[t].wi)]
              /\ writeIndex' = Following(threads[t].wi) /\ threads'[t].pc = "last"
    PROVE  /\ \A b \in Blocks : IsOldest(b) <=> b = threads[t].wi
           /\ \A b \in Blocks : IsOldest(b)' <=> b = Following(threads[t].wi)
           /\ \A b \in Blocks : b # threads[t].wi =>
                Dist(Following(threads[t].wi), b) = Dist(threads[t].wi, b) - 1
           /\ InFlight' = InFlight - 1
           /\ WriterInv' /\ RingInv'
<1>. DEFINE o == threads[t].wi
            n == Following(o)
<1>0. /\ o \in Blocks /\ ~ReadyBlocks[o] /\ InFlight > 0 /\ writeIndex = Nowhere
      /\ \A u \in Threads : Writer(u) => u = t
      /\ \A b \in Blocks : IsOldest(b) <=> b = o
      /\ RingFrom(o)
  BY TheWriter DEF Writer
<1>1. /\ n \in Blocks /\ n # Nowhere
      /\ \A b \in Blocks : b # o => Dist(n, b) = Dist(o, b) - 1
      /\ \A b \in Blocks : Dist(o, b) \in Int /\ Dist(n, b) \in Int /\ (Dist(o, b) = 0 => b = o)
      /\ Dist(n, o) = NumBlocks - 1
  <2>1. n \in Blocks /\ n # Nowhere
    BY <1>0, FollowingBlock, Sizes
  <2>2. \A b \in Blocks : Dist(o, b) \in Blocks /\ Dist(n, b) \in Blocks
    BY <1>0, <2>1, Distances
  <2>3. /\ \A b \in Blocks : b # o => Dist(n, b) = Dist(o, b) - 1
        /\ \A b \in Blocks : Dist(o, b) = 0 => b = o
        /\ Dist(n, o) = NumBlocks - 1
    BY <1>0, Distances
  <2>. QED
    BY <2>1, <2>2, <2>3 DEF Blocks
<1>2. /\ ReadyBlocks \in [Blocks -> BOOLEAN] /\ ~ReadyBlocks'[n]
      /\ \A b \in Blocks : b # n => ReadyBlocks'[b] = ReadyBlocks[b]
  BY <1>1 DEF CoderInv, TypeOK
<1>3. /\ \A u \in Threads : Own(u)' <=> Own(u)
      /\ \A u \in Threads : Own(u) => threads'[u] = threads[u]
      /\ \A u \in Threads : Writer(u)' => u = t
      /\ Writer(t)' <=> threads'[t].pc = "next"
  BY <1>0 DEF Own, Writer
<1>4. \A b \in Blocks : IsOldest(b)' <=> b = n
  BY <1>0, <1>1, <1>3, Sizes DEF IsOldest
<1>5. InFlight' = InFlight - 1 /\ InFlight \in Nat /\ InFlight <= NumBlocks
  <2>1. Unsignalled' = Unsignalled \union {t} /\ t \notin Unsignalled
    BY DEF Unsignalled
  <2>2. Cardinality(Unsignalled') = Cardinality(Unsignalled) + 1 /\ Cardinality(Unsignalled) \in Nat
    BY <2>1, ThreadSets, FS_AddElement
  <2>3. blocksSemaphore \in Nat
    BY Sizes DEF CoderInv, TypeOK
  <2>. QED
    BY <2>2, <2>3, Numbers, Sizes DEF InFlight
<1>6. WriterInv'
  BY <1>0, <1>1, <1>3, Sizes DEF WriterInv
<1>. HIDE DEF n, o
<1>7. ASSUME NEW m \in Blocks, m = n
      PROVE  RingFrom(m)'
  <2>1. IF InFlight' = NumBlocks THEN blockIndex' = n ELSE Dist(n, blockIndex') = InFlight'
    <3>1. CASE InFlight = NumBlocks
      <4>1. blockIndex = o
        BY <1>0, <3>1 DEF RingFrom
      <4>. QED
        BY <4>1, <3>1, <1>1, <1>5, Sizes
    <3>2. CASE InFlight # NumBlocks
      <4>1. Dist(o, blockIndex) = InFlight /\ blockIndex \in Blocks
        BY <1>0, <3>2 DEF RingFrom, CoderInv, TypeOK
      <4>2. blockIndex # o
        BY <4>1, <1>0, Distances
      <4>. QED
        BY <4>1, <4>2, <1>1, <1>5, Sizes
    <3>. QED
      BY <3>1, <3>2
  <2>2. ASSUME NEW u \in Threads, Own(u)'
        PROVE  /\ Dist(n, threads'[u].bi) < InFlight'
               /\ writeIndex' = Nowhere => threads'[u].bi # n
    <3>1. /\ Own(u) /\ threads'[u].bi = threads[u].bi /\ threads[u].bi \in Blocks
          /\ threads[u].bi # o /\ Dist(o, threads[u].bi) < InFlight
          /\ ~ReadyBlocks[threads[u].bi]
      BY <2>2, <1>0, <1>3, OwnBlock
    <3>2. writeIndex' = Nowhere => ReadyBlocks[n]
      BY <1>0, <1>1 DEF n, o
    <3>. QED
      BY <3>1, <3>2, <1>1, <1>5
  <2>3. ASSUME NEW b \in Blocks, ReadyBlocks'[b]
        PROVE  Dist(n, b) < InFlight' /\ b # n
    <3>1. b # n /\ ReadyBlocks[b]
      BY <1>2, <2>3
    <3>2. Dist(o, b) < InFlight /\ b # o
      BY <1>0, <3>1 DEF RingFrom
    <3>. QED
      BY <3>1, <3>2, <1>1, <1>5
  <2>4. ASSUME NEW b \in Blocks, Dist(n, b) < InFlight'
        PROVE  \/ ReadyBlocks'[b]
               \/ \E u \in Threads : Own(u)' /\ threads'[u].bi = b
               \/ b = n /\ writeIndex' = Nowhere
    <3>1. b # o
      BY <2>4, <1>1, <1>5, Sizes
    <3>2. Dist(o, b) < InFlight
      BY <3>1, <2>4, <1>1, <1>5
    <3>3. ReadyBlocks[b] \/ \E u \in Threads : Own(u) /\ threads[u].bi = b
      BY <3>1, <3>2, <1>0 DEF RingFrom
    <3>4. ReadyBlocks[n] => writeIndex' = Nowhere
      BY <1>0 DEF n, o
    <3>. QED
      BY <3>3, <3>4, <1>2, <1>3
  <2>. QED
    BY <2>1, <2>2, <2>3, <2>4, <1>7 DEF RingFrom
<1>8. RingInv'
  <2>1. InFlight' \in 0 .. NumBlocks
    BY <1>0, <1>5, Sizes
  <2>2. writeIndex' = Nowhere => InFlight' > 0
    <3>1. writeIndex' = Nowhere => ReadyBlocks[n]
      BY <1>0, <1>1 DEF n, o
    <3>2. ReadyBlocks[n] => Dist(o, n) < InFlight /\ n # o
      BY <1>0, <1>1 DEF RingFrom
    <3>3. n # o => Dist(o, n) > 0
      BY <1>0, <1>1, Distances DEF Blocks
    <3>. QED
      BY <3>1, <3>2, <3>3, <1>1, <1>5
  <2>3. \A u \in Threads : Own(u)' => ~ReadyBlocks'[threads'[u].bi]
    BY <1>2, <1>3, OwnBlock
  <2>4. \A u, v \in Threads : Own(u)' /\ Own(v)' /\ threads'[u].bi = threads'[v].bi => u = v
    BY <1>3 DEF CoderInv, RingInv
  <2>. QED
    BY <2>1, <2>2, <2>3, <2>4, <1>4, <1>7 DEF RingInv
<1>. QED
  BY <1>0, <1>1, <1>4, <1>5, <1>6, <1>8 DEF n, o

\* RingInv is kept when the writer gives its block back to the semaphore.
LEMMA RingSignalled ==
    ASSUME CoderInv, NEW t \in Threads, blocksSemaphore' = blocksSemaphore + 1,
           UNCHANGED <<writeIndex, ReadyBlocks, blockIndex>>,
           \A u \in Threads : u # t => threads'[u] = threads[u],
           \/ /\ threads[t].pc = "next" /\ threads'[t].pc \in {"write", "release"}
              /\ threads'[t].wi = threads[t].wi
           \/ threads[t].pc = "last" /\ threads'[t].pc \in {"read", "done"}
    PROVE  /\ \A b : IsOldest(b)' <=> IsOldest(b)
           /\ InFlight' = InFlight /\ blocksSemaphore' \in 0 .. NumBlocks
           /\ WriterInv' /\ RingInv'
<1>0. /\ \A u \in Threads : Own(u)' <=> Own(u)
      /\ \A u \in Threads : Own(u) => threads'[u].bi = threads[u].bi
      /\ \A u \in Threads : Writer(u)' <=> Writer(u)
      /\ \A u \in Threads : Writer(u) => threads'[u].wi = threads[u].wi
  BY DEF Own, Writer
<1>1. \A b : IsOldest(b)' <=> IsOldest(b)
  BY <1>0 DEF IsOldest
<1>2. InFlight' = InFlight /\ blocksSemaphore' \in 0 .. NumBlocks
  <2>1. Unsignalled' = Unsignalled \ {t} /\ t \in Unsignalled
    BY DEF Unsignalled
  <2>2. /\ Cardinality(Unsignalled') = Cardinality(Unsignalled) - 1
        /\ Cardinality(Unsignalled) \in Nat /\ Cardinality(Unsignalled) # 0
    BY <2>1, ThreadSets, FS_RemoveElement, FS_EmptySet
  <2>3. blocksSemaphore \in Nat
    BY Sizes DEF CoderInv, TypeOK
  <2>. QED
    BY <2>2, <2>3, Numbers, Sizes DEF InFlight
<1>3. WriterInv'
  BY <1>0 DEF CoderInv, WriterInv
<1>4. ASSUME NEW o \in Blocks, IsOldest(o)'
      PROVE  RingFrom(o)'
  <2>1. RingFrom(o)
    BY <1>1, <1>4 DEF CoderInv, RingInv
  <2>. QED
    BY <2>1, <1>0, <1>2 DEF RingFrom
<1>5. RingInv'
  BY <1>0, <1>2, <1>4 DEF CoderInv, RingInv
<1>. QED
  BY <1>1, <1>2, <1>3, <1>5

\* The result with which a writer goes on
SignalRes(t) == IF threads[t].res = "ok" THEN blocks[threads[t].wi].res ELSE threads[t].res

\* EnterRead keeps CoderInv.
LEMMA EnterReadStep ==
    ASSUME CoderInv, NEW t \in Threads, EnterRead(t)
    PROVE  CoderInv'
<1>a. /\ threads[t].pc \in {"read"} /\ caller.pc = "wait" /\ Running
      /\ t < numStartedThreads /\ finishedEvent = FALSE /\ t \notin startEvent
  BY InCall DEF EnterRead, Quiet, CoderInv
<1>e. /\ UNCHANGED <<caller, startEvent, finishedEvent, blocksSemaphore, stopReading,
                     readProcessed, blockIndex, numStartedThreads, writeIndex,
                     ReadyBlocks, freeBlocks, blocks, numFinishedThreads, readRes,
                     writeRes, progressRes, outBufs, input, written, troubles, faults>>
      /\ readEvent' = stopReading
      /\ readEvent
  BY Zenon DEF EnterRead, NoFault, Fault, events, reading, ring, results, history
<1>. DEFINE r == [threads[t] EXCEPT
        !.pc = IF stopReading THEN "done" ELSE IF progressRes = "ok" THEN "reading" ELSE "take",
        !.res = IF stopReading THEN "ok" ELSE progressRes,
        !.finished = ~stopReading]
<1>b. threads' = [threads EXCEPT ![t] = r]
  BY Records DEF CoderInv, EnterRead
<1>c. /\ r \in ThreadType
      /\ r.pc = (IF stopReading THEN "done" ELSE IF progressRes = "ok" THEN "reading" ELSE "take")
      /\ r.res = (IF stopReading THEN "ok" ELSE progressRes)
      /\ r.finished = (~stopReading)
      /\ r.buf = threads[t].buf
      /\ r.bi = threads[t].bi
      /\ r.blk = threads[t].blk
      /\ r.wi = threads[t].wi
      /\ r.n = threads[t].n
      /\ r.stop = threads[t].stop
  <2>1. threads[t] \in ThreadType /\ progressRes \in Results /\ stopReading \in BOOLEAN
    BY Records, Sizes DEF CoderInv, TypeOK, Results
  <2>. QED
    BY <2>1 DEF ThreadType, ThreadPcs, Results, Errors
<1>. HIDE DEF r
<1>d. /\ threads' \in [Threads -> ThreadType] /\ threads'[t] = r
      /\ \A u \in Threads : u # t => threads'[u] = threads[u]
  BY <1>b, <1>c, Records DEF CoderInv
<1>f. /\ \A b : IsOldest(b)' <=> IsOldest(b)
      /\ InFlight' = InFlight
      /\ WriterInv' /\ RingInv'
  <2>1. \A u \in Threads :
           /\ Own(u)' <=> Own(u)
           /\ Own(u) => threads'[u].bi = threads[u].bi
           /\ Writer(u)' <=> Writer(u)
           /\ Writer(u) => threads'[u].wi = threads[u].wi
           /\ threads'[u].pc \in {"next", "last"} <=> threads[u].pc \in {"next", "last"}
    BY <1>a, <1>c, <1>d DEF Own, Writer
  <2>. QED
    BY <1>e, <2>1, RingKept
<1>g. /\ Holders' = Holders /\ Waiting' = Waiting
      /\ \A b : Queued(b)' <=> Queued(b)
      /\ FreeInv' /\ ApartInv'
  <2>1. \A u \in Threads :
           /\ Holds(u)' <=> Holds(u)
           /\ Holds(u) => threads'[u].buf = threads[u].buf
           /\ threads'[u].pc = "next" <=> threads[u].pc = "next"
           /\ threads[u].pc = "next" => threads'[u].wi = threads[u].wi
    BY <1>a, <1>c, <1>d DEF Holds
  <2>. QED
    BY <1>e, <2>1, BuffersKept
<1>1. TypeOK'
  <2>1. readEvent' \in BOOLEAN
    BY <1>e DEF CoderInv, TypeOK, FirstError, Results
  <2>2. threads' \in [Threads -> ThreadType]
    BY <1>d
  <2>. QED
    BY <2>2, <1>e, TypedRecords DEF CoderInv, PlainTypes
<1>2. CallInv'
  <2>1. Active' = Active
    BY <1>a, <1>c, <1>d, <1>e DEF Active, Quiet
  <2>. QED
    BY <2>1, <1>a, <1>c, <1>d, <1>e DEF CoderInv, CallInv
<1>3. LockInv'
  BY <1>c, <1>d, <1>e DEF CoderInv, LockInv, Reader
<1>4. WriterInv' /\ RingInv' /\ FreeInv' /\ ApartInv'
  BY <1>f, <1>g
<1>5. TroubleInv'
  BY <1>a, <1>c, <1>d, <1>e, <1>g DEF CoderInv, TroubleInv, FirstError
<1>6. ReadInv'
  BY <1>a, <1>c, <1>d, <1>e DEF CoderInv, ReadInv, LockInv, Reader, Own
<1>7. CodedInv'
  BY <1>a, <1>c, <1>d, <1>e, <1>g DEF CoderInv, CodedInv
<1>8. OrderInv'
  <2>1. Base' = Base
    BY <1>a, <1>c, <1>d, <1>e DEF Base
  <2>2. ASSUME Running, troubles = {}, NEW o \in Blocks, IsOldest(o)
        PROVE  OrderFrom(o)'
    <3>1. OrderFrom(o)
      BY <2>2 DEF CoderInv, OrderInv
    <3>. QED
      BY <3>1, <2>1, <1>c, <1>d, <1>e, <1>g DEF OrderFrom, Own
  <2>3. ASSUME Running, troubles = {}, NEW u \in Threads
        PROVE  OrderOf(u)'
    <3>1. OrderOf(u) /\ OrderOf(t)
      BY <2>3 DEF CoderInv, OrderInv
    <3>. QED
      BY <3>1, <2>1, <2>3, <1>c, <1>d, <1>e DEF CoderInv, TroubleInv, OrderOf
  <2>4. ASSUME Running, troubles = {}
        PROVE  readProcessed' = Base' + InFlight' + Took'
    <3>1. readProcessed = Base + InFlight + Took
      BY <2>4 DEF CoderInv, OrderInv
    <3>. QED
      BY <3>1, <2>1, <2>4, <1>a, <1>c, <1>d, <1>e, <1>f DEF CoderInv, TroubleInv, Took
  <2>5. ASSUME Running, troubles = {}
        PROVE  /\ stopReading' => readProcessed' = input' + 1
               /\ numFinishedThreads' > 0 => stopReading'
    BY <2>5, <1>e DEF CoderInv, OrderInv
  <2>. QED
    BY <2>2, <2>3, <2>4, <1>a, <1>e, <1>f, <1>g DEF CoderInv, OrderInv
<1>. QED
  BY <1>1, <1>2, <1>3, <1>4, <1>5, <1>6, <1>7, <1>8 DEF CoderInv

\* Read keeps CoderInv.
LEMMA ReadStep ==
    ASSUME CoderInv, NEW t \in Threads, Read(t)
    PROVE  CoderInv'
<1>1. CASE /\ readProcessed' = readProcessed + 1
           /\ threads' = [threads EXCEPT ![t].pc = "take", ![t].blk = readProcessed',
                                           ![t].finished = readProcessed' > input]
             /\ NoFault
             /\ UNCHANGED results
  <2>a. /\ threads[t].pc \in {"reading"} /\ caller.pc = "wait" /\ Running
        /\ t < numStartedThreads /\ finishedEvent = FALSE /\ t \notin startEvent
    BY <1>1, InCall DEF Read, Quiet, CoderInv
  <2>xb. /\ readProcessed <= input /\ ~stopReading /\ threads[t].res = "ok"
         /\ readProcessed' = readProcessed + 1 /\ UNCHANGED <<input, stopReading>>
    BY <1>1, <2>a DEF CoderInv, ReadInv, Read
  <2>xc. readProcessed + 1 \in 0 .. MaxInput + 1 /\ input \in Nat /\ readProcessed \in Nat
    BY <2>xb, Sizes DEF CoderInv, TypeOK
  <2>xd. (readProcessed + 1 > input) \in BOOLEAN
    OBVIOUS
  <2>xa. PICK e \in BOOLEAN : e = (readProcessed + 1 > input)
    BY <2>xd, Zenon
  <2>xe. e <=> readProcessed + 1 > input
    BY <2>xc, <2>xa
  <2>e. /\ UNCHANGED <<caller, startEvent, readEvent, finishedEvent, blocksSemaphore,
                       stopReading, blockIndex, numStartedThreads, writeIndex,
                       ReadyBlocks, freeBlocks, blocks, numFinishedThreads, readRes,
                       writeRes, progressRes, outBufs, input, written, troubles,
                       faults>>
        /\ readProcessed' = readProcessed + 1
    BY <1>1, <2>xb, <2>xc, <2>xd, <2>xa, <2>xe, Zenon
       DEF Read, NoFault, Fault, events, reading, ring, results, history
  <2>. DEFINE r == [threads[t] EXCEPT !.pc = "take", !.blk = readProcessed + 1, !.finished = e]
  <2>b. threads' = [threads EXCEPT ![t] = r]
    BY <1>1, <2>xa, <2>xb, <2>xc, Records DEF CoderInv, Read
  <2>c. /\ r \in ThreadType
        /\ r.pc = "take"
        /\ r.blk = readProcessed + 1
        /\ r.finished = e
        /\ r.buf = threads[t].buf
        /\ r.bi = threads[t].bi
        /\ r.wi = threads[t].wi
        /\ r.n = threads[t].n
        /\ r.stop = threads[t].stop
        /\ r.res = threads[t].res
    <3>1. threads[t] \in ThreadType /\ readProcessed + 1 \in 0 .. MaxInput + 1
      BY <1>1, <2>xb, <2>xc, <2>xd, <2>xa, <2>xe, Records, Sizes
         DEF CoderInv, TypeOK, Results, Errors
    <3>. QED
      BY <3>1 DEF ThreadType, ThreadPcs, Results, Errors
  <2>. HIDE DEF r
  <2>d. /\ threads' \in [Threads -> ThreadType] /\ threads'[t] = r
        /\ \A u \in Threads : u # t => threads'[u] = threads[u]
    BY <2>b, <2>c, Records DEF CoderInv
  <2>f. /\ \A b : IsOldest(b)' <=> IsOldest(b)
        /\ InFlight' = InFlight
        /\ WriterInv' /\ RingInv'
    <3>1. \A u \in Threads :
             /\ Own(u)' <=> Own(u)
             /\ Own(u) => threads'[u].bi = threads[u].bi
             /\ Writer(u)' <=> Writer(u)
             /\ Writer(u) => threads'[u].wi = threads[u].wi
             /\ threads'[u].pc \in {"next", "last"} <=> threads[u].pc \in {"next", "last"}
      BY <2>a, <2>c, <2>d DEF Own, Writer
    <3>. QED
      BY <2>e, <3>1, RingKept
  <2>g. /\ Holders' = Holders /\ Waiting' = Waiting
        /\ \A b : Queued(b)' <=> Queued(b)
        /\ FreeInv' /\ ApartInv'
    <3>1. \A u \in Threads :
             /\ Holds(u)' <=> Holds(u)
             /\ Holds(u) => threads'[u].buf = threads[u].buf
             /\ threads'[u].pc = "next" <=> threads[u].pc = "next"
             /\ threads[u].pc = "next" => threads'[u].wi = threads[u].wi
      BY <2>a, <2>c, <2>d DEF Holds
    <3>. QED
      BY <2>e, <3>1, BuffersKept
  <2>1. TypeOK'
    <3>1. readProcessed' \in 0 .. MaxInput + 1
      BY <2>xc, <2>e
    <3>2. threads' \in [Threads -> ThreadType]
      BY <2>d
    <3>. QED
      BY <3>1, <3>2, <2>e, TypedRecords DEF CoderInv, PlainTypes
  <2>2. CallInv'
    <3>1. Active' = Active
      BY <2>a, <2>c, <2>d, <2>e DEF Active, Quiet
    <3>. QED
      BY <3>1, <2>a, <2>c, <2>d, <2>e DEF CoderInv, CallInv
  <2>3. LockInv'
    BY <2>a, <2>d, <2>e DEF CoderInv, LockInv, Reader
  <2>4. WriterInv' /\ RingInv' /\ FreeInv' /\ ApartInv'
    BY <2>f, <2>g
  <2>5. TroubleInv'
    BY <2>xb, <2>a, <2>c, <2>d, <2>e, <2>g DEF CoderInv, TroubleInv, FirstError
  <2>6. ReadInv'
    BY <2>xc, <2>xe, <2>a, <2>c, <2>d, <2>e DEF CoderInv, ReadInv, LockInv, Reader, Own
  <2>7. CodedInv'
    BY <2>a, <2>c, <2>d, <2>e, <2>g DEF CoderInv, CodedInv
  <2>8. OrderInv'
    <3>1. Base' = Base
      BY <2>a, <2>c, <2>d, <2>e DEF Base
    <3>2. ASSUME Running, troubles = {}, NEW o \in Blocks, IsOldest(o)
          PROVE  OrderFrom(o)'
      <4>1. OrderFrom(o)
        BY <3>2 DEF CoderInv, OrderInv
      <4>. QED
        BY <4>1, <3>1, <2>c, <2>d, <2>e, <2>g DEF OrderFrom, Own
    <3>3. ASSUME Running, troubles = {}, NEW u \in Threads
          PROVE  OrderOf(u)'
      <4>1. OrderOf(u) /\ OrderOf(t)
        BY <3>3 DEF CoderInv, OrderInv
      <4>. QED
        BY <4>1, <3>1, <2>xb, <2>xe, <2>a, <2>c, <2>d, <2>e, Numbers
           DEF CoderInv, LockInv, Reader, OrderOf
    <3>4. ASSUME Running, troubles = {}
          PROVE  readProcessed' = Base' + InFlight' + Took'
      <4>1. readProcessed = Base + InFlight + Took
        BY <3>4 DEF CoderInv, OrderInv
      <4>. QED
        BY <4>1, <3>1, <2>a, <2>c, <2>d, <2>e, <2>f, Numbers
           DEF CoderInv, LockInv, Reader, Took
    <3>5. ASSUME Running, troubles = {}
          PROVE  /\ stopReading' => readProcessed' = input' + 1
                 /\ numFinishedThreads' > 0 => stopReading'
      BY <3>5, <2>xb, <2>e DEF CoderInv, OrderInv
    <3>. QED
      BY <3>2, <3>3, <3>4, <3>5, <2>a, <2>e, <2>f, <2>g DEF CoderInv, OrderInv
  <2>. QED
    BY <2>1, <2>2, <2>3, <2>4, <2>5, <2>6, <2>7, <2>8 DEF CoderInv
<1>2. CASE \E err \in {"read", "mem"} :
             /\ Fault(err)
             /\ readRes' = err
             /\ progressRes' = FirstError(err)
             /\ threads' = [threads EXCEPT ![t].pc = "take", ![t].res = err]
             /\ UNCHANGED <<readProcessed, writeRes>>
  <2>z. PICK err \in {"read", "mem"} :
           /\ Fault(err)
           /\ readRes' = err
           /\ progressRes' = FirstError(err)
           /\ threads' = [threads EXCEPT ![t].pc = "take", ![t].res = err]
           /\ UNCHANGED <<readProcessed, writeRes>>
    BY <1>2
  <2>a. /\ threads[t].pc \in {"reading"} /\ caller.pc = "wait" /\ Running
        /\ t < numStartedThreads /\ finishedEvent = FALSE /\ t \notin startEvent
    BY <2>z, InCall DEF Read, Quiet, CoderInv
  <2>x. /\ err \in Errors /\ err # "ok" /\ readProcessed <= input /\ ~stopReading
        /\ UNCHANGED <<input, stopReading>>
    BY <2>a DEF CoderInv, ReadInv, Read, Errors, history
  <2>e. /\ UNCHANGED <<caller, startEvent, readEvent, finishedEvent, blocksSemaphore,
                       stopReading, readProcessed, blockIndex, numStartedThreads,
                       writeIndex, ReadyBlocks, freeBlocks, blocks, numFinishedThreads,
                       writeRes, outBufs, input, written>>
        /\ readRes' = err
        /\ progressRes' = FirstError(err)
        /\ troubles' = troubles \union {err}
        /\ faults' = faults + 1
        /\ faults < MaxFaults
    BY <2>z, <2>x, Zenon
       DEF Read, NoFault, Fault, events, reading, ring, results, history
  <2>. DEFINE r == [threads[t] EXCEPT !.pc = "take", !.res = err]
  <2>b. threads' = [threads EXCEPT ![t] = r]
    BY <2>z, Records DEF CoderInv, Read
  <2>c. /\ r \in ThreadType
        /\ r.pc = "take"
        /\ r.res = err
        /\ r.buf = threads[t].buf
        /\ r.bi = threads[t].bi
        /\ r.blk = threads[t].blk
        /\ r.wi = threads[t].wi
        /\ r.n = threads[t].n
        /\ r.stop = threads[t].stop
        /\ r.finished = threads[t].finished
    <3>1. threads[t] \in ThreadType /\ err \in Errors
      BY <2>z, <2>x, Records, Sizes DEF CoderInv, TypeOK, Results, Errors
    <3>. QED
      BY <3>1 DEF ThreadType, ThreadPcs, Results, Errors
  <2>. HIDE DEF r
  <2>d. /\ threads' \in [Threads -> ThreadType] /\ threads'[t] = r
        /\ \A u \in Threads : u # t => threads'[u] = threads[u]
    BY <2>b, <2>c, Records DEF CoderInv
  <2>f. /\ \A b : IsOldest(b)' <=> IsOldest(b)
        /\ InFlight' = InFlight
        /\ WriterInv' /\ RingInv'
    <3>1. \A u \in Threads :
             /\ Own(u)' <=> Own(u)
             /\ Own(u) => threads'[u].bi = threads[u].bi
             /\ Writer(u)' <=> Writer(u)
             /\ Writer(u) => threads'[u].wi = threads[u].wi
             /\ threads'[u].pc \in {"next", "last"} <=> threads[u].pc \in {"next", "last"}
      BY <2>a, <2>c, <2>d DEF Own, Writer
    <3>. QED
      BY <2>e, <3>1, RingKept
  <2>g. /\ Holders' = Holders /\ Waiting' = Waiting
        /\ \A b : Queued(b)' <=> Queued(b)
        /\ FreeInv' /\ ApartInv'
    <3>1. \A u \in Threads :
             /\ Holds(u)' <=> Holds(u)
             /\ Holds(u) => threads'[u].buf = threads[u].buf
             /\ threads'[u].pc = "next" <=> threads[u].pc = "next"
             /\ threads[u].pc = "next" => threads'[u].wi = threads[u].wi
      BY <2>a, <2>c, <2>d DEF Holds
    <3>. QED
      BY <2>e, <3>1, BuffersKept
  <2>1. TypeOK'
    <3>1. readRes' \in Results
      BY <2>x, <2>e DEF Results
    <3>2. progressRes' \in Results
      BY <2>x, <2>e DEF CoderInv, TypeOK, FirstError, Results
    <3>3. troubles' \in SUBSET Errors
      BY <2>x, <2>e DEF CoderInv, TypeOK
    <3>4. faults' \in 0 .. MaxFaults
      BY <2>e, Sizes DEF CoderInv, TypeOK
    <3>5. threads' \in [Threads -> ThreadType]
      BY <2>d
    <3>. QED
      BY <3>1, <3>2, <3>3, <3>4, <3>5, <2>e, TypedRecords DEF CoderInv, PlainTypes
  <2>2. CallInv'
    <3>1. Active' = Active
      BY <2>a, <2>c, <2>d, <2>e DEF Active, Quiet
    <3>. QED
      BY <3>1, <2>a, <2>c, <2>d, <2>e DEF CoderInv, CallInv
  <2>3. LockInv'
    BY <2>a, <2>d, <2>e DEF CoderInv, LockInv, Reader
  <2>4. WriterInv' /\ RingInv' /\ FreeInv' /\ ApartInv'
    BY <2>f, <2>g
  <2>5. TroubleInv'
    BY <2>a, <2>e DEF CoderInv, TroubleInv, FirstError
  <2>6. ReadInv'
    BY <2>a, <2>c, <2>d, <2>e DEF CoderInv, ReadInv, Own
  <2>7. CodedInv'
    BY <2>a, <2>c, <2>d, <2>e, <2>g DEF CoderInv, CodedInv
  <2>8. OrderInv'
    BY <2>e DEF OrderInv
  <2>. QED
    BY <2>1, <2>2, <2>3, <2>4, <2>5, <2>6, <2>7, <2>8 DEF CoderInv
<1>. QED
  BY <1>1, <1>2 DEF Read

\* Wake keeps CoderInv.
LEMMA WakeStep ==
    ASSUME CoderInv, NEW t \in Threads, Wake(t)
    PROVE  CoderInv'
<1>1. CASE threads[t].stop
  <2>a. /\ threads[t].pc = "parked" /\ t \in startEvent /\ threads[t].stop
        /\ caller.pc \in {"free", "join", "failed"} /\ ~Running
    BY <1>1 DEF CoderInv, CallInv, TypeOK, Wake, Running
  <2>e. /\ UNCHANGED <<caller, readEvent, finishedEvent, blocksSemaphore, stopReading,
                       readProcessed, blockIndex, numStartedThreads, writeIndex,
                       ReadyBlocks, freeBlocks, blocks, numFinishedThreads, readRes,
                       writeRes, progressRes, outBufs, input, written, troubles,
                       faults>>
        /\ startEvent' = startEvent \ {t}
    BY <1>1, Zenon DEF Wake, NoFault, Fault, events, reading, ring, results, history
  <2>. DEFINE r == [threads[t] EXCEPT !.pc = "exited"]
  <2>b. threads' = [threads EXCEPT ![t] = r]
    BY <1>1 DEF Wake
  <2>c. /\ r \in ThreadType
        /\ r.pc = "exited"
        /\ r.buf = threads[t].buf
        /\ r.bi = threads[t].bi
        /\ r.blk = threads[t].blk
        /\ r.wi = threads[t].wi
        /\ r.n = threads[t].n
        /\ r.stop = threads[t].stop
        /\ r.res = threads[t].res
        /\ r.finished = threads[t].finished
    <3>1. threads[t] \in ThreadType
      BY Records DEF CoderInv
    <3>. QED
      BY <3>1 DEF ThreadType, ThreadPcs
  <2>. HIDE DEF r
  <2>d. /\ threads' \in [Threads -> ThreadType] /\ threads'[t] = r
        /\ \A u \in Threads : u # t => threads'[u] = threads[u]
    BY <2>b, <2>c, Records DEF CoderInv
  <2>f. /\ \A b : IsOldest(b)' <=> IsOldest(b)
        /\ InFlight' = InFlight
        /\ WriterInv' /\ RingInv'
    <3>1. \A u \in Threads :
             /\ Own(u)' <=> Own(u)
             /\ Own(u) => threads'[u].bi = threads[u].bi
             /\ Writer(u)' <=> Writer(u)
             /\ Writer(u) => threads'[u].wi = threads[u].wi
             /\ threads'[u].pc \in {"next", "last"} <=> threads[u].pc \in {"next", "last"}
      BY <2>a, <2>c, <2>d DEF Own, Writer
    <3>. QED
      BY <2>e, <3>1, RingKept
  <2>g. /\ Holders' = Holders /\ Waiting' = Waiting
        /\ \A b : Queued(b)' <=> Queued(b)
        /\ FreeInv' /\ ApartInv'
    <3>1. \A u \in Threads :
             /\ Holds(u)' <=> Holds(u)
             /\ Holds(u) => threads'[u].buf = threads[u].buf
             /\ threads'[u].pc = "next" <=> threads[u].pc = "next"
             /\ threads[u].pc = "next" => threads'[u].wi = threads[u].wi
      BY <2>a, <2>c, <2>d DEF Holds
    <3>. QED
      BY <2>e, <3>1, BuffersKept
  <2>1. TypeOK'
    <3>1. startEvent' \in SUBSET Threads
      BY <2>e DEF CoderInv, TypeOK, FirstError, Results
    <3>2. threads' \in [Threads -> ThreadType]
      BY <2>d
    <3>. QED
      BY <3>1, <3>2, <2>e, TypedRecords DEF CoderInv, PlainTypes
  <2>2. CallInv'
    BY <2>a, <2>c, <2>d, <2>e DEF CoderInv, CallInv, Quiet
  <2>3. LockInv'
    BY <2>c, <2>d, <2>e DEF CoderInv, LockInv, Reader
  <2>4. WriterInv' /\ RingInv' /\ FreeInv' /\ ApartInv'
    BY <2>f, <2>g
  <2>5. TroubleInv'
    BY <2>a, <2>e DEF TroubleInv, Running
  <2>6. ReadInv'
    BY <2>a, <2>e DEF ReadInv, Running
  <2>7. CodedInv'
    BY <2>a, <2>e DEF CodedInv, Running
  <2>8. OrderInv'
    BY <2>a, <2>e DEF OrderInv, Running
  <2>. QED
    BY <2>1, <2>2, <2>3, <2>4, <2>5, <2>6, <2>7, <2>8 DEF CoderInv
<1>2. CASE ~threads[t].stop
  <2>a. /\ threads[t].pc = "parked" /\ t \in startEvent /\ ~threads[t].stop
        /\ caller.pc = "wait" /\ Running /\ threads[t].res = "ok"
    BY <1>2 DEF CoderInv, CallInv, TypeOK, Wake, Running
  <2>e. /\ UNCHANGED <<caller, readEvent, finishedEvent, blocksSemaphore, stopReading,
                       readProcessed, blockIndex, numStartedThreads, writeIndex,
                       ReadyBlocks, freeBlocks, blocks, numFinishedThreads, readRes,
                       writeRes, progressRes, outBufs, input, written, troubles,
                       faults>>
        /\ startEvent' = startEvent \ {t}
    BY <1>2, Zenon DEF Wake, NoFault, Fault, events, reading, ring, results, history
  <2>. DEFINE r == [threads[t] EXCEPT !.pc = "read"]
  <2>b. threads' = [threads EXCEPT ![t] = r]
    BY <1>2 DEF Wake
  <2>c. /\ r \in ThreadType
        /\ r.pc = "read"
        /\ r.buf = threads[t].buf
        /\ r.bi = threads[t].bi
        /\ r.blk = threads[t].blk
        /\ r.wi = threads[t].wi
        /\ r.n = threads[t].n
        /\ r.stop = threads[t].stop
        /\ r.res = threads[t].res
        /\ r.finished = threads[t].finished
    <3>1. threads[t] \in ThreadType
      BY Records DEF CoderInv
    <3>. QED
      BY <3>1 DEF ThreadType, ThreadPcs
  <2>. HIDE DEF r
  <2>d. /\ threads' \in [Threads -> ThreadType] /\ threads'[t] = r
        /\ \A u \in Threads : u # t => threads'[u] = threads[u]
    BY <2>b, <2>c, Records DEF CoderInv
  <2>f. /\ \A b : IsOldest(b)' <=> IsOldest(b)
        /\ InFlight' = InFlight
        /\ WriterInv' /\ RingInv'
    <3>1. \A u \in Threads :
             /\ Own(u)' <=> Own(u)
             /\ Own(u) => threads'[u].bi = threads[u].bi
             /\ Writer(u)' <=> Writer(u)
             /\ Writer(u) => threads'[u].wi = threads[u].wi
             /\ threads'[u].pc \in {"next", "last"} <=> threads[u].pc \in {"next", "last"}
      BY <2>a, <2>c, <2>d DEF Own, Writer
    <3>. QED
      BY <2>e, <3>1, RingKept
  <2>g. /\ Holders' = Holders /\ Waiting' = Waiting
        /\ \A b : Queued(b)' <=> Queued(b)
        /\ FreeInv' /\ ApartInv'
    <3>1. \A u \in Threads :
             /\ Holds(u)' <=> Holds(u)
             /\ Holds(u) => threads'[u].buf = threads[u].buf
             /\ threads'[u].pc = "next" <=> threads[u].pc = "next"
             /\ threads[u].pc = "next" => threads'[u].wi = threads[u].wi
      BY <2>a, <2>c, <2>d DEF Holds
    <3>. QED
      BY <2>e, <3>1, BuffersKept
  <2>1. TypeOK'
    <3>1. startEvent' \in SUBSET Threads
      BY <2>e DEF CoderInv, TypeOK, FirstError, Results
    <3>2. threads' \in [Threads -> ThreadType]
      BY <2>d
    <3>. QED
      BY <3>1, <3>2, <2>e, TypedRecords DEF CoderInv, PlainTypes
  <2>2. CallInv'
    <3>1. Active' = Active
      BY <2>a, <2>c, <2>d, <2>e DEF Active, Quiet
    <3>. QED
      BY <3>1, <2>a, <2>c, <2>d, <2>e DEF CoderInv, CallInv
  <2>3. LockInv'
    BY <2>c, <2>d, <2>e DEF CoderInv, LockInv, Reader
  <2>4. WriterInv' /\ RingInv' /\ FreeInv' /\ ApartInv'
    BY <2>f, <2>g
  <2>5. TroubleInv'
    BY <2>a, <2>c, <2>d, <2>e, <2>g DEF CoderInv, TroubleInv, FirstError
  <2>6. ReadInv'
    BY <2>a, <2>c, <2>d, <2>e DEF CoderInv, ReadInv, Own
  <2>7. CodedInv'
    BY <2>a, <2>c, <2>d, <2>e, <2>g DEF CoderInv, CodedInv
  <2>8. OrderInv'
    <3>1. Base' = Base
      BY <2>a, <2>c, <2>d, <2>e DEF Base
    <3>2. ASSUME Running, troubles = {}, NEW o \in Blocks, IsOldest(o)
          PROVE  OrderFrom(o)'
      <4>1. OrderFrom(o)
        BY <3>2 DEF CoderInv, OrderInv
      <4>. QED
        BY <4>1, <3>1, <2>c, <2>d, <2>e, <2>g DEF OrderFrom, Own
    <3>3. ASSUME Running, troubles = {}, NEW u \in Threads
          PROVE  OrderOf(u)'
      <4>1. OrderOf(u) /\ OrderOf(t)
        BY <3>3 DEF CoderInv, OrderInv
      <4>. QED
        BY <4>1, <3>1, <2>c, <2>d, <2>e DEF OrderOf
    <3>4. ASSUME Running, troubles = {}
          PROVE  readProcessed' = Base' + InFlight' + Took'
      <4>1. readProcessed = Base + InFlight + Took
        BY <3>4 DEF CoderInv, OrderInv
      <4>. QED
        BY <4>1, <3>1, <2>a, <2>c, <2>d, <2>e, <2>f DEF Took
    <3>5. ASSUME Running, troubles = {}
          PROVE  /\ stopReading' => readProcessed' = input' + 1
                 /\ numFinishedThreads' > 0 => stopReading'
      BY <3>5, <2>e DEF CoderInv, OrderInv
    <3>. QED
      BY <3>2, <3>3, <3>4, <2>a, <2>e, <2>f, <2>g DEF CoderInv, OrderInv
  <2>. QED
    BY <2>1, <2>2, <2>3, <2>4, <2>5, <2>6, <2>7, <2>8 DEF CoderInv
<1>. QED
  BY <1>1, <1>2

\* Code keeps CoderInv.
LEMMA CodeStep ==
    ASSUME CoderInv, NEW t \in Threads, Code(t)
    PROVE  CoderInv'
<1>1. CASE /\ outBufs' = [outBufs EXCEPT ![threads[t].buf] = threads[t].blk]
           /\ threads' = [threads EXCEPT ![t].pc = "publish"]
           /\ NoFault
           /\ UNCHANGED progressRes
  <2>a. /\ threads[t].pc \in {"code"} /\ caller.pc = "wait" /\ Running
        /\ t < numStartedThreads /\ finishedEvent = FALSE /\ t \notin startEvent
    BY <1>1, InCall DEF Code, Quiet, CoderInv
  <2>xa. threads[t].buf \in Buffers /\ t \in Holders /\ threads[t].res = "ok"
        /\ threads[t].blk \in 1 .. input + 1 /\ threads[t].blk \in 0 .. MaxInput + 1
    BY <2>a, Records DEF CoderInv, CodedInv, Holders, ReadInv, Own
  <2>xb. /\ \A u \in Threads : u # t /\ Holds(u) => threads[u].buf # threads[t].buf
         /\ \A b \in Waiting : blocks[b].buf # threads[t].buf
    BY <2>xa DEF CoderInv, ApartInv, Holders, Holds
  <2>xc. \A b \in Blocks : Queued(b) /\ blocks[b].res = "ok" => b \in Waiting
    BY <2>a DEF CoderInv, CodedInv, Waiting, Queued
  <2>xv. threads[t].blk \in 0 .. MaxInput + 1
    BY <2>xa
  <2>xd. /\ outBufs' \in [Buffers -> 0 .. MaxInput + 1] /\ outBufs'[threads[t].buf] = threads[t].blk
         /\ \A f \in Buffers : f # threads[t].buf => outBufs'[f] = outBufs[f]
    BY <1>1, <2>xa, <2>xv DEF CoderInv, TypeOK
  <2>xe. /\ \A u \in Threads : threads[u].buf \in Buffers \union {Nowhere}
         /\ \A b \in Blocks : blocks[b].buf \in Buffers \union {Nowhere}
    BY Records DEF CoderInv
  <2>e. /\ UNCHANGED <<caller, startEvent, readEvent, finishedEvent, blocksSemaphore,
                       stopReading, readProcessed, blockIndex, numStartedThreads,
                       writeIndex, ReadyBlocks, freeBlocks, blocks, numFinishedThreads,
                       readRes, writeRes, progressRes, input, written, troubles,
                       faults>>
        /\ outBufs' = [outBufs EXCEPT ![threads[t].buf] = threads[t].blk]
    BY <1>1, <2>xa, <2>xb, <2>xc, <2>xv, <2>xd, <2>xe, Zenon
       DEF Code, NoFault, Fault, events, reading, ring, results, history
  <2>. DEFINE r == [threads[t] EXCEPT !.pc = "publish"]
  <2>b. threads' = [threads EXCEPT ![t] = r]
    BY <1>1
  <2>c. /\ r \in ThreadType
        /\ r.pc = "publish"
        /\ r.buf = threads[t].buf
        /\ r.bi = threads[t].bi
        /\ r.blk = threads[t].blk
        /\ r.wi = threads[t].wi
        /\ r.n = threads[t].n
        /\ r.stop = threads[t].stop
        /\ r.res = threads[t].res
        /\ r.finished = threads[t].finished
    <3>1. threads[t] \in ThreadType
      BY <1>1, <2>xa, <2>xb, <2>xc, <2>xv, <2>xd, <2>xe, Records, Sizes
         DEF CoderInv, TypeOK, Results, Errors
    <3>. QED
      BY <3>1 DEF ThreadType, ThreadPcs
  <2>. HIDE DEF r
  <2>d. /\ threads' \in [Threads -> ThreadType] /\ threads'[t] = r
        /\ \A u \in Threads : u # t => threads'[u] = threads[u]
    BY <2>b, <2>c, Records DEF CoderInv
  <2>f. /\ \A b : IsOldest(b)' <=> IsOldest(b)
        /\ InFlight' = InFlight
        /\ WriterInv' /\ RingInv'
    <3>1. \A u \in Threads :
             /\ Own(u)' <=> Own(u)
             /\ Own(u) => threads'[u].bi = threads[u].bi
             /\ Writer(u)' <=> Writer(u)
             /\ Writer(u) => threads'[u].wi = threads[u].wi
             /\ threads'[u].pc \in {"next", "last"} <=> threads[u].pc \in {"next", "last"}
      BY <2>a, <2>c, <2>d DEF Own, Writer
    <3>. QED
      BY <2>e, <3>1, RingKept
  <2>g. /\ Holders' = Holders /\ Waiting' = Waiting
        /\ \A b : Queued(b)' <=> Queued(b)
        /\ FreeInv' /\ ApartInv'
    <3>1. \A u \in Threads :
             /\ Holds(u)' <=> Holds(u)
             /\ Holds(u) => threads'[u].buf = threads[u].buf
             /\ threads'[u].pc = "next" <=> threads[u].pc = "next"
             /\ threads[u].pc = "next" => threads'[u].wi = threads[u].wi
      BY <2>a, <2>c, <2>d DEF Holds
    <3>. QED
      BY <2>e, <3>1, BuffersKept
  <2>1. TypeOK'
    <3>1. outBufs' \in [Buffers -> 0 .. MaxInput + 1]
      BY <2>xd
    <3>2. threads' \in [Threads -> ThreadType]
      BY <2>d
    <3>. QED
      BY <3>1, <3>2, <2>e, TypedRecords DEF CoderInv, PlainTypes
  <2>2. CallInv'
    <3>1. Active' = Active
      BY <2>a, <2>c, <2>d, <2>e DEF Active, Quiet
    <3>. QED
      BY <3>1, <2>a, <2>c, <2>d, <2>e DEF CoderInv, CallInv
  <2>3. LockInv'
    BY <2>c, <2>d, <2>e DEF CoderInv, LockInv, Reader
  <2>4. WriterInv' /\ RingInv' /\ FreeInv' /\ ApartInv'
    BY <2>f, <2>g
  <2>5. TroubleInv'
    BY <2>xa, <2>a, <2>c, <2>d, <2>e, <2>g DEF CoderInv, TroubleInv, FirstError
  <2>6. ReadInv'
    BY <2>a, <2>c, <2>d, <2>e DEF CoderInv, ReadInv, Own
  <2>7. CodedInv'
    <3>1. \A u \in Threads : u # t /\ Holds(u) => outBufs'[threads[u].buf] = outBufs[threads[u].buf]
      BY <2>xb, <2>xd, <2>xe DEF Holds
    <3>2. \A b \in Waiting : outBufs'[blocks[b].buf] = outBufs[blocks[b].buf]
      BY <2>xb, <2>xd, <2>xe DEF Waiting
    <3>. QED
      BY <2>xb, <2>xc, <2>xd, <2>a, <2>c, <2>d, <2>e, <2>g DEF CoderInv, CodedInv, Holds
  <2>8. OrderInv'
    <3>1. Base' = Base
      BY <2>a, <2>c, <2>d, <2>e DEF Base
    <3>0. /\ \A u \in Threads : u # t /\ Holds(u) =>
               outBufs'[threads[u].buf] = outBufs[threads[u].buf]
          /\ \A b \in Waiting : outBufs'[blocks[b].buf] = outBufs[blocks[b].buf]
      BY <2>xb, <2>xd, <2>xe DEF Holds, Waiting
    <3>2. ASSUME troubles = {}, NEW o \in Blocks, IsOldest(o)
          PROVE  OrderFrom(o)'
      <4>1. OrderFrom(o) /\ \A b \in Blocks : Queued(b) => b \in Waiting
        BY <2>a, <2>xc, <3>2 DEF CoderInv, OrderInv, TroubleInv
      <4>. QED
        BY <4>1, <3>1, <3>0, <2>a, <2>c, <2>d, <2>e, <2>g DEF OrderFrom, Own
    <3>3. ASSUME troubles = {}, NEW u \in Threads
          PROVE  OrderOf(u)'
      <4>1. OrderOf(u) /\ OrderOf(t) /\ (threads[u].pc = "write" => Holds(u))
        BY <2>a, <3>3 DEF CoderInv, OrderInv, CodedInv, Holds
      <4>. QED
        BY <4>1, <3>1, <3>0, <2>a, <2>c, <2>d, <2>e DEF OrderOf
    <3>4. ASSUME Running, troubles = {}
          PROVE  readProcessed' = Base' + InFlight' + Took'
      <4>1. readProcessed = Base + InFlight + Took
        BY <3>4 DEF CoderInv, OrderInv
      <4>. QED
        BY <4>1, <3>1, <3>4, <2>a, <2>c, <2>d, <2>e, <2>f
           DEF CoderInv, TroubleInv, LockInv, Reader, Took
    <3>5. ASSUME Running, troubles = {}
          PROVE  /\ stopReading' => readProcessed' = input' + 1
                 /\ numFinishedThreads' > 0 => stopReading'
      BY <3>5, <2>e DEF CoderInv, OrderInv
    <3>. QED
      BY <3>2, <3>3, <3>4, <2>a, <2>e, <2>f, <2>g DEF CoderInv, OrderInv
  <2>. QED
    BY <2>1, <2>2, <2>3, <2>4, <2>5, <2>6, <2>7, <2>8 DEF CoderInv
<1>2. CASE /\ Fault("code")
           /\ progressRes' = FirstError("code")
           /\ outBufs' = [outBufs EXCEPT ![threads[t].buf] = 0]
           /\ threads' = [threads EXCEPT ![t].pc = "publish", ![t].res = "code"]
  <2>a. /\ threads[t].pc \in {"code"} /\ caller.pc = "wait" /\ Running
        /\ t < numStartedThreads /\ finishedEvent = FALSE /\ t \notin startEvent
    BY <1>2, InCall DEF Code, Quiet, CoderInv
  <2>xa. threads[t].buf \in Buffers /\ t \in Holders /\ threads[t].res = "ok"
        /\ threads[t].blk \in 1 .. input + 1 /\ threads[t].blk \in 0 .. MaxInput + 1
    BY <2>a, Records DEF CoderInv, CodedInv, Holders, ReadInv, Own
  <2>xb. /\ \A u \in Threads : u # t /\ Holds(u) => threads[u].buf # threads[t].buf
         /\ \A b \in Waiting : blocks[b].buf # threads[t].buf
    BY <2>xa DEF CoderInv, ApartInv, Holders, Holds
  <2>xc. \A b \in Blocks : Queued(b) /\ blocks[b].res = "ok" => b \in Waiting
    BY <2>a DEF CoderInv, CodedInv, Waiting, Queued
  <2>xv. 0 \in 0 .. MaxInput + 1
    BY Sizes
  <2>xd. /\ outBufs' \in [Buffers -> 0 .. MaxInput + 1] /\ outBufs'[threads[t].buf] = 0
         /\ \A f \in Buffers : f # threads[t].buf => outBufs'[f] = outBufs[f]
    BY <1>2, <2>xa, <2>xv DEF CoderInv, TypeOK
  <2>xe. /\ \A u \in Threads : threads[u].buf \in Buffers \union {Nowhere}
         /\ \A b \in Blocks : blocks[b].buf \in Buffers \union {Nowhere}
    BY Records DEF CoderInv
  <2>e. /\ UNCHANGED <<caller, startEvent, readEvent, finishedEvent, blocksSemaphore,
                       stopReading, readProcessed, blockIndex, numStartedThreads,
                       writeIndex, ReadyBlocks, freeBlocks, blocks, numFinishedThreads,
                       readRes, writeRes, input, written>>
        /\ progressRes' = FirstError("code")
        /\ troubles' = troubles \union {"code"}
        /\ faults' = faults + 1
        /\ outBufs' = [outBufs EXCEPT ![threads[t].buf] = 0]
        /\ faults < MaxFaults
        /\ "code" \in Errors
    BY <1>2, <2>xa, <2>xb, <2>xc, <2>xv, <2>xd, <2>xe, Zenon
       DEF Code, NoFault, Fault, Errors, events, reading, ring, results, history
  <2>. DEFINE r == [threads[t] EXCEPT !.pc = "publish", !.res = "code"]
  <2>b. threads' = [threads EXCEPT ![t] = r]
    BY <1>2, Records DEF CoderInv, Code
  <2>c. /\ r \in ThreadType
        /\ r.pc = "publish"
        /\ r.res = "code"
        /\ r.buf = threads[t].buf
        /\ r.bi = threads[t].bi
        /\ r.blk = threads[t].blk
        /\ r.wi = threads[t].wi
        /\ r.n = threads[t].n
        /\ r.stop = threads[t].stop
        /\ r.finished = threads[t].finished
    <3>1. threads[t] \in ThreadType
      BY <1>2, <2>xa, <2>xb, <2>xc, <2>xv, <2>xd, <2>xe, Records, Sizes
         DEF CoderInv, TypeOK, Results, Errors
    <3>. QED
      BY <3>1 DEF ThreadType, ThreadPcs, Results, Errors
  <2>. HIDE DEF r
  <2>d. /\ threads' \in [Threads -> ThreadType] /\ threads'[t] = r
        /\ \A u \in Threads : u # t => threads'[u] = threads[u]
    BY <2>b, <2>c, Records DEF CoderInv
  <2>f. /\ \A b : IsOldest(b)' <=> IsOldest(b)
        /\ InFlight' = InFlight
        /\ WriterInv' /\ RingInv'
    <3>1. \A u \in Threads :
             /\ Own(u)' <=> Own(u)
             /\ Own(u) => threads'[u].bi = threads[u].bi
             /\ Writer(u)' <=> Writer(u)
             /\ Writer(u) => threads'[u].wi = threads[u].wi
             /\ threads'[u].pc \in {"next", "last"} <=> threads[u].pc \in {"next", "last"}
      BY <2>a, <2>c, <2>d DEF Own, Writer
    <3>. QED
      BY <2>e, <3>1, RingKept
  <2>g. /\ Holders' = Holders /\ Waiting' = Waiting
        /\ \A b : Queued(b)' <=> Queued(b)
        /\ FreeInv' /\ ApartInv'
    <3>1. \A u \in Threads :
             /\ Holds(u)' <=> Holds(u)
             /\ Holds(u) => threads'[u].buf = threads[u].buf
             /\ threads'[u].pc = "next" <=> threads[u].pc = "next"
             /\ threads[u].pc = "next" => threads'[u].wi = threads[u].wi
      BY <2>a, <2>c, <2>d DEF Holds
    <3>. QED
      BY <2>e, <3>1, BuffersKept
  <2>1. TypeOK'
    <3>1. progressRes' \in Results
      BY <2>e DEF CoderInv, TypeOK, FirstError, Results
    <3>2. troubles' \in SUBSET Errors
      BY <2>e DEF CoderInv, TypeOK
    <3>3. faults' \in 0 .. MaxFaults
      BY <2>e, Sizes DEF CoderInv, TypeOK
    <3>4. outBufs' \in [Buffers -> 0 .. MaxInput + 1]
      BY <2>xd
    <3>5. threads' \in [Threads -> ThreadType]
      BY <2>d
    <3>. QED
      BY <3>1, <3>2, <3>3, <3>4, <3>5, <2>e, TypedRecords DEF CoderInv, PlainTypes
  <2>2. CallInv'
    <3>1. Active' = Active
      BY <2>a, <2>c, <2>d, <2>e DEF Active, Quiet
    <3>. QED
      BY <3>1, <2>a, <2>c, <2>d, <2>e DEF CoderInv, CallInv
  <2>3. LockInv'
    BY <2>c, <2>d, <2>e DEF CoderInv, LockInv, Reader
  <2>4. WriterInv' /\ RingInv' /\ FreeInv' /\ ApartInv'
    BY <2>f, <2>g
  <2>5. TroubleInv'
    BY <2>a, <2>e DEF CoderInv, TroubleInv, FirstError
  <2>6. ReadInv'
    BY <2>a, <2>c, <2>d, <2>e DEF CoderInv, ReadInv, Own
  <2>7. CodedInv'
    <3>1. \A u \in Threads : u # t /\ Holds(u) => outBufs'[threads[u].buf] = outBufs[threads[u].buf]
      BY <2>xb, <2>xd, <2>xe DEF Holds
    <3>2. \A b \in Waiting : outBufs'[blocks[b].buf] = outBufs[blocks[b].buf]
      BY <2>xb, <2>xd, <2>xe DEF Waiting
    <3>. QED
      BY <2>xb, <2>xc, <2>a, <2>c, <2>d, <2>e, <2>g DEF CoderInv, CodedInv, Holds
  <2>8. OrderInv'
    BY <2>xa, <2>xb, <2>xc, <2>xv, <2>xd, <2>xe, <2>a, <2>c, <2>d, <2>e DEF OrderInv
  <2>. QED
    BY <2>1, <2>2, <2>3, <2>4, <2>5, <2>6, <2>7, <2>8 DEF CoderInv
<1>. QED
  BY <1>1, <1>2 DEF Code

\* Write keeps CoderInv.
LEMMA WriteStep ==
    ASSUME CoderInv, NEW t \in Threads, Write(t)
    PROVE  CoderInv'
<1>1. CASE /\ written' = Append(written, outBufs[threads[t].buf])
           /\ threads' = [threads EXCEPT ![t].pc = "release"]
           /\ NoFault
           /\ UNCHANGED results
  <2>a. /\ threads[t].pc \in {"write"} /\ caller.pc = "wait" /\ Running
        /\ t < numStartedThreads /\ finishedEvent = FALSE /\ t \notin startEvent
    BY <1>1, InCall DEF Write, Quiet, CoderInv
  <2>xb. /\ threads[t].buf \in Buffers /\ outBufs[threads[t].buf] \in 1 .. input + 1
         /\ \A u \in Threads : u # t => ~Writer(u)
    BY <2>a, Records DEF CoderInv, CodedInv, WriterInv, Writer
  <2>xa. outBufs[threads[t].buf] \in 1 .. MaxInput + 1
    BY <2>xb DEF CoderInv, TypeOK
  <2>e. /\ UNCHANGED <<caller, startEvent, readEvent, finishedEvent, blocksSemaphore,
                       stopReading, readProcessed, blockIndex, numStartedThreads,
                       writeIndex, ReadyBlocks, freeBlocks, blocks, numFinishedThreads,
                       readRes, writeRes, progressRes, outBufs, input, troubles,
                       faults>>
        /\ written' = Append(written, outBufs[threads[t].buf])
    BY <1>1, <2>xb, <2>xa, Zenon
       DEF Write, NoFault, Fault, events, reading, ring, results, history
  <2>. DEFINE r == [threads[t] EXCEPT !.pc = "release"]
  <2>b. threads' = [threads EXCEPT ![t] = r]
    BY <1>1
  <2>c. /\ r \in ThreadType
        /\ r.pc = "release"
        /\ r.buf = threads[t].buf
        /\ r.bi = threads[t].bi
        /\ r.blk = threads[t].blk
        /\ r.wi = threads[t].wi
        /\ r.n = threads[t].n
        /\ r.stop = threads[t].stop
        /\ r.res = threads[t].res
        /\ r.finished = threads[t].finished
    <3>1. threads[t] \in ThreadType
      BY <1>1, <2>xb, <2>xa, Records, Sizes DEF CoderInv, TypeOK, Results, Errors
    <3>. QED
      BY <3>1 DEF ThreadType, ThreadPcs
  <2>. HIDE DEF r
  <2>d. /\ threads' \in [Threads -> ThreadType] /\ threads'[t] = r
        /\ \A u \in Threads : u # t => threads'[u] = threads[u]
    BY <2>b, <2>c, Records DEF CoderInv
  <2>f. /\ \A b : IsOldest(b)' <=> IsOldest(b)
        /\ InFlight' = InFlight
        /\ WriterInv' /\ RingInv'
    <3>1. \A u \in Threads :
             /\ Own(u)' <=> Own(u)
             /\ Own(u) => threads'[u].bi = threads[u].bi
             /\ Writer(u)' <=> Writer(u)
             /\ Writer(u) => threads'[u].wi = threads[u].wi
             /\ threads'[u].pc \in {"next", "last"} <=> threads[u].pc \in {"next", "last"}
      BY <2>a, <2>c, <2>d DEF Own, Writer
    <3>. QED
      BY <2>e, <3>1, RingKept
  <2>g. /\ Holders' = Holders /\ Waiting' = Waiting
        /\ \A b : Queued(b)' <=> Queued(b)
        /\ FreeInv' /\ ApartInv'
    <3>1. \A u \in Threads :
             /\ Holds(u)' <=> Holds(u)
             /\ Holds(u) => threads'[u].buf = threads[u].buf
             /\ threads'[u].pc = "next" <=> threads[u].pc = "next"
             /\ threads[u].pc = "next" => threads'[u].wi = threads[u].wi
      BY <2>a, <2>c, <2>d DEF Holds
    <3>. QED
      BY <2>e, <3>1, BuffersKept
  <2>1. TypeOK'
    <3>1. written' \in Seq(1 .. MaxInput + 1)
      BY <2>xa, <2>e DEF CoderInv, TypeOK, FirstError, Results
    <3>2. threads' \in [Threads -> ThreadType]
      BY <2>d
    <3>. QED
      BY <3>1, <3>2, <2>e, TypedRecords DEF CoderInv, PlainTypes
  <2>2. CallInv'
    <3>1. Active' = Active
      BY <2>a, <2>c, <2>d, <2>e DEF Active, Quiet
    <3>. QED
      BY <3>1, <2>a, <2>c, <2>d, <2>e DEF CoderInv, CallInv
  <2>3. LockInv'
    BY <2>c, <2>d, <2>e DEF CoderInv, LockInv, Reader
  <2>4. WriterInv' /\ RingInv' /\ FreeInv' /\ ApartInv'
    BY <2>f, <2>g
  <2>5. TroubleInv'
    BY <2>a, <2>c, <2>d, <2>e, <2>g DEF CoderInv, TroubleInv, FirstError, Quiet
  <2>6. ReadInv'
    BY <2>a, <2>c, <2>d, <2>e DEF CoderInv, ReadInv, Running, Own
  <2>7. CodedInv'
    BY <2>a, <2>c, <2>d, <2>e, <2>g DEF CoderInv, CodedInv
  <2>8. OrderInv'
    <3>1. Base' = Base
      <4>1. Len(written') = Len(written) + 1
        BY <2>e
      <4>. QED
        BY <4>1, <2>xb, <2>a, <2>c, <2>d DEF Base, Writer
    <3>2. ASSUME Running, troubles = {}, NEW o \in Blocks, IsOldest(o)
          PROVE  OrderFrom(o)'
      <4>1. OrderFrom(o)
        BY <3>2 DEF CoderInv, OrderInv
      <4>. QED
        BY <4>1, <3>1, <2>c, <2>d, <2>e, <2>g DEF OrderFrom, Own
    <3>3. ASSUME Running, troubles = {}, NEW u \in Threads
          PROVE  OrderOf(u)'
      <4>1. OrderOf(u) /\ OrderOf(t)
        BY <3>3 DEF CoderInv, OrderInv
      <4>. QED
        BY <4>1, <3>1, <3>3, <2>xb, <2>a, <2>c, <2>d, <2>e DEF OrderOf
    <3>4. ASSUME Running, troubles = {}
          PROVE  readProcessed' = Base' + InFlight' + Took'
      <4>1. readProcessed = Base + InFlight + Took
        BY <3>4 DEF CoderInv, OrderInv
      <4>. QED
        BY <4>1, <3>1, <3>4, <2>xb, <2>xa, <2>a, <2>c, <2>d, <2>e, <2>f, Numbers
           DEF CoderInv, TroubleInv, LockInv, Reader, Took
    <3>5. ASSUME Running, troubles = {}
          PROVE  /\ stopReading' => readProcessed' = input' + 1
                 /\ numFinishedThreads' > 0 => stopReading'
      BY <3>5, <2>e DEF CoderInv, OrderInv
    <3>. QED
      BY <3>2, <3>3, <3>4, <2>a, <2>e, <2>f, <2>g DEF CoderInv, OrderInv
  <2>. QED
    BY <2>1, <2>2, <2>3, <2>4, <2>5, <2>6, <2>7, <2>8 DEF CoderInv
<1>2. CASE /\ Fault("write")
           /\ writeRes' = "write"
           /\ progressRes' = FirstError("write")
           /\ threads' = [threads EXCEPT ![t].pc = "release", ![t].res = "write"]
           /\ UNCHANGED <<readRes, written>>
  <2>a. /\ threads[t].pc \in {"write"} /\ caller.pc = "wait" /\ Running
        /\ t < numStartedThreads /\ finishedEvent = FALSE /\ t \notin startEvent
    BY <1>2, InCall DEF Write, Quiet, CoderInv
  <2>e. /\ UNCHANGED <<caller, startEvent, readEvent, finishedEvent, blocksSemaphore,
                       stopReading, readProcessed, blockIndex, numStartedThreads,
                       writeIndex, ReadyBlocks, freeBlocks, blocks, numFinishedThreads,
                       readRes, outBufs, input, written>>
        /\ writeRes' = "write"
        /\ progressRes' = FirstError("write")
        /\ troubles' = troubles \union {"write"}
        /\ faults' = faults + 1
        /\ faults < MaxFaults
        /\ "write" \in Errors
    BY <1>2, Zenon
       DEF Write, NoFault, Fault, Errors, events, reading, ring, results, history
  <2>. DEFINE r == [threads[t] EXCEPT !.pc = "release", !.res = "write"]
  <2>b. threads' = [threads EXCEPT ![t] = r]
    BY <1>2, Records DEF CoderInv, Write
  <2>c. /\ r \in ThreadType
        /\ r.pc = "release"
        /\ r.res = "write"
        /\ r.buf = threads[t].buf
        /\ r.bi = threads[t].bi
        /\ r.blk = threads[t].blk
        /\ r.wi = threads[t].wi
        /\ r.n = threads[t].n
        /\ r.stop = threads[t].stop
        /\ r.finished = threads[t].finished
    <3>1. threads[t] \in ThreadType
      BY <1>2, Records, Sizes DEF CoderInv, TypeOK, Results, Errors
    <3>. QED
      BY <3>1 DEF ThreadType, ThreadPcs, Results, Errors
  <2>. HIDE DEF r
  <2>d. /\ threads' \in [Threads -> ThreadType] /\ threads'[t] = r
        /\ \A u \in Threads : u # t => threads'[u] = threads[u]
    BY <2>b, <2>c, Records DEF CoderInv
  <2>f. /\ \A b : IsOldest(b)' <=> IsOldest(b)
        /\ InFlight' = InFlight
        /\ WriterInv' /\ RingInv'
    <3>1. \A u \in Threads :
             /\ Own(u)' <=> Own(u)
             /\ Own(u) => threads'[u].bi = threads[u].bi
             /\ Writer(u)' <=> Writer(u)
             /\ Writer(u) => threads'[u].wi = threads[u].wi
             /\ threads'[u].pc \in {"next", "last"} <=> threads[u].pc \in {"next", "last"}
      BY <2>a, <2>c, <2>d DEF Own, Writer
    <3>. QED
      BY <2>e, <3>1, RingKept
  <2>g. /\ Holders' = Holders /\ Waiting' = Waiting
        /\ \A b : Queued(b)' <=> Queued(b)
        /\ FreeInv' /\ ApartInv'
    <3>1. \A u \in Threads :
             /\ Holds(u)' <=> Holds(u)
             /\ Holds(u) => threads'[u].buf = threads[u].buf
             /\ threads'[u].pc = "next" <=> threads[u].pc = "next"
             /\ threads[u].pc = "next" => threads'[u].wi = threads[u].wi
      BY <2>a, <2>c, <2>d DEF Holds
    <3>. QED
      BY <2>e, <3>1, BuffersKept
  <2>1. TypeOK'
    <3>1. writeRes' \in Results
      BY <2>e DEF Results
    <3>2. progressRes' \in Results
      BY <2>e DEF CoderInv, TypeOK, FirstError, Results
    <3>3. troubles' \in SUBSET Errors
      BY <2>e DEF CoderInv, TypeOK
    <3>4. faults' \in 0 .. MaxFaults
      BY <2>e, Sizes DEF CoderInv, TypeOK
    <3>5. threads' \in [Threads -> ThreadType]
      BY <2>d
    <3>. QED
      BY <3>1, <3>2, <3>3, <3>4, <3>5, <2>e, TypedRecords DEF CoderInv, PlainTypes
  <2>2. CallInv'
    <3>1. Active' = Active
      BY <2>a, <2>c, <2>d, <2>e DEF Active, Quiet
    <3>. QED
      BY <3>1, <2>a, <2>c, <2>d, <2>e DEF CoderInv, CallInv
  <2>3. LockInv'
    BY <2>c, <2>d, <2>e DEF CoderInv, LockInv, Reader
  <2>4. WriterInv' /\ RingInv' /\ FreeInv' /\ ApartInv'
    BY <2>f, <2>g
  <2>5. TroubleInv'
    BY <2>a, <2>e DEF CoderInv, TroubleInv, FirstError
  <2>6. ReadInv'
    BY <2>a, <2>c, <2>d, <2>e DEF CoderInv, ReadInv, Own
  <2>7. CodedInv'
    BY <2>a, <2>c, <2>d, <2>e, <2>g DEF CoderInv, CodedInv
  <2>8. OrderInv'
    BY <2>a, <2>c, <2>d, <2>e DEF OrderInv
  <2>. QED
    BY <2>1, <2>2, <2>3, <2>4, <2>5, <2>6, <2>7, <2>8 DEF CoderInv
<1>. QED
  BY <1>1, <1>2 DEF Write

\* Finish keeps CoderInv.
LEMMA FinishStep ==
    ASSUME CoderInv, NEW t \in Threads, Finish(t)
    PROVE  CoderInv'
<1>a. /\ threads[t].pc \in {"done"} /\ caller.pc = "wait" /\ Running
      /\ t < numStartedThreads /\ finishedEvent = FALSE /\ t \notin startEvent
  BY InCall DEF Finish, Quiet, CoderInv
<1>xa. t \in Active
  BY <1>a DEF Active, Quiet
<1>xb. /\ numFinishedThreads + Cardinality(Active) = numStartedThreads
       /\ Cardinality(Active) \in Nat \ {0} /\ IsFiniteSet(Active)
  BY <1>a, <1>xa, ThreadSets, FS_EmptySet DEF CoderInv, CallInv
<1>xc. /\ numFinishedThreads + 1 \in 0 .. NumThreads /\ numFinishedThreads \in Nat
  BY <1>xb, Sizes DEF CoderInv, TypeOK
<1>e. /\ UNCHANGED <<caller, startEvent, readEvent, finishedEvent, blocksSemaphore,
                     stopReading, readProcessed, blockIndex, numStartedThreads,
                     writeIndex, ReadyBlocks, freeBlocks, blocks, readRes, writeRes,
                     progressRes, outBufs, input, written, troubles, faults>>
      /\ numFinishedThreads' = numFinishedThreads + 1
  BY <1>xa, <1>xb, <1>xc, Zenon
     DEF Finish, NoFault, Fault, events, reading, ring, results, history
<1>. DEFINE r == [threads[t] EXCEPT !.pc = "count", !.n = numFinishedThreads + 1]
<1>b. threads' = [threads EXCEPT ![t] = r]
  BY Records DEF CoderInv, Finish
<1>c. /\ r \in ThreadType
      /\ r.pc = "count"
      /\ r.n = numFinishedThreads + 1
      /\ r.buf = threads[t].buf
      /\ r.bi = threads[t].bi
      /\ r.blk = threads[t].blk
      /\ r.wi = threads[t].wi
      /\ r.stop = threads[t].stop
      /\ r.res = threads[t].res
      /\ r.finished = threads[t].finished
  <2>1. threads[t] \in ThreadType /\ numFinishedThreads + 1 \in 0 .. NumThreads
    BY <1>xa, <1>xb, <1>xc, Records, Sizes DEF CoderInv, TypeOK, Results, Errors
  <2>. QED
    BY <2>1 DEF ThreadType, ThreadPcs, Results, Errors
<1>. HIDE DEF r
<1>d. /\ threads' \in [Threads -> ThreadType] /\ threads'[t] = r
      /\ \A u \in Threads : u # t => threads'[u] = threads[u]
  BY <1>b, <1>c, Records DEF CoderInv
<1>f. /\ \A b : IsOldest(b)' <=> IsOldest(b)
      /\ InFlight' = InFlight
      /\ WriterInv' /\ RingInv'
  <2>1. \A u \in Threads :
           /\ Own(u)' <=> Own(u)
           /\ Own(u) => threads'[u].bi = threads[u].bi
           /\ Writer(u)' <=> Writer(u)
           /\ Writer(u) => threads'[u].wi = threads[u].wi
           /\ threads'[u].pc \in {"next", "last"} <=> threads[u].pc \in {"next", "last"}
    BY <1>a, <1>c, <1>d DEF Own, Writer
  <2>. QED
    BY <1>e, <2>1, RingKept
<1>g. /\ Holders' = Holders /\ Waiting' = Waiting
      /\ \A b : Queued(b)' <=> Queued(b)
      /\ FreeInv' /\ ApartInv'
  <2>1. \A u \in Threads :
           /\ Holds(u)' <=> Holds(u)
           /\ Holds(u) => threads'[u].buf = threads[u].buf
           /\ threads'[u].pc = "next" <=> threads[u].pc = "next"
           /\ threads[u].pc = "next" => threads'[u].wi = threads[u].wi
    BY <1>a, <1>c, <1>d DEF Holds
  <2>. QED
    BY <1>e, <2>1, BuffersKept
<1>1. TypeOK'
  <2>1. numFinishedThreads' \in 0 .. NumThreads
    BY <1>xa, <1>xb, <1>xc, <1>a, <1>e, Sizes DEF CoderInv, TypeOK, FirstError, Results
  <2>2. threads' \in [Threads -> ThreadType]
    BY <1>d
  <2>. QED
    BY <2>1, <2>2, <1>e, TypedRecords DEF CoderInv, PlainTypes
<1>2. CallInv'
  <2>1. Active' = Active \ {t}
    BY <1>a, <1>c, <1>d, <1>e DEF Active, Quiet
  <2>2. Cardinality(Active') = Cardinality(Active) - 1
    BY <2>1, <1>xa, <1>xb, FS_RemoveElement
  <2>3. numFinishedThreads' + Cardinality(Active') = numStartedThreads'
    BY <2>2, <1>xb, <1>xc, <1>e
  <2>. QED
    BY <2>3, <1>xa, <1>xb, <1>xc, <1>a, <1>c, <1>d, <1>e, Records
       DEF CoderInv, CallInv, Quiet
<1>3. LockInv'
  BY <1>xa, <1>xb, <1>xc, <1>a, <1>c, <1>d, <1>e DEF CoderInv, LockInv, Reader
<1>4. WriterInv' /\ RingInv' /\ FreeInv' /\ ApartInv'
  BY <1>f, <1>g
<1>5. TroubleInv'
  BY <1>xa, <1>xb, <1>xc, <1>a, <1>c, <1>d, <1>e, <1>g
     DEF CoderInv, TroubleInv, FirstError, Running, Quiet
<1>6. ReadInv'
  BY <1>xa, <1>xb, <1>xc, <1>a, <1>c, <1>d, <1>e
     DEF CoderInv, ReadInv, LockInv, Reader, Running, Own
<1>7. CodedInv'
  BY <1>xa, <1>xb, <1>xc, <1>a, <1>c, <1>d, <1>e, <1>g DEF CoderInv, CodedInv, Running
<1>8. OrderInv'
  <2>1. Base' = Base
    BY <1>xa, <1>xb, <1>xc, <1>a, <1>c, <1>d, <1>e DEF Base
  <2>2. ASSUME Running, troubles = {}, NEW o \in Blocks, IsOldest(o)
        PROVE  OrderFrom(o)'
    <3>1. OrderFrom(o)
      BY <2>2 DEF CoderInv, OrderInv
    <3>. QED
      BY <3>1, <2>1, <1>xa, <1>xb, <1>xc, <1>a, <1>c, <1>d, <1>e, <1>g
         DEF OrderFrom, Own
  <2>3. ASSUME Running, troubles = {}, NEW u \in Threads
        PROVE  OrderOf(u)'
    <3>1. OrderOf(u) /\ OrderOf(t)
      BY <2>3 DEF CoderInv, OrderInv
    <3>. QED
      BY <3>1, <2>1, <2>3, <1>xa, <1>xb, <1>xc, <1>a, <1>c, <1>d, <1>e, Numbers
         DEF CoderInv, TroubleInv, LockInv, Reader, OrderOf
  <2>4. ASSUME Running, troubles = {}
        PROVE  readProcessed' = Base' + InFlight' + Took'
    <3>1. readProcessed = Base + InFlight + Took
      BY <2>4 DEF CoderInv, OrderInv
    <3>. QED
      BY <3>1, <2>1, <2>4, <1>xa, <1>xb, <1>xc, <1>a, <1>c, <1>d, <1>e, <1>f, Numbers
         DEF CoderInv, TroubleInv, LockInv, Reader, Took
  <2>5. ASSUME Running, troubles = {}
        PROVE  /\ stopReading' => readProcessed' = input' + 1
               /\ numFinishedThreads' > 0 => stopReading'
    BY <2>5, <1>xa, <1>xb, <1>xc, <1>a, <1>c, <1>d, <1>e DEF CoderInv, OrderInv, OrderOf
  <2>. QED
    BY <2>2, <2>3, <2>4, <2>5, <1>a, <1>e, <1>f, <1>g DEF CoderInv, OrderInv, Running
<1>. QED
  BY <1>1, <1>2, <1>3, <1>4, <1>5, <1>6, <1>7, <1>8 DEF CoderInv

\* Count keeps CoderInv.
LEMMA CountStep ==
    ASSUME CoderInv, NEW t \in Threads, Count(t)
    PROVE  CoderInv'
<1>a. threads[t].pc = "count" /\ caller.pc \notin {"props", "init", "start"}
  BY DEF CoderInv, CallInv, Count
<1>xa. AllFinished(t) \in BOOLEAN /\ AllFinished(t) <=> threads[t].n = numStartedThreads
  BY DEF AllFinished
<1>e. /\ UNCHANGED <<caller, startEvent, readEvent, blocksSemaphore, stopReading,
                     readProcessed, blockIndex, numStartedThreads, writeIndex,
                     ReadyBlocks, freeBlocks, blocks, numFinishedThreads, readRes,
                     writeRes, progressRes, outBufs, input, written, troubles, faults>>
      /\ finishedEvent' = (finishedEvent \/ AllFinished(t))
  BY <1>xa, Zenon DEF Count, NoFault, Fault, events, reading, ring, results, history
<1>. DEFINE r == [NewThread EXCEPT !.pc = "parked", !.stop = threads[t].stop]
<1>b. threads' = [threads EXCEPT ![t] = r]
  BY DEF Count, Without
<1>c. /\ r \in ThreadType
      /\ r.pc = "parked"
      /\ r.res = "ok"
      /\ r.stop = threads[t].stop
  <2>1. threads[t] \in ThreadType /\ threads[t].stop \in BOOLEAN
    BY <1>xa, Records, Sizes DEF CoderInv, TypeOK, Results, Errors
  <2>. QED
    BY <2>1, NewThreads DEF ThreadType, ThreadPcs
<1>. HIDE DEF r
<1>d. /\ threads' \in [Threads -> ThreadType] /\ threads'[t] = r
      /\ \A u \in Threads : u # t => threads'[u] = threads[u]
  BY <1>b, <1>c, Records DEF CoderInv
<1>f. /\ \A b : IsOldest(b)' <=> IsOldest(b)
      /\ InFlight' = InFlight
      /\ WriterInv' /\ RingInv'
  <2>1. \A u \in Threads :
           /\ Own(u)' <=> Own(u)
           /\ Own(u) => threads'[u].bi = threads[u].bi
           /\ Writer(u)' <=> Writer(u)
           /\ Writer(u) => threads'[u].wi = threads[u].wi
           /\ threads'[u].pc \in {"next", "last"} <=> threads[u].pc \in {"next", "last"}
    BY <1>a, <1>c, <1>d DEF Own, Writer
  <2>. QED
    BY <1>e, <2>1, RingKept
<1>g. /\ Holders' = Holders /\ Waiting' = Waiting
      /\ \A b : Queued(b)' <=> Queued(b)
      /\ FreeInv' /\ ApartInv'
  <2>1. \A u \in Threads :
           /\ Holds(u)' <=> Holds(u)
           /\ Holds(u) => threads'[u].buf = threads[u].buf
           /\ threads'[u].pc = "next" <=> threads[u].pc = "next"
           /\ threads[u].pc = "next" => threads'[u].wi = threads[u].wi
    BY <1>a, <1>c, <1>d DEF Holds
  <2>. QED
    BY <1>e, <2>1, BuffersKept
<1>1. TypeOK'
  <2>1. finishedEvent' \in BOOLEAN
    BY <1>e
  <2>2. threads' \in [Threads -> ThreadType]
    BY <1>d
  <2>. QED
    BY <2>1, <2>2, <1>e, TypedRecords DEF CoderInv, PlainTypes
<1>2. CallInv'
  <2>1. caller.pc = "wait" => Active' = Active
    BY <1>a, <1>c, <1>d, <1>e DEF CoderInv, CallInv, Active, Quiet
  <2>2. ASSUME caller.pc = "wait", AllFinished(t)
        PROVE  Active = {}
    <3>1. threads[t].n = numStartedThreads /\ threads[t].n <= numFinishedThreads
      BY <1>a, <1>xa, <2>2 DEF CoderInv, CallInv
    <3>2. numFinishedThreads + Cardinality(Active) = numStartedThreads
      BY <2>2 DEF CoderInv, CallInv
    <3>3. Cardinality(Active) = 0
      BY <3>1, <3>2, ThreadSets, Numbers
    <3>. QED
      BY <3>3, ThreadSets, FS_EmptySet
  <2>. QED
    BY <2>1, <2>2, <1>a, <1>c, <1>d, <1>e DEF CoderInv, CallInv, Quiet
<1>3. LockInv'
  BY <1>c, <1>d, <1>e DEF CoderInv, LockInv, Reader
<1>4. WriterInv' /\ RingInv' /\ FreeInv' /\ ApartInv'
  BY <1>f, <1>g
<1>5. TroubleInv'
  BY <1>c, <1>d, <1>e, <1>g DEF CoderInv, TroubleInv, FirstError, Running
<1>6. ReadInv'
  BY <1>a, <1>c, <1>d, <1>e DEF CoderInv, ReadInv, Running, Own
<1>7. CodedInv'
  BY <1>c, <1>d, <1>e, <1>g DEF CoderInv, CodedInv, Running
<1>8. OrderInv'
  <2>1. Base' = Base
    BY <1>a, <1>c, <1>d, <1>e DEF Base
  <2>2. ASSUME Running, troubles = {}, NEW o \in Blocks, IsOldest(o)
        PROVE  OrderFrom(o)'
    <3>1. OrderFrom(o)
      BY <2>2 DEF CoderInv, OrderInv
    <3>. QED
      BY <3>1, <2>1, <1>c, <1>d, <1>e, <1>g DEF OrderFrom, Own
  <2>3. ASSUME Running, troubles = {}, NEW u \in Threads
        PROVE  OrderOf(u)'
    <3>1. OrderOf(u) /\ OrderOf(t)
      BY <2>3 DEF CoderInv, OrderInv
    <3>. QED
      BY <3>1, <2>1, <1>c, <1>d, <1>e DEF OrderOf
  <2>4. ASSUME Running, troubles = {}
        PROVE  readProcessed' = Base' + InFlight' + Took'
    <3>1. readProcessed = Base + InFlight + Took
      BY <2>4 DEF CoderInv, OrderInv
    <3>. QED
      BY <3>1, <2>1, <2>4, <1>xa, <1>a, <1>c, <1>d, <1>e, <1>f, Numbers
         DEF CoderInv, TroubleInv, LockInv, Reader, Took
  <2>5. ASSUME Running, troubles = {}
        PROVE  /\ stopReading' => readProcessed' = input' + 1
               /\ numFinishedThreads' > 0 => stopReading'
    BY <2>5, <1>e DEF CoderInv, OrderInv
  <2>. QED
    BY <2>2, <2>3, <2>4, <1>e, <1>f, <1>g DEF CoderInv, OrderInv, Running
<1>. QED
  BY <1>1, <1>2, <1>3, <1>4, <1>5, <1>6, <1>7, <1>8 DEF CoderInv

\* TakeBuffer keeps CoderInv.
LEMMA TakeBufferStep ==
    ASSUME CoderInv, NEW t \in Threads, TakeBuffer(t)
    PROVE  CoderInv'
<1>a. /\ threads[t].pc \in {"buffer"} /\ caller.pc = "wait" /\ Running
      /\ t < numStartedThreads /\ finishedEvent = FALSE /\ t \notin startEvent
  BY InCall DEF TakeBuffer, Quiet, CoderInv
<1>xa. freeBlocks # <<>> /\ threads[t].res = "ok"
  BY <1>a, FreeBuffer DEF CoderInv, CodedInv
<1>xb. freeBlocks' = Tail(freeBlocks)
  BY DEF TakeBuffer
<1>xc. /\ Head(freeBlocks) \in Buffers /\ Head(freeBlocks) # Nowhere
       /\ freeBlocks' \in Seq(Buffers)
       /\ Head(freeBlocks) \in Free /\ Free' = Free \ {Head(freeBlocks)}
       /\ \A k, l \in 1 .. Len(freeBlocks') : k # l => freeBlocks'[k] # freeBlocks'[l]
  BY <1>xa, <1>xb, FirstFree, Sizes
<1>e. /\ UNCHANGED <<caller, startEvent, readEvent, finishedEvent, blocksSemaphore,
                     stopReading, readProcessed, blockIndex, numStartedThreads,
                     writeIndex, ReadyBlocks, blocks, numFinishedThreads, readRes,
                     writeRes, progressRes, outBufs, input, written, troubles, faults>>
      /\ freeBlocks' = Tail(freeBlocks)
  BY <1>xa, <1>xb, <1>xc, Zenon
     DEF TakeBuffer, NoFault, Fault, events, reading, ring, results, history
<1>. DEFINE r == [threads[t] EXCEPT !.pc = "code", !.buf = Head(freeBlocks)]
<1>b. threads' = [threads EXCEPT ![t] = r]
  BY Records DEF CoderInv, TakeBuffer
<1>c. /\ r \in ThreadType
      /\ r.pc = "code"
      /\ r.buf = Head(freeBlocks)
      /\ r.bi = threads[t].bi
      /\ r.blk = threads[t].blk
      /\ r.wi = threads[t].wi
      /\ r.n = threads[t].n
      /\ r.stop = threads[t].stop
      /\ r.res = threads[t].res
      /\ r.finished = threads[t].finished
  <2>1. threads[t] \in ThreadType /\ Head(freeBlocks) \in Buffers \union {Nowhere}
    BY <1>xa, <1>xb, <1>xc, Records, Sizes DEF CoderInv, TypeOK, Results, Errors
  <2>. QED
    BY <2>1 DEF ThreadType, ThreadPcs, Results, Errors
<1>. HIDE DEF r
<1>d. /\ threads' \in [Threads -> ThreadType] /\ threads'[t] = r
      /\ \A u \in Threads : u # t => threads'[u] = threads[u]
  BY <1>b, <1>c, Records DEF CoderInv
<1>f. /\ \A b : IsOldest(b)' <=> IsOldest(b)
      /\ InFlight' = InFlight
      /\ WriterInv' /\ RingInv'
  <2>1. \A u \in Threads :
           /\ Own(u)' <=> Own(u)
           /\ Own(u) => threads'[u].bi = threads[u].bi
           /\ Writer(u)' <=> Writer(u)
           /\ Writer(u) => threads'[u].wi = threads[u].wi
           /\ threads'[u].pc \in {"next", "last"} <=> threads[u].pc \in {"next", "last"}
    BY <1>a, <1>c, <1>d DEF Own, Writer
  <2>. QED
    BY <1>e, <2>1, RingKept
<1>g. \A b : Queued(b)' <=> Queued(b)
  BY <1>a, <1>c, <1>d, <1>e DEF Queued
<1>1. TypeOK'
  <2>1. freeBlocks' \in Seq(Buffers)
    BY <1>xc
  <2>2. threads' \in [Threads -> ThreadType]
    BY <1>d
  <2>. QED
    BY <2>1, <2>2, <1>e, TypedRecords DEF CoderInv, PlainTypes
<1>2. CallInv'
  <2>1. Active' = Active
    BY <1>a, <1>c, <1>d, <1>e DEF Active, Quiet
  <2>. QED
    BY <2>1, <1>a, <1>c, <1>d, <1>e DEF CoderInv, CallInv
<1>3. LockInv'
  BY <1>c, <1>d, <1>e DEF CoderInv, LockInv, Reader
<1>4. WriterInv'
  BY <1>f
<1>5. RingInv'
  BY <1>f
<1>6. FreeInv'
  <2>1. Holders' = Holders \union {t} /\ t \notin Holders
    BY <1>xc, <1>a, <1>c, <1>d DEF Holders
  <2>2. Waiting' = Waiting
    BY <1>a, <1>c, <1>d, <1>e DEF Waiting
  <2>3. threads'[t].buf = Head(freeBlocks) /\ \A u \in Holders : threads'[u].buf = threads[u].buf
    BY <2>1, <1>c, <1>d DEF Holders
  <2>. QED
    BY <2>1, <2>2, <2>3, <1>xc, <1>e DEF CoderInv, FreeInv
<1>7. ApartInv'
  <2>1. Holders' = Holders \union {t} /\ t \notin Holders
    BY <1>xc, <1>a, <1>c, <1>d DEF Holders
  <2>2. Waiting' = Waiting
    BY <1>a, <1>c, <1>d, <1>e DEF Waiting
  <2>3. threads'[t].buf = Head(freeBlocks) /\ \A u \in Holders : threads'[u].buf = threads[u].buf
    BY <2>1, <1>c, <1>d DEF Holders
  <2>. QED
    BY <2>1, <2>2, <2>3, <1>xc, <1>e DEF CoderInv, ApartInv
<1>8. TroubleInv'
  BY <1>xa, <1>a, <1>c, <1>d, <1>e, <1>g DEF CoderInv, TroubleInv, FirstError
<1>9. ReadInv'
  BY <1>xb, <1>a, <1>c, <1>d, <1>e DEF CoderInv, ReadInv, Own
<1>10. CodedInv'
  BY <1>xc, <1>a, <1>c, <1>d, <1>e, <1>g DEF CoderInv, CodedInv
<1>11. OrderInv'
  <2>1. Base' = Base
    BY <1>xa, <1>a, <1>c, <1>d, <1>e DEF Base
  <2>2. ASSUME Running, troubles = {}, NEW o \in Blocks, IsOldest(o)
        PROVE  OrderFrom(o)'
    <3>1. OrderFrom(o)
      BY <2>2 DEF CoderInv, OrderInv
    <3>. QED
      BY <3>1, <2>1, <1>a, <1>c, <1>d, <1>e, <1>g DEF OrderFrom, Own
  <2>3. ASSUME Running, troubles = {}, NEW u \in Threads
        PROVE  OrderOf(u)'
    <3>1. OrderOf(u) /\ OrderOf(t)
      BY <2>3 DEF CoderInv, OrderInv
    <3>. QED
      BY <3>1, <2>1, <1>xb, <1>a, <1>c, <1>d, <1>e
         DEF CoderInv, TroubleInv, LockInv, Reader, OrderOf
  <2>4. ASSUME Running, troubles = {}
        PROVE  readProcessed' = Base' + InFlight' + Took'
    <3>1. readProcessed = Base + InFlight + Took
      BY <2>4 DEF CoderInv, OrderInv
    <3>. QED
      BY <3>1, <2>1, <2>4, <1>xa, <1>xb, <1>xc, <1>a, <1>c, <1>d, <1>e, <1>f, Numbers
         DEF CoderInv, TroubleInv, LockInv, Reader, Took
  <2>5. ASSUME Running, troubles = {}
        PROVE  /\ stopReading' => readProcessed' = input' + 1
               /\ numFinishedThreads' > 0 => stopReading'
    BY <2>5, <1>e DEF CoderInv, OrderInv
  <2>. QED
    BY <2>2, <2>3, <2>4, <1>a, <1>e, <1>f, <1>g DEF CoderInv, OrderInv
<1>. QED
  BY <1>1, <1>2, <1>3, <1>4, <1>5, <1>6, <1>7, <1>8, <1>9, <1>10, <1>11 DEF CoderInv

\* TakeBlock keeps CoderInv.
LEMMA TakeBlockStep ==
    ASSUME CoderInv, NEW t \in Threads, TakeBlock(t)
    PROVE  CoderInv'
<1>1. CASE /\ TakeEnd(t) \/ numStartedThreads = NumThreads
           /\ threads' = OnBlock(t, TakeRes(t), TakeEnd(t))
           /\ stopReading' = (stopReading \/ TakeEnd(t))
           /\ NoFault
           /\ UNCHANGED <<startEvent, numStartedThreads, progressRes>>
  <2>a. /\ threads[t].pc \in {"take"} /\ caller.pc = "wait" /\ Running
        /\ t < numStartedThreads /\ finishedEvent = FALSE /\ t \notin startEvent
    BY <1>1, InCall DEF TakeBlock, Quiet, CoderInv
  <2>xa. /\ ~stopReading /\ blocksSemaphore > 0 /\ blockIndex \in Blocks /\ blocksSemaphore \in Nat
         /\ threads[t].res = "ok" => threads[t].blk \in 1 .. input + 1
         /\ blocksSemaphore - 1 \in 0 .. NumBlocks /\ Following(blockIndex) \in Blocks
    <3>1. blocksSemaphore > 0
      BY DEF TakeBlock
    <3>2. ~stopReading /\ (threads[t].res = "ok" => threads[t].blk \in 1 .. input + 1)
      BY <2>a DEF CoderInv, ReadInv
    <3>. QED
      BY <3>1, <3>2, FollowingBlock, Sizes DEF CoderInv, TypeOK
  <2>xu. \A u \in Threads : u # t => threads[u].pc \notin {"reading", "take"}
    BY <2>a DEF CoderInv, LockInv, Reader
  <2>xq. PICK e \in BOOLEAN : e = TakeEnd(t)
    BY Zenon DEF TakeEnd
  <2>xr. /\ TakeRes(t) # "ok" => e
         /\ ~e => ~threads[t].finished
    BY <2>xq DEF TakeEnd
  <2>xp. TakeRes(t) \in Results
    BY DEF CoderInv, TypeOK, TakeRes, Results
  <2>e. /\ UNCHANGED <<caller, startEvent, finishedEvent, readProcessed,
                       numStartedThreads, writeIndex, ReadyBlocks, freeBlocks, blocks,
                       numFinishedThreads, readRes, writeRes, progressRes, outBufs,
                       input, written, troubles, faults>>
        /\ blocksSemaphore' = blocksSemaphore - 1
        /\ blockIndex' = Following(blockIndex)
        /\ readEvent' = TRUE
        /\ stopReading' = e
    BY <1>1, <2>xa, <2>xu, <2>xq, <2>xr, <2>xp, Zenon
       DEF TakeBlock, NoFault, Fault, events, reading, ring, results, history
  <2>. DEFINE r == [threads[t] EXCEPT
          !.bi = blockIndex, !.res = TakeRes(t), !.finished = e, !.buf = Nowhere,
          !.pc = IF TakeRes(t) = "ok" THEN "buffer" ELSE "publish"]
  <2>b. threads' = [threads EXCEPT ![t] = r]
    BY <1>1, <2>xp, <2>xq DEF OnBlock
  <2>c. /\ r \in ThreadType
        /\ r.pc = (IF TakeRes(t) = "ok" THEN "buffer" ELSE "publish")
        /\ r.bi = blockIndex
        /\ r.res = TakeRes(t)
        /\ r.finished = e
        /\ r.buf = Nowhere
        /\ r.blk = threads[t].blk
        /\ r.wi = threads[t].wi
        /\ r.n = threads[t].n
        /\ r.stop = threads[t].stop
    <3>1. threads[t] \in ThreadType /\ TakeRes(t) \in Results /\ blockIndex \in Blocks
      BY <2>xa, <2>xp, Records DEF CoderInv
    <3>2. e \in BOOLEAN /\ Nowhere \in Buffers \union {Nowhere}
      BY <2>xq
    <3>3. r \in ThreadType
      BY <3>1, <3>2 DEF ThreadType, ThreadPcs
    <3>. QED
      BY <3>1, <3>3 DEF ThreadType
  <2>. HIDE DEF r
  <2>d. /\ threads' \in [Threads -> ThreadType] /\ threads'[t] = r
        /\ \A u \in Threads : u # t => threads'[u] = threads[u]
    BY <2>b, <2>c, Records DEF CoderInv
  <2>f. /\ \A b : IsOldest(b)' <=> IsOldest(b)
        /\ InFlight' = InFlight + 1 /\ InFlight < NumBlocks
        /\ \A o \in Blocks : IsOldest(o) => Dist(o, blockIndex) = InFlight
        /\ WriterInv' /\ RingInv'
    <3>1. \A u \in Threads : u # t =>
             /\ Own(u)' <=> Own(u)
             /\ Own(u) => threads'[u].bi = threads[u].bi
             /\ Writer(u)' <=> Writer(u)
             /\ Writer(u) => threads'[u].wi = threads[u].wi
             /\ threads'[u].pc \in {"next", "last"} <=> threads[u].pc \in {"next", "last"}
      BY <2>d DEF Own, Writer
    <3>2. threads[t].pc = "take" /\ threads'[t].pc \in {"buffer", "publish"} /\ threads'[t].bi = blockIndex
      BY <2>a, <2>c, <2>d
    <3>3. /\ blocksSemaphore > 0 /\ blocksSemaphore' = blocksSemaphore - 1
          /\ blockIndex' = Following(blockIndex) /\ UNCHANGED <<writeIndex,
                                                                ReadyBlocks>>
      BY <2>xa, <2>e
    <3>. QED
      BY <3>1, <3>2, <3>3, RingGrown
  <2>g. /\ Holders' = Holders /\ Waiting' = Waiting
        /\ \A b : Queued(b)' <=> Queued(b)
        /\ FreeInv' /\ ApartInv'
    <3>1. \A u \in Threads :
             /\ Holds(u)' <=> Holds(u)
             /\ Holds(u) => threads'[u].buf = threads[u].buf
             /\ threads'[u].pc = "next" <=> threads[u].pc = "next"
             /\ threads[u].pc = "next" => threads'[u].wi = threads[u].wi
      BY <2>a, <2>c, <2>d DEF Holds
    <3>. QED
      BY <2>e, <3>1, BuffersKept
  <2>1. TypeOK'
    <3>1. blocksSemaphore' \in 0 .. NumBlocks
      BY <2>xa, <2>e
    <3>2. blockIndex' \in Blocks
      BY <2>xa, <2>e
    <3>3. readEvent' \in BOOLEAN
      BY <2>e
    <3>4. stopReading' \in BOOLEAN
      BY <2>e
    <3>5. threads' \in [Threads -> ThreadType]
      BY <2>d
    <3>. QED
      BY <3>1, <3>2, <3>3, <3>4, <3>5, <2>e, TypedRecords DEF CoderInv, PlainTypes
  <2>2. CallInv'
    <3>1. Active' = Active
      BY <2>a, <2>c, <2>d, <2>e DEF Active, Quiet
    <3>. QED
      BY <3>1, <2>a, <2>c, <2>d, <2>e DEF CoderInv, CallInv
  <2>3. LockInv'
    BY <2>xu, <2>c, <2>d DEF LockInv, Reader
  <2>4. WriterInv' /\ RingInv' /\ FreeInv' /\ ApartInv'
    BY <2>f, <2>g
  <2>5. TroubleInv'
    BY <2>a, <2>c, <2>d, <2>e, <2>g DEF CoderInv, TroubleInv, FirstError, Quiet, TakeRes
  <2>6. ReadInv'
    BY <2>xu, <2>xr, <2>a, <2>c, <2>d, <2>e DEF CoderInv, ReadInv, Own, TakeRes
  <2>7. CodedInv'
    BY <2>a, <2>c, <2>d, <2>e, <2>g DEF CoderInv, CodedInv
  <2>8. OrderInv'
    <3>1. Base' = Base
      BY <2>a, <2>c, <2>d, <2>e DEF Base
    <3>0. Took = 1 /\ Took' = 0
      BY <2>xu, <2>a, <2>c, <2>d DEF Took
    <3>2. ASSUME Running, troubles = {}, NEW o \in Blocks, IsOldest(o)
          PROVE  OrderFrom(o)'
      <4>1. OrderFrom(o) /\ Dist(o, blockIndex) = InFlight /\ threads[t].blk = readProcessed
        BY <3>2, <2>a, <2>f DEF CoderInv, OrderInv, OrderOf
      <4>2. threads[t].blk = Base + 1 + Dist(o, blockIndex)
        BY <4>1, <3>0, <3>2, Numbers DEF CoderInv, OrderInv
      <4>. QED
        BY <4>1, <4>2, <3>1, <2>c, <2>d, <2>e, <2>g DEF OrderFrom, Own
    <3>3. ASSUME Running, troubles = {}, NEW u \in Threads
          PROVE  OrderOf(u)'
      <4>1. OrderOf(u) /\ OrderOf(t)
        BY <3>3 DEF CoderInv, OrderInv
      <4>. QED
        BY <4>1, <3>1, <2>xa, <2>c, <2>d, <2>e DEF OrderOf
    <3>4. ASSUME Running, troubles = {}
          PROVE  readProcessed' = Base' + InFlight' + Took'
      <4>1. readProcessed = Base + InFlight + Took
        BY <3>4 DEF CoderInv, OrderInv
      <4>. QED
        BY <4>1, <3>0, <3>1, <2>e, <2>f, Numbers
    <3>5. ASSUME Running, troubles = {}
          PROVE  /\ stopReading' => readProcessed' = input' + 1
                 /\ numFinishedThreads' > 0 => stopReading'
      <4>1. threads[t].res = "ok" /\ progressRes = "ok"
        BY <3>5, <2>a DEF CoderInv, TroubleInv, Quiet
      <4>2. OrderOf(t)
        BY <3>5 DEF CoderInv, OrderInv
      <4>. QED
        BY <3>5, <4>1, <4>2, <2>xa, <2>xu, <2>xq, <2>xr, <2>xp, <2>a, <2>c, <2>d, <2>e
           DEF CoderInv, OrderInv, OrderOf, TakeRes, TakeEnd
    <3>. QED
      BY <3>2, <3>3, <3>4, <3>5, <2>a, <2>e, <2>f, <2>g, <2>xa DEF CoderInv, OrderInv
  <2>. QED
    BY <2>1, <2>2, <2>3, <2>4, <2>5, <2>6, <2>7, <2>8 DEF CoderInv
<1>2. CASE /\ ~TakeEnd(t) /\ numStartedThreads < NumThreads
           /\ threads' = CreateAndStart(OnBlock(t, TakeRes(t), FALSE), numStartedThreads)
           /\ startEvent' = startEvent \union {numStartedThreads}
           /\ numStartedThreads' = numStartedThreads + 1
           /\ NoFault
           /\ UNCHANGED <<stopReading, progressRes>>
  <2>a. /\ threads[t].pc \in {"take"} /\ caller.pc = "wait" /\ Running
        /\ t < numStartedThreads /\ finishedEvent = FALSE /\ t \notin startEvent
    BY <1>2, InCall DEF TakeBlock, Quiet, CoderInv
  <2>xa. /\ ~stopReading /\ blocksSemaphore > 0 /\ blockIndex \in Blocks /\ blocksSemaphore \in Nat
         /\ threads[t].res = "ok" => threads[t].blk \in 1 .. input + 1
         /\ blocksSemaphore - 1 \in 0 .. NumBlocks /\ Following(blockIndex) \in Blocks
    <3>1. blocksSemaphore > 0
      BY DEF TakeBlock
    <3>2. ~stopReading /\ (threads[t].res = "ok" => threads[t].blk \in 1 .. input + 1)
      BY <2>a DEF CoderInv, ReadInv
    <3>. QED
      BY <3>1, <3>2, FollowingBlock, Sizes DEF CoderInv, TypeOK
  <2>xu. \A u \in Threads : u # t => threads[u].pc \notin {"reading", "take"}
    BY <2>a DEF CoderInv, LockInv, Reader
  <2>xn. /\ numStartedThreads \in Threads /\ numStartedThreads # t
         /\ threads[numStartedThreads].pc \in {"none", "parked"}
         /\ numStartedThreads \notin startEvent
         /\ numStartedThreads + 1 \in 0 .. NumThreads /\ numStartedThreads \in Nat
    <3>1. numStartedThreads \in Nat /\ numStartedThreads < NumThreads
      BY <1>2 DEF CoderInv, TypeOK
    <3>2. numStartedThreads \in Threads /\ numStartedThreads # t
      BY <3>1, <2>a, Sizes DEF Threads
    <3>. QED
      BY <2>a, <3>1, <3>2, Sizes DEF CoderInv, CallInv
  <2>xp. TakeRes(t) = "ok" /\ ~threads[t].finished /\ threads[t].res = "ok"
    BY <1>2, Zenon DEF TakeRes, TakeEnd
  <2>e. /\ UNCHANGED <<caller, finishedEvent, stopReading, readProcessed, writeIndex,
                       ReadyBlocks, freeBlocks, blocks, numFinishedThreads, readRes,
                       writeRes, progressRes, outBufs, input, written, troubles,
                       faults>>
        /\ blocksSemaphore' = blocksSemaphore - 1
        /\ blockIndex' = Following(blockIndex)
        /\ readEvent' = TRUE
        /\ startEvent' = startEvent \union {numStartedThreads}
        /\ numStartedThreads' = numStartedThreads + 1
    BY <1>2, <2>xa, <2>xu, <2>xn, <2>xp, Zenon
       DEF TakeBlock, NoFault, Fault, events, reading, ring, results, history
  <2>. DEFINE r == [threads[t] EXCEPT
          !.bi = blockIndex, !.res = "ok", !.finished = FALSE, !.buf = Nowhere, !.pc = "buffer"]
  <2>b. threads' = CreateAndStart([threads EXCEPT ![t] = r], numStartedThreads)
    BY <1>2, <2>xp DEF OnBlock
  <2>c. /\ r \in ThreadType
        /\ r.pc = "buffer"
        /\ r.bi = blockIndex
        /\ r.res = "ok"
        /\ r.finished = FALSE
        /\ r.buf = Nowhere
        /\ r.blk = threads[t].blk
        /\ r.wi = threads[t].wi
        /\ r.n = threads[t].n
        /\ r.stop = threads[t].stop
    <3>1. threads[t] \in ThreadType /\ blockIndex \in Blocks
      BY <1>2, <2>xa, <2>xu, <2>xn, <2>xp, Records, Sizes
         DEF CoderInv, TypeOK, Results, Errors
    <3>. QED
      BY <3>1 DEF ThreadType, ThreadPcs, Results, Errors
  <2>. HIDE DEF r
  <2>d. /\ threads' \in [Threads -> ThreadType] /\ threads'[t] = r
        /\ \A u \in Threads : u \notin {t, numStartedThreads} => threads'[u] = threads[u]
        /\ threads'[numStartedThreads].pc = "parked" /\ ~threads'[numStartedThreads].stop
        /\ threads'[numStartedThreads].res = threads[numStartedThreads].res
    <3>. DEFINE th == [threads EXCEPT ![t] = r]
    <3>1. /\ th \in [Threads -> ThreadType] /\ th[t] = r
          /\ \A u \in Threads : u # t => th[u] = threads[u]
      BY <2>c, Records DEF CoderInv
    <3>2. threads' = CreateAndStart(th, numStartedThreads)
      BY <2>b
    <3>. HIDE DEF th
    <3>. QED
      BY <2>xn, <3>1, <3>2, StartedThread
  <2>f. /\ \A b : IsOldest(b)' <=> IsOldest(b)
        /\ InFlight' = InFlight + 1 /\ InFlight < NumBlocks
        /\ \A o \in Blocks : IsOldest(o) => Dist(o, blockIndex) = InFlight
        /\ WriterInv' /\ RingInv'
    <3>1. \A u \in Threads : u # t =>
             /\ Own(u)' <=> Own(u)
             /\ Own(u) => threads'[u].bi = threads[u].bi
             /\ Writer(u)' <=> Writer(u)
             /\ Writer(u) => threads'[u].wi = threads[u].wi
             /\ threads'[u].pc \in {"next", "last"} <=> threads[u].pc \in {"next", "last"}
      BY <2>xn, <2>a, <2>c, <2>d DEF Own, Writer
    <3>2. threads[t].pc = "take" /\ threads'[t].pc \in {"buffer", "publish"} /\ threads'[t].bi = blockIndex
      BY <2>a, <2>c, <2>d
    <3>3. /\ blocksSemaphore > 0 /\ blocksSemaphore' = blocksSemaphore - 1
          /\ blockIndex' = Following(blockIndex) /\ UNCHANGED <<writeIndex,
                                                                ReadyBlocks>>
      BY <2>xa, <2>e
    <3>. QED
      BY <3>1, <3>2, <3>3, RingGrown
  <2>g. /\ Holders' = Holders /\ Waiting' = Waiting
        /\ \A b : Queued(b)' <=> Queued(b)
        /\ FreeInv' /\ ApartInv'
    <3>1. \A u \in Threads :
             /\ Holds(u)' <=> Holds(u)
             /\ Holds(u) => threads'[u].buf = threads[u].buf
             /\ threads'[u].pc = "next" <=> threads[u].pc = "next"
             /\ threads[u].pc = "next" => threads'[u].wi = threads[u].wi
      BY <2>xn, <2>a, <2>c, <2>d DEF Holds
    <3>. QED
      BY <2>e, <3>1, BuffersKept
  <2>1. TypeOK'
    <3>1. blocksSemaphore' \in 0 .. NumBlocks
      BY <2>xa, <2>e
    <3>2. blockIndex' \in Blocks
      BY <2>xa, <2>e
    <3>3. readEvent' \in BOOLEAN
      BY <2>e
    <3>4. startEvent' \in SUBSET Threads
      BY <2>xn, <2>e DEF CoderInv, TypeOK, FirstError, Results
    <3>5. numStartedThreads' \in 0 .. NumThreads
      BY <2>xn, <2>e
    <3>6. threads' \in [Threads -> ThreadType]
      BY <2>d
    <3>. QED
      BY <3>1, <3>2, <3>3, <3>4, <3>5, <3>6, <2>e, TypedRecords
         DEF CoderInv, PlainTypes
  <2>2. CallInv'
    <3>1. Active' = Active \union {numStartedThreads} /\ numStartedThreads \notin Active
      BY <2>xa, <2>xu, <2>xn, <2>xp, <2>a, <2>c, <2>d, <2>e DEF Active, Quiet
    <3>2. Cardinality(Active') = Cardinality(Active) + 1 /\ Cardinality(Active) \in Nat
      BY <3>1, ThreadSets, FS_AddElement
    <3>3. numFinishedThreads' + Cardinality(Active') = numStartedThreads'
      BY <3>2, <2>a, <2>e, Numbers DEF CoderInv, CallInv
    <3>4. \A u \in Threads : u >= numStartedThreads' => u >= numStartedThreads /\ u # numStartedThreads
      BY <2>xn, <2>e
    <3>5. \A u \in Threads : threads'[u].pc \in {"none", "parked"} => threads'[u].res = "ok"
      BY <2>xn, <2>c, <2>d DEF CoderInv, CallInv
    <3>6. ASSUME NEW u \in Threads
          PROVE  /\ ~threads'[u].stop /\ threads'[u].pc # "exited"
                 /\ u \in startEvent' => threads'[u].pc = "parked"
                 /\ u >= numStartedThreads' => threads'[u].pc \in {"none", "parked"} /\ u \notin startEvent'
                 /\ threads'[u].pc = "count" => threads'[u].n <= numFinishedThreads'
      BY <2>xn, <2>a, <2>c, <2>d, <2>e DEF CoderInv, CallInv
    <3>7. numStartedThreads' >= 1 /\ caller'.pc = "wait" /\ caller'.res = "ok" /\ finishedEvent' = FALSE
      BY <2>a, <2>e, <2>xn DEF CoderInv, CallInv
    <3>. QED
      BY <3>3, <3>5, <3>6, <3>7 DEF CallInv
  <2>3. LockInv'
    BY <2>xu, <2>c, <2>d DEF LockInv, Reader
  <2>4. WriterInv' /\ RingInv' /\ FreeInv' /\ ApartInv'
    BY <2>f, <2>g
  <2>5. TroubleInv'
    BY <2>a, <2>c, <2>d, <2>e, <2>g DEF CoderInv, TroubleInv, FirstError, Quiet
  <2>6. ReadInv'
    BY <2>xn, <2>xp, <2>a, <2>c, <2>d, <2>e DEF CoderInv, ReadInv, Own
  <2>7. CodedInv'
    <3>1. \A u \in Threads : threads'[u].pc \in {"code", "publish", "write"} =>
            threads'[u] = threads[u]
      BY <2>c, <2>d
    <3>2. \A u \in Threads : threads'[u].pc = "buffer" => threads'[u].res = "ok" /\ threads'[u].buf = Nowhere
      BY <2>a, <2>c, <2>d DEF CoderInv, CodedInv
    <3>. QED
      BY <3>1, <3>2, <2>a, <2>e, <2>g DEF CoderInv, CodedInv
  <2>8. OrderInv'
    <3>1. Base' = Base
      BY <2>xn, <2>a, <2>c, <2>d, <2>e DEF Base
    <3>0. Took = 1 /\ Took' = 0
      BY <2>xu, <2>a, <2>c, <2>d DEF Took
    <3>2. ASSUME Running, troubles = {}, NEW o \in Blocks, IsOldest(o)
          PROVE  OrderFrom(o)'
      <4>1. OrderFrom(o) /\ Dist(o, blockIndex) = InFlight /\ threads[t].blk = readProcessed
        BY <3>2, <2>a, <2>f DEF CoderInv, OrderInv, OrderOf
      <4>2. threads[t].blk = Base + 1 + Dist(o, blockIndex)
        BY <4>1, <3>0, <3>2, Numbers DEF CoderInv, OrderInv
      <4>. QED
        BY <4>1, <4>2, <3>1, <2>c, <2>d, <2>e, <2>g DEF OrderFrom, Own
    <3>3. ASSUME Running, troubles = {}, NEW u \in Threads
          PROVE  OrderOf(u)'
      <4>1. OrderOf(u) /\ OrderOf(t)
        BY <3>3 DEF CoderInv, OrderInv
      <4>. QED
        BY <4>1, <3>1, <2>c, <2>d, <2>e DEF OrderOf
    <3>4. ASSUME Running, troubles = {}
          PROVE  readProcessed' = Base' + InFlight' + Took'
      <4>1. readProcessed = Base + InFlight + Took
        BY <3>4 DEF CoderInv, OrderInv
      <4>. QED
        BY <4>1, <3>0, <3>1, <2>e, <2>f, Numbers
    <3>5. ASSUME Running, troubles = {}
          PROVE  /\ stopReading' => readProcessed' = input' + 1
                 /\ numFinishedThreads' > 0 => stopReading'
      <4>1. threads[t].res = "ok" /\ progressRes = "ok"
        BY <3>5, <2>a DEF CoderInv, TroubleInv, Quiet
      <4>2. OrderOf(t)
        BY <3>5 DEF CoderInv, OrderInv
      <4>. QED
        BY <3>5, <2>e DEF CoderInv, OrderInv
    <3>. QED
      BY <3>2, <3>3, <3>4, <2>a, <2>e, <2>f, <2>g DEF CoderInv, OrderInv
  <2>. QED
    BY <2>1, <2>2, <2>3, <2>4, <2>5, <2>6, <2>7, <2>8 DEF CoderInv
<1>3. CASE /\ ~TakeEnd(t) /\ numStartedThreads < NumThreads
           /\ threads[numStartedThreads].pc = "none"
           /\ Fault("thread")
           /\ progressRes' = FirstError("thread")
           /\ threads' = OnBlock(t, "thread", TRUE)
           /\ stopReading' = TRUE
           /\ UNCHANGED <<startEvent, numStartedThreads>>
  <2>a. /\ threads[t].pc \in {"take"} /\ caller.pc = "wait" /\ Running
        /\ t < numStartedThreads /\ finishedEvent = FALSE /\ t \notin startEvent
    BY <1>3, InCall DEF TakeBlock, Quiet, CoderInv
  <2>xa. /\ ~stopReading /\ blocksSemaphore > 0 /\ blockIndex \in Blocks /\ blocksSemaphore \in Nat
         /\ threads[t].res = "ok" => threads[t].blk \in 1 .. input + 1
         /\ blocksSemaphore - 1 \in 0 .. NumBlocks /\ Following(blockIndex) \in Blocks
    <3>1. blocksSemaphore > 0
      BY DEF TakeBlock
    <3>2. ~stopReading /\ (threads[t].res = "ok" => threads[t].blk \in 1 .. input + 1)
      BY <2>a DEF CoderInv, ReadInv
    <3>. QED
      BY <3>1, <3>2, FollowingBlock, Sizes DEF CoderInv, TypeOK
  <2>xu. \A u \in Threads : u # t => threads[u].pc \notin {"reading", "take"}
    BY <2>a DEF CoderInv, LockInv, Reader
  <2>e. /\ UNCHANGED <<caller, startEvent, finishedEvent, readProcessed,
                       numStartedThreads, writeIndex, ReadyBlocks, freeBlocks, blocks,
                       numFinishedThreads, readRes, writeRes, outBufs, input, written>>
        /\ blocksSemaphore' = blocksSemaphore - 1
        /\ blockIndex' = Following(blockIndex)
        /\ readEvent' = TRUE
        /\ stopReading' = TRUE
        /\ progressRes' = FirstError("thread")
        /\ troubles' = troubles \union {"thread"}
        /\ faults' = faults + 1
        /\ faults < MaxFaults
        /\ "thread" \in Errors
    BY <1>3, <2>xa, <2>xu, Zenon
       DEF TakeBlock, NoFault, Fault, Errors, events, reading, ring, results, history
  <2>. DEFINE r == [threads[t] EXCEPT
          !.bi = blockIndex, !.res = "thread", !.finished = TRUE, !.buf = Nowhere, !.pc = "publish"]
  <2>b. threads' = [threads EXCEPT ![t] = r]
    BY <1>3 DEF OnBlock
  <2>c. /\ r \in ThreadType
        /\ r.pc = "publish"
        /\ r.bi = blockIndex
        /\ r.res = "thread"
        /\ r.finished = TRUE
        /\ r.buf = Nowhere
        /\ r.blk = threads[t].blk
        /\ r.wi = threads[t].wi
        /\ r.n = threads[t].n
        /\ r.stop = threads[t].stop
    <3>1. threads[t] \in ThreadType /\ blockIndex \in Blocks
      BY <2>xa, Records DEF CoderInv
    <3>. QED
      BY <3>1 DEF ThreadType, ThreadPcs, Results, Errors
  <2>. HIDE DEF r
  <2>d. /\ threads' \in [Threads -> ThreadType] /\ threads'[t] = r
        /\ \A u \in Threads : u # t => threads'[u] = threads[u]
    BY <2>b, <2>c, Records DEF CoderInv
  <2>f. /\ \A b : IsOldest(b)' <=> IsOldest(b)
        /\ InFlight' = InFlight + 1 /\ InFlight < NumBlocks
        /\ \A o \in Blocks : IsOldest(o) => Dist(o, blockIndex) = InFlight
        /\ WriterInv' /\ RingInv'
    <3>1. \A u \in Threads : u # t =>
             /\ Own(u)' <=> Own(u)
             /\ Own(u) => threads'[u].bi = threads[u].bi
             /\ Writer(u)' <=> Writer(u)
             /\ Writer(u) => threads'[u].wi = threads[u].wi
             /\ threads'[u].pc \in {"next", "last"} <=> threads[u].pc \in {"next", "last"}
      BY <2>d DEF Own, Writer
    <3>2. threads[t].pc = "take" /\ threads'[t].pc \in {"buffer", "publish"} /\ threads'[t].bi = blockIndex
      BY <2>a, <2>c, <2>d
    <3>3. /\ blocksSemaphore > 0 /\ blocksSemaphore' = blocksSemaphore - 1
          /\ blockIndex' = Following(blockIndex) /\ UNCHANGED <<writeIndex,
                                                                ReadyBlocks>>
      BY <2>xa, <2>e
    <3>. QED
      BY <3>1, <3>2, <3>3, RingGrown
  <2>g. /\ Holders' = Holders /\ Waiting' = Waiting
        /\ \A b : Queued(b)' <=> Queued(b)
        /\ FreeInv' /\ ApartInv'
    <3>1. \A u \in Threads :
             /\ Holds(u)' <=> Holds(u)
             /\ Holds(u) => threads'[u].buf = threads[u].buf
             /\ threads'[u].pc = "next" <=> threads[u].pc = "next"
             /\ threads[u].pc = "next" => threads'[u].wi = threads[u].wi
      BY <2>a, <2>c, <2>d DEF Holds
    <3>. QED
      BY <2>e, <3>1, BuffersKept
  <2>1. TypeOK'
    <3>1. blocksSemaphore' \in 0 .. NumBlocks
      BY <2>xa, <2>e
    <3>2. blockIndex' \in Blocks
      BY <2>xa, <2>e
    <3>3. readEvent' \in BOOLEAN
      BY <2>e
    <3>4. stopReading' \in BOOLEAN
      BY <2>e
    <3>5. progressRes' \in Results
      BY <2>e DEF CoderInv, TypeOK, FirstError, Results
    <3>6. troubles' \in SUBSET Errors
      BY <2>e DEF CoderInv, TypeOK
    <3>7. faults' \in 0 .. MaxFaults
      BY <2>e, Sizes DEF CoderInv, TypeOK
    <3>8. threads' \in [Threads -> ThreadType]
      BY <2>d
    <3>. QED
      BY <3>1, <3>2, <3>3, <3>4, <3>5, <3>6, <3>7, <3>8, <2>e, TypedRecords
         DEF CoderInv, PlainTypes
  <2>2. CallInv'
    <3>1. Active' = Active
      BY <2>a, <2>c, <2>d, <2>e DEF Active, Quiet
    <3>. QED
      BY <3>1, <2>a, <2>c, <2>d, <2>e DEF CoderInv, CallInv
  <2>3. LockInv'
    BY <2>xu, <2>c, <2>d DEF LockInv, Reader
  <2>4. WriterInv' /\ RingInv' /\ FreeInv' /\ ApartInv'
    BY <2>f, <2>g
  <2>5. TroubleInv'
    BY <2>a, <2>e DEF CoderInv, TroubleInv, FirstError
  <2>6. ReadInv'
    BY <2>xu, <2>a, <2>c, <2>d, <2>e DEF CoderInv, ReadInv, Own
  <2>7. CodedInv'
    BY <2>a, <2>c, <2>d, <2>e, <2>g DEF CoderInv, CodedInv
  <2>8. OrderInv'
    BY <2>xa, <2>xu, <2>a, <2>c, <2>d, <2>e DEF OrderInv
  <2>. QED
    BY <2>1, <2>2, <2>3, <2>4, <2>5, <2>6, <2>7, <2>8 DEF CoderInv
<1>. QED
  BY <1>1, <1>2, <1>3 DEF TakeBlock, TakeRes, TakeEnd, OnBlock

\* Publish keeps CoderInv.
LEMMA PublishStep ==
    ASSUME CoderInv, NEW t \in Threads, Publish(t)
    PROVE  CoderInv'
<1>1. CASE writeIndex = threads[t].bi
  <2>a. /\ threads[t].pc \in {"publish"} /\ caller.pc = "wait" /\ Running
        /\ t < numStartedThreads /\ finishedEvent = FALSE /\ t \notin startEvent
    BY <1>1, InCall DEF Publish, Quiet, CoderInv
  <2>xa. /\ Own(t) /\ threads[t].bi \in Blocks /\ ~ReadyBlocks[threads[t].bi] /\ ~Queued(threads[t].bi)
         /\ threads[t].res \in Results /\ threads[t].buf \in Buffers \union {Nowhere}
         /\ threads[t].finished \in BOOLEAN /\ threads[t].stop = FALSE
         /\ threads[t].res = "ok" =>
              /\ threads[t].buf # Nowhere /\ outBufs[threads[t].buf] = threads[t].blk
              /\ threads[t].blk \in 1 .. input + 1
         /\ threads[t].res # "ok" => troubles # {}
    <3>1. Own(t)
      BY <2>a DEF Own
    <3>2. /\ threads[t].res = "ok" =>
              /\ threads[t].buf # Nowhere /\ outBufs[threads[t].buf] = threads[t].blk
              /\ threads[t].blk \in 1 .. input + 1
          /\ threads[t].res # "ok" => troubles # {}
      BY <3>1, <2>a DEF CoderInv, CodedInv, ReadInv, TroubleInv, Quiet
    <3>. QED
      BY <2>a, <3>1, <3>2, OwnBlock, InCall, Records DEF CoderInv, Quiet
  <2>xb. /\ blocks' \in [Blocks -> BlockType] /\ blocks'[threads[t].bi] = Published(t)
         /\ Published(t).res = threads[t].res /\ Published(t).buf = threads[t].buf
         /\ Published(t).finished = threads[t].finished
         /\ \A b \in Blocks : b # threads[t].bi => blocks'[b] = blocks[b]
    <3>1. blocks' = [blocks EXCEPT ![threads[t].bi] = Published(t)]
      BY DEF Publish, Published
    <3>2. Published(t) \in BlockType
      BY <2>xa DEF Published, BlockType
    <3>. QED
      BY <3>1, <3>2, Records DEF CoderInv, Published
  <2>xc. /\ PublishRes(t) \in Results
         /\ PublishRes(t) = "ok" => threads[t].res = "ok"
         /\ PublishRes(t) # "ok" => troubles # {}
         /\ ToWrite(PublishRes(t), threads[t].buf) \in {"write", "release"}
         /\ ToWrite(PublishRes(t), threads[t].buf) = "write"
              <=> PublishRes(t) = "ok" /\ threads[t].buf # Nowhere
    BY <2>xa, <2>a DEF PublishRes, CoderInv, TypeOK, Results, TroubleInv, ToWrite
  <2>e. /\ UNCHANGED <<caller, startEvent, readEvent, finishedEvent, blocksSemaphore,
                       stopReading, readProcessed, blockIndex, numStartedThreads,
                       ReadyBlocks, freeBlocks, numFinishedThreads, readRes, writeRes,
                       progressRes, outBufs, input, written, troubles, faults>>
        /\ blocks' = [blocks EXCEPT ![threads[t].bi] = Published(t)]
        /\ writeIndex' = Nowhere
    BY <1>1, Zenon
       DEF Publish, Published, NoFault, Fault, events, reading, ring, results, history
  <2>. DEFINE r == [threads[t] EXCEPT !.res = PublishRes(t), !.wi = threads[t].bi,
                                      !.pc = ToWrite(PublishRes(t), threads[t].buf)]
  <2>b. threads' = [threads EXCEPT ![t] = r]
    BY <1>1 DEF Publish, PublishRes
  <2>c. /\ r \in ThreadType
        /\ r.pc = ToWrite(PublishRes(t), threads[t].buf)
        /\ r.res = PublishRes(t)
        /\ r.wi = threads[t].bi
        /\ r.buf = threads[t].buf
        /\ r.bi = threads[t].bi
        /\ r.blk = threads[t].blk
        /\ r.n = threads[t].n
        /\ r.stop = threads[t].stop
        /\ r.finished = threads[t].finished
        /\ r.pc \in {"write", "release"}
        /\ r.pc = "write" <=> r.res = "ok" /\ r.buf # Nowhere
    <3>1. threads[t] \in ThreadType /\ PublishRes(t) \in Results /\ threads[t].bi \in Blocks
          /\ ToWrite(PublishRes(t), threads[t].buf) \in {"write", "release"}
          /\ (ToWrite(PublishRes(t), threads[t].buf) = "write"
               <=> PublishRes(t) = "ok" /\ threads[t].buf # Nowhere)
      BY <1>1, <2>xa, <2>xb, <2>xc, Records, Sizes DEF CoderInv, TypeOK, Results, Errors
    <3>. QED
      BY <3>1 DEF ThreadType, ThreadPcs, Results, Errors
  <2>. HIDE DEF r
  <2>d. /\ threads' \in [Threads -> ThreadType] /\ threads'[t] = r
        /\ \A u \in Threads : u # t => threads'[u] = threads[u]
    BY <2>b, <2>c, Records DEF CoderInv
  <2>f. /\ \A b \in Blocks : IsOldest(b)' <=> IsOldest(b)
        /\ InFlight' = InFlight
        /\ WriterInv' /\ RingInv'
    <3>1. ~Own(t)' /\ threads'[t].pc \notin {"next", "last"} /\ Writer(t)' /\ threads'[t].wi = threads[t].bi
      BY <2>c, <2>d DEF Own, Writer
    <3>. QED
      BY <2>xa, <2>d, <2>e, <3>1, <1>1, RingPublished
  <2>g. /\ Holders' = Holders /\ Waiting' = Waiting
        /\ \A b \in Blocks : Queued(b)' <=> Queued(b)
        /\ \A b \in Blocks : Queued(b) => blocks'[b] = blocks[b]
        /\ \A b \in Waiting : blocks'[b] = blocks[b]
        /\ \A u \in Holders : threads'[u].buf = threads[u].buf
    <3>1. \A b \in Blocks : Queued(b)' <=> Queued(b)
      BY <2>a, <2>c, <2>d, <2>e DEF Queued
    <3>2. \A b \in Blocks : Queued(b) => blocks'[b] = blocks[b]
      BY <2>xa, <2>xb
    <3>3. Waiting = {b \in Blocks : Queued(b) /\ blocks[b].buf # Nowhere}
      BY DEF Waiting, Queued
    <3>4. Waiting' = {b \in Blocks : Queued(b)' /\ blocks'[b].buf # Nowhere}
      BY DEF Waiting, Queued
    <3>5. Holders' = Holders
      BY <2>a, <2>c, <2>d DEF Holders
    <3>. QED
      BY <3>1, <3>2, <3>3, <3>4, <3>5, <2>c, <2>d DEF Holders
  <2>1. TypeOK'
    <3>1. blocks' \in [Blocks -> BlockType]
      BY <2>xb
    <3>2. writeIndex' \in Blocks \union {Nowhere}
      BY <2>e
    <3>3. threads' \in [Threads -> ThreadType]
      BY <2>d
    <3>. QED
      BY <3>1, <3>2, <3>3, <2>e, TypedRecords DEF CoderInv, PlainTypes
  <2>2. CallInv'
    <3>1. Active' = Active
      BY <2>a, <2>c, <2>d, <2>e DEF Active, Quiet
    <3>. QED
      BY <3>1, <2>a, <2>c, <2>d, <2>e DEF CoderInv, CallInv
  <2>3. LockInv'
    BY <2>c, <2>d, <2>e DEF CoderInv, LockInv, Reader
  <2>4. WriterInv'
    BY <2>f
  <2>5. RingInv'
    BY <2>f
  <2>6. FreeInv'
    BY <2>g, <2>e DEF CoderInv, FreeInv, Free
  <2>7. ApartInv'
    BY <2>g, <2>e DEF CoderInv, ApartInv, Free
  <2>8. TroubleInv'
    BY <2>xc, <2>a, <2>c, <2>d, <2>e, <2>g DEF CoderInv, TroubleInv
  <2>9. ReadInv'
    BY <2>a, <2>c, <2>d, <2>e DEF CoderInv, ReadInv, Own
  <2>10. CodedInv'
    BY <2>xa, <2>xc, <2>a, <2>c, <2>d, <2>e, <2>g DEF CoderInv, CodedInv
  <2>11. OrderInv'
    <3>1. ASSUME Running, troubles = {}
          PROVE  /\ Base' = Base /\ threads'[t].pc = "write" /\ threads[t].res = "ok"
                 /\ OrderOf(t) /\ threads[t].blk = Base + 1
      <4>1. threads'[t].pc = "write" /\ threads[t].res = "ok"
        BY <3>1, <2>xa, <2>xc, <2>c, <2>d
      <4>2. Base' = Base
        BY <4>1, <2>a, <2>d, <2>e DEF Base
      <4>3. IsOldest(threads[t].bi) /\ Dist(threads[t].bi, threads[t].bi) = 0
        BY <2>xa, <1>1, Distances DEF IsOldest
      <4>4. OrderOf(t) /\ OrderFrom(threads[t].bi)
        BY <3>1, <2>xa, <4>3 DEF CoderInv, OrderInv
      <4>. QED
        BY <4>1, <4>2, <4>3, <4>4, <2>xa, Numbers DEF OrderFrom
    <3>2. ASSUME Running, troubles = {}, NEW o \in Blocks, IsOldest(o)
          PROVE  OrderFrom(o)'
      <4>1. OrderFrom(o)
        BY <3>2 DEF CoderInv, OrderInv
      <4>. QED
        BY <4>1, <3>1, <3>2, <2>d, <2>e, <2>g DEF OrderFrom, Own
    <3>3. ASSUME Running, troubles = {}, NEW u \in Threads
          PROVE  OrderOf(u)'
      <4>1. OrderOf(u)
        BY <3>3 DEF CoderInv, OrderInv
      <4>. QED
        BY <4>1, <3>1, <3>3, <2>xa, <2>a, <2>c, <2>d, <2>e DEF OrderOf
    <3>4. ASSUME Running, troubles = {}
          PROVE  readProcessed' = Base' + InFlight' + Took'
      <4>1. readProcessed = Base + InFlight + Took
        BY <3>4 DEF CoderInv, OrderInv
      <4>2. Took' = Took
        BY <2>a, <2>c, <2>d DEF Took
      <4>. QED
        BY <4>1, <4>2, <3>1, <3>4, <2>e, <2>f
    <3>. QED
      BY <3>2, <3>3, <3>4, <2>a, <2>e, <2>f, <2>g DEF CoderInv, OrderInv
  <2>. QED
    BY <2>1, <2>2, <2>3, <2>4, <2>5, <2>6, <2>7, <2>8, <2>9, <2>10, <2>11 DEF CoderInv
<1>2. CASE writeIndex # threads[t].bi
  <2>a. /\ threads[t].pc \in {"publish"} /\ caller.pc = "wait" /\ Running
        /\ t < numStartedThreads /\ finishedEvent = FALSE /\ t \notin startEvent
    BY <1>2, InCall DEF Publish, Quiet, CoderInv
  <2>xa. /\ Own(t) /\ threads[t].bi \in Blocks /\ ~ReadyBlocks[threads[t].bi] /\ ~Queued(threads[t].bi)
         /\ threads[t].res \in Results /\ threads[t].buf \in Buffers \union {Nowhere}
         /\ threads[t].finished \in BOOLEAN /\ threads[t].stop = FALSE
         /\ threads[t].res = "ok" =>
              /\ threads[t].buf # Nowhere /\ outBufs[threads[t].buf] = threads[t].blk
              /\ threads[t].blk \in 1 .. input + 1
         /\ threads[t].res # "ok" => troubles # {}
    <3>1. Own(t)
      BY <2>a DEF Own
    <3>2. /\ threads[t].res = "ok" =>
              /\ threads[t].buf # Nowhere /\ outBufs[threads[t].buf] = threads[t].blk
              /\ threads[t].blk \in 1 .. input + 1
          /\ threads[t].res # "ok" => troubles # {}
      BY <3>1, <2>a DEF CoderInv, CodedInv, ReadInv, TroubleInv, Quiet
    <3>. QED
      BY <2>a, <3>1, <3>2, OwnBlock, InCall, Records DEF CoderInv, Quiet
  <2>xb. /\ blocks' \in [Blocks -> BlockType] /\ blocks'[threads[t].bi] = Published(t)
         /\ Published(t).res = threads[t].res /\ Published(t).buf = threads[t].buf
         /\ Published(t).finished = threads[t].finished
         /\ \A b \in Blocks : b # threads[t].bi => blocks'[b] = blocks[b]
    <3>1. blocks' = [blocks EXCEPT ![threads[t].bi] = Published(t)]
      BY DEF Publish, Published
    <3>2. Published(t) \in BlockType
      BY <2>xa DEF Published, BlockType
    <3>. QED
      BY <3>1, <3>2, Records DEF CoderInv, Published
  <2>xc. ReadyBlocks' \in [Blocks -> BOOLEAN] /\ ReadyBlocks'[threads[t].bi]
         /\ \A b \in Blocks : b # threads[t].bi => ReadyBlocks'[b] = ReadyBlocks[b]
    BY <1>2 DEF CoderInv, TypeOK, Publish
  <2>xd. PICK p \in {"done", "read"} : p = (IF threads[t].res # "ok" \/ threads[t].finished THEN "done" ELSE "read")
    OBVIOUS
  <2>xe. p = "done" => threads[t].res # "ok" \/ threads[t].finished
    BY <2>xd
  <2>e. /\ UNCHANGED <<caller, startEvent, readEvent, finishedEvent, blocksSemaphore,
                       stopReading, readProcessed, blockIndex, numStartedThreads,
                       writeIndex, freeBlocks, numFinishedThreads, readRes, writeRes,
                       progressRes, outBufs, input, written, troubles, faults>>
        /\ blocks' = [blocks EXCEPT ![threads[t].bi] = Published(t)]
        /\ ReadyBlocks' = [ReadyBlocks EXCEPT ![threads[t].bi] = TRUE]
    BY <1>2, Zenon
       DEF Publish, Published, NoFault, Fault, events, reading, ring, results, history
  <2>. DEFINE r == [NewThread EXCEPT !.pc = p, !.stop = threads[t].stop]
  <2>b. threads' = [threads EXCEPT ![t] = r]
    BY <1>2, <2>xd DEF Publish, Without
  <2>c. /\ r \in ThreadType
        /\ r.pc = p
        /\ r.pc \in {"done", "read"}
        /\ r.res = "ok"
        /\ r.stop = threads[t].stop
    <3>1. threads[t] \in ThreadType
      BY Records DEF CoderInv
    <3>2. threads[t].stop \in BOOLEAN
      BY <2>xa
    <3>. QED
      BY <3>1, <3>2, NewThreads DEF ThreadType, ThreadPcs
  <2>. HIDE DEF r
  <2>d. /\ threads' \in [Threads -> ThreadType] /\ threads'[t] = r
        /\ \A u \in Threads : u # t => threads'[u] = threads[u]
    BY <2>b, <2>c, Records DEF CoderInv
  <2>f. /\ \A b \in Blocks : IsOldest(b)' <=> IsOldest(b)
        /\ InFlight' = InFlight
        /\ WriterInv' /\ RingInv'
    <3>1. ~Own(t)' /\ threads'[t].pc \notin {"next", "last"} /\ ~Writer(t)'
      BY <2>c, <2>d DEF Own, Writer
    <3>. QED
      BY <2>xa, <2>d, <2>e, <3>1, <1>2, RingPublished
  <2>g. /\ Holders' = Holders \ {t} /\ (t \in Holders <=> threads[t].buf # Nowhere)
        /\ \A u \in Holders' : threads'[u].buf = threads[u].buf
        /\ \A b \in Blocks : Queued(b)' <=> Queued(b) \/ b = threads[t].bi
        /\ \A b \in Blocks : Queued(b) => blocks'[b] = blocks[b]
        /\ Waiting' = IF threads[t].buf # Nowhere THEN Waiting \union {threads[t].bi} ELSE Waiting
        /\ threads[t].bi \notin Waiting
        /\ \A b \in Waiting : blocks'[b] = blocks[b]
        /\ blocks'[threads[t].bi].buf = threads[t].buf /\ blocks'[threads[t].bi].res = threads[t].res
        /\ blocks'[threads[t].bi].finished = threads[t].finished
    <3>1. \A b \in Blocks : Queued(b)' <=> Queued(b) \/ b = threads[t].bi
      BY <2>xc, <2>a, <2>c, <2>d DEF Queued
    <3>2. \A b \in Blocks : Queued(b) => blocks'[b] = blocks[b]
      BY <2>xa, <2>xb
    <3>3. Waiting = {b \in Blocks : Queued(b) /\ blocks[b].buf # Nowhere}
      BY DEF Waiting, Queued
    <3>4. Waiting' = {b \in Blocks : Queued(b)' /\ blocks'[b].buf # Nowhere}
      BY DEF Waiting, Queued
    <3>5. Holders' = Holders \ {t} /\ (t \in Holders <=> threads[t].buf # Nowhere)
      BY <2>a, <2>c, <2>d DEF Holders
    <3>6. \A b \in Waiting : b # threads[t].bi
      BY <3>3, <2>xa
    <3>7. Waiting' = IF threads[t].buf # Nowhere THEN Waiting \union {threads[t].bi} ELSE Waiting
      <4>1. \A b \in Blocks : b # threads[t].bi => (b \in Waiting' <=> b \in Waiting)
        BY <3>1, <3>3, <3>4, <2>xb
      <4>2. threads[t].bi \in Waiting' <=> threads[t].buf # Nowhere
        BY <3>1, <3>4, <2>xa, <2>xb
      <4>3. Waiting' \subseteq Blocks /\ Waiting \subseteq Blocks /\ threads[t].bi \in Blocks
        BY <3>3, <3>4, <2>xa
      <4>. QED
        BY <4>1, <4>2, <4>3, <3>6
    <3>8. \A u \in Holders' : threads'[u].buf = threads[u].buf
      BY <3>5, <2>d DEF Holders
    <3>. QED
      BY <3>1, <3>2, <3>3, <3>5, <3>6, <3>7, <3>8, <2>xb
  <2>1. TypeOK'
    <3>1. blocks' \in [Blocks -> BlockType]
      BY <2>xb
    <3>2. ReadyBlocks' \in [Blocks -> BOOLEAN]
      BY <2>xc
    <3>3. threads' \in [Threads -> ThreadType]
      BY <2>d
    <3>. QED
      BY <3>1, <3>2, <3>3, <2>e, TypedRecords DEF CoderInv, PlainTypes
  <2>2. CallInv'
    <3>1. Active' = Active
      BY <2>a, <2>c, <2>d, <2>e DEF Active, Quiet
    <3>. QED
      BY <3>1, <2>a, <2>c, <2>d, <2>e DEF CoderInv, CallInv
  <2>3. LockInv'
    BY <2>c, <2>d, <2>e DEF CoderInv, LockInv, Reader
  <2>4. WriterInv'
    BY <2>f
  <2>5. RingInv'
    BY <2>f
  <2>6. FreeInv'
    <3>1. \A f \in Buffers : (\E u \in Holders : threads[u].buf = f) =>
             \/ \E u \in Holders' : threads'[u].buf = f
             \/ \E b \in Waiting' : blocks'[b].buf = f
      BY <2>g
    <3>2. \A f \in Buffers : (\E b \in Waiting : blocks[b].buf = f) =>
            \E b \in Waiting' : blocks'[b].buf = f
      BY <2>g
    <3>3. Free' = Free
      BY <2>e DEF Free
    <3>. QED
      BY <3>1, <3>2, <3>3, <2>e DEF CoderInv, FreeInv
  <2>7. ApartInv'
    <3>1. Free' = Free
      BY <2>e DEF Free
    <3>2. \A b \in Waiting' : b = threads[t].bi \/ b \in Waiting
      BY <2>g
    <3>. QED
      BY <3>1, <2>g DEF CoderInv, ApartInv
  <2>8. TroubleInv'
    BY <2>xa, <2>a, <2>c, <2>d, <2>e, <2>g DEF CoderInv, TroubleInv
  <2>9. ReadInv'
    BY <2>a, <2>c, <2>d, <2>e DEF CoderInv, ReadInv, Own
  <2>10. CodedInv'
    BY <2>xa, <2>xe, <2>a, <2>c, <2>d, <2>e, <2>g DEF CoderInv, CodedInv
  <2>11. OrderInv'
    <3>1. Base' = Base
      BY <2>a, <2>c, <2>d, <2>e DEF Base
    <3>2. ASSUME Running, troubles = {}, NEW o \in Blocks, IsOldest(o)
          PROVE  OrderFrom(o)'
      <4>1. OrderFrom(o) /\ threads[t].blk = Base + 1 + Dist(o, threads[t].bi)
            /\ outBufs[threads[t].buf] = threads[t].blk
        BY <3>2, <2>xa DEF CoderInv, OrderInv, OrderFrom
      <4>. QED
        BY <4>1, <3>1, <2>c, <2>d, <2>e, <2>g DEF OrderFrom, Own
    <3>3. ASSUME Running, troubles = {}, NEW u \in Threads
          PROVE  OrderOf(u)'
      <4>1. OrderOf(u) /\ OrderOf(t) /\ threads[t].res = "ok"
        BY <3>3, <2>xa DEF CoderInv, OrderInv
      <4>. QED
        BY <4>1, <3>1, <2>xe, <2>a, <2>c, <2>d, <2>e DEF OrderOf
    <3>4. ASSUME Running, troubles = {}
          PROVE  readProcessed' = Base' + InFlight' + Took'
      <4>1. readProcessed = Base + InFlight + Took
        BY <3>4 DEF CoderInv, OrderInv
      <4>2. Took' = Took
        BY <2>a, <2>c, <2>d DEF Took
      <4>. QED
        BY <4>1, <4>2, <3>1, <2>e, <2>f
    <3>5. ASSUME Running, troubles = {}, NEW b \in Blocks, Queued(b)', blocks'[b].finished
          PROVE  stopReading
      <4>1. OrderOf(t)
        BY <3>5 DEF CoderInv, OrderInv
      <4>. QED
        BY <3>5, <2>a, <2>g DEF CoderInv, OrderInv, OrderOf
    <3>. QED
      BY <3>2, <3>3, <3>4, <3>5, <2>a, <2>e, <2>f DEF CoderInv, OrderInv
  <2>. QED
    BY <2>1, <2>2, <2>3, <2>4, <2>5, <2>6, <2>7, <2>8, <2>9, <2>10, <2>11 DEF CoderInv
<1>. QED
  BY <1>1, <1>2

\* Release keeps CoderInv.
LEMMA ReleaseStep ==
    ASSUME CoderInv, NEW t \in Threads, Release(t)
    PROVE  CoderInv'
<1>1. CASE ReadyBlocks[Following(threads[t].wi)]
  <2>a. /\ threads[t].pc \in {"release"} /\ caller.pc = "wait" /\ Running
        /\ t < numStartedThreads /\ finishedEvent = FALSE /\ t \notin startEvent
    BY <1>1, InCall DEF Release, Quiet, CoderInv
  <2>xa. /\ threads[t].wi \in Blocks /\ ~ReadyBlocks[threads[t].wi]
         /\ \A u \in Threads : Writer(u) => u = t
         /\ Following(threads[t].wi) \in Blocks /\ threads[t].buf \in Buffers \union {Nowhere}
         /\ threads[t].finished \in BOOLEAN /\ threads[t].res \in Results
    BY <2>a, TheWriter, FollowingBlock, Records DEF Writer, CoderInv
  <2>xb. /\ ReadyBlocks' \in [Blocks -> BOOLEAN] /\ ~ReadyBlocks'[Following(threads[t].wi)]
         /\ \A b \in Blocks : b # Following(threads[t].wi) => ReadyBlocks'[b] = ReadyBlocks[b]
         /\ writeIndex' = writeIndex
    BY <1>1, <2>xa DEF CoderInv, TypeOK, Release
  <2>xc. /\ freeBlocks' \in Seq(Buffers)
         /\ \A k, l \in 1 .. Len(freeBlocks') : k # l => freeBlocks'[k] # freeBlocks'[l]
         /\ threads[t].buf = Nowhere => freeBlocks' = freeBlocks
         /\ threads[t].buf = Nowhere => Free' = Free
         /\ threads[t].buf # Nowhere => Free' = Free \union {threads[t].buf}
    <3>1. CASE threads[t].buf = Nowhere
      BY <3>1 DEF CoderInv, TypeOK, FreeInv, Free, Release
    <3>2. CASE threads[t].buf # Nowhere
      <4>1. t \in Holders /\ threads[t].buf \in Buffers
        BY <3>2, <2>a, <2>xa DEF Holders
      <4>2. threads[t].buf \notin Free
        BY <4>1 DEF CoderInv, ApartInv
      <4>3. freeBlocks' = <<threads[t].buf>> \o freeBlocks
        BY <3>2 DEF Release
      <4>. QED
        BY <3>2, <4>1, <4>2, <4>3, GivenBack
    <3>. QED
      BY <3>1, <3>2
  <2>e. /\ UNCHANGED <<caller, startEvent, readEvent, finishedEvent, blocksSemaphore,
                       stopReading, readProcessed, blockIndex, numStartedThreads,
                       blocks, numFinishedThreads, readRes, writeRes, progressRes,
                       outBufs, input, written, troubles, faults>>
        /\ ReadyBlocks' = [ReadyBlocks EXCEPT ![Following(threads[t].wi)] = FALSE]
        /\ freeBlocks' = IF threads[t].buf = Nowhere THEN freeBlocks ELSE <<threads[t].buf>> \o freeBlocks
        /\ writeIndex' = writeIndex
    BY <1>1, Zenon DEF Release, NoFault, Fault, events, reading, ring, results, history
  <2>. DEFINE r == [threads[t] EXCEPT !.wi = Following(threads[t].wi), !.pc = "next"]
  <2>b. threads' = [threads EXCEPT ![t] = r]
    BY <1>1 DEF Release
  <2>c. /\ r \in ThreadType
        /\ r.pc = "next"
        /\ r.wi = Following(threads[t].wi)
        /\ r.buf = threads[t].buf
        /\ r.bi = threads[t].bi
        /\ r.blk = threads[t].blk
        /\ r.n = threads[t].n
        /\ r.stop = threads[t].stop
        /\ r.res = threads[t].res
        /\ r.finished = threads[t].finished
    <3>1. threads[t] \in ThreadType /\ Following(threads[t].wi) \in Blocks
      BY <2>xa, Records DEF CoderInv
    <3>. QED
      BY <3>1 DEF ThreadType, ThreadPcs, Results, Errors
  <2>. HIDE DEF r
  <2>d. /\ threads' \in [Threads -> ThreadType] /\ threads'[t] = r
        /\ \A u \in Threads : u # t => threads'[u] = threads[u]
    BY <2>b, <2>c, Records DEF CoderInv
  <2>f. /\ \A b \in Blocks : IsOldest(b) <=> b = threads[t].wi
        /\ \A b \in Blocks : IsOldest(b)' <=> b = Following(threads[t].wi)
        /\ \A b \in Blocks : b # threads[t].wi =>
             Dist(Following(threads[t].wi), b) = Dist(threads[t].wi, b) - 1
        /\ InFlight' = InFlight - 1
        /\ WriterInv' /\ RingInv'
    BY <2>a, <2>xa, <2>xb, <2>c, <2>d, <2>e, <1>1, RingReleased
  <2>g. /\ Holders' = Holders \ {t} /\ (t \in Holders <=> threads[t].buf # Nowhere)
        /\ \A b \in Blocks : Queued(b)' <=> Queued(b)
        /\ \A b \in Blocks : Queued(b) => b # threads[t].wi
        /\ Waiting' = Waiting
        /\ \A u \in Holders' : threads'[u].buf = threads[u].buf
    <3>1. \A u \in Threads : threads[u].pc # "next" /\ (threads'[u].pc = "next" => u = t)
      BY <2>a, <2>xa, <2>d DEF Writer
    <3>2. \A b \in Blocks : Queued(b)' <=> Queued(b)
      <4>1. \A b \in Blocks : Queued(b) <=> ReadyBlocks[b]
        BY <3>1 DEF Queued
      <4>2. threads'[t].pc = "next" <=> ReadyBlocks[Following(threads[t].wi)]
        BY <2>c, <2>d, <1>1
      <4>. QED
        BY <4>1, <4>2, <2>xb, <2>c, <2>d DEF Queued
    <3>3. \A b \in Blocks : Queued(b) => b # threads[t].wi
      BY <3>1, <2>xa DEF Queued
    <3>4. Waiting = {b \in Blocks : Queued(b) /\ blocks[b].buf # Nowhere}
      BY DEF Waiting, Queued
    <3>5. Waiting' = {b \in Blocks : Queued(b)' /\ blocks'[b].buf # Nowhere}
      BY DEF Waiting, Queued
    <3>6. Waiting' = Waiting
      BY <3>2, <3>4, <3>5, <2>e
    <3>7. Holders' = Holders \ {t} /\ (t \in Holders <=> threads[t].buf # Nowhere)
      BY <2>a, <2>c, <2>d DEF Holders
    <3>8. \A u \in Holders' : threads'[u].buf = threads[u].buf
      BY <3>7, <2>d DEF Holders
    <3>. QED
      BY <3>2, <3>3, <3>6, <3>7, <3>8
  <2>1. TypeOK'
    <3>1. ReadyBlocks' \in [Blocks -> BOOLEAN]
      BY <2>xb
    <3>2. freeBlocks' \in Seq(Buffers)
      BY <2>xc
    <3>3. writeIndex' \in Blocks \union {Nowhere}
      BY <2>e DEF CoderInv, TypeOK, FirstError
    <3>4. threads' \in [Threads -> ThreadType]
      BY <2>d
    <3>5. UNCHANGED <<caller, startEvent, readEvent, finishedEvent, blocksSemaphore,
                      stopReading, readProcessed, blockIndex, numStartedThreads,
                      numFinishedThreads, blocks, readRes, writeRes, progressRes,
                      outBufs, input, written, troubles, faults>>
      BY <2>e
    <3>. QED
      BY <3>1, <3>2, <3>3, <3>4, <3>5, TypedRecords DEF CoderInv, PlainTypes
  <2>2. CallInv'
    <3>1. Active' = Active
      BY <2>a, <2>c, <2>d, <2>e DEF Active, Quiet
    <3>. QED
      BY <3>1, <2>a, <2>c, <2>d, <2>e DEF CoderInv, CallInv
  <2>3. LockInv'
    BY <2>c, <2>d, <2>e DEF CoderInv, LockInv, Reader
  <2>4. WriterInv'
    BY <2>f
  <2>5. RingInv'
    BY <2>f
  <2>6. FreeInv'
    <3>1. \A f \in Buffers : (\E u \in Holders : threads[u].buf = f) =>
             f \in Free' \/ \E u \in Holders' : threads'[u].buf = f
      BY <2>g, <2>xc
    <3>2. \A f \in Free : f \in Free'
      BY <2>xc
    <3>. QED
      BY <2>g, <2>xc, <2>e DEF CoderInv, FreeInv
  <2>7. ApartInv'
    BY <2>g, <2>xc, <2>e DEF CoderInv, ApartInv
  <2>8. TroubleInv'
    BY <2>a, <2>c, <2>d, <2>e, <2>g DEF CoderInv, TroubleInv, Quiet
  <2>9. ReadInv'
    BY <2>a, <2>c, <2>d, <2>e DEF CoderInv, ReadInv, Own
  <2>10. CodedInv'
    BY <2>a, <2>c, <2>d, <2>e, <2>g DEF CoderInv, CodedInv
  <2>11. OrderInv'
    <3>1. Base' = Base + 1
      <4>1. ~\E u \in Threads : threads'[u].pc = "release"
        BY <2>xa, <2>c, <2>d DEF Writer
      <4>. QED
        BY <4>1, <2>a, <2>e DEF Base
    <3>2. ASSUME Running, troubles = {}, NEW o \in Blocks, IsOldest(o)'
          PROVE  OrderFrom(o)'
      <4>1. OrderFrom(threads[t].wi)
        BY <3>2, <2>f, <2>xa DEF CoderInv, OrderInv
      <4>2. o = Following(threads[t].wi)
        BY <3>2, <2>f
      <4>3. \A u \in Threads : Own(u) => threads[u].bi \in Blocks /\ threads[u].bi # threads[t].wi
        BY <2>a, OwnBlock, TheWriter DEF Writer
      <4>4. \A b \in Blocks : Dist(threads[t].wi, b) \in Int
        <5>1. \A b \in Blocks : Dist(threads[t].wi, b) \in Blocks
          BY <2>xa, Distances, Zenon
        <5>. QED
          BY <5>1, Sizes DEF Blocks
      <4>5. ASSUME NEW b \in Blocks, b # threads[t].wi
            PROVE  Base' + 1 + Dist(o, b) = Base + 1 + Dist(threads[t].wi, b)
        <5>1. Dist(o, b) = Dist(threads[t].wi, b) - 1 /\ Base \in Int
          BY <4>2, <4>5, <2>f, Numbers
        <5>. QED
          BY <5>1, <3>1, <4>4
      <4>6. \A u \in Threads : Own(u)' => Own(u) /\ threads'[u] = threads[u]
        BY <2>c, <2>d DEF Own
      <4>. QED
        BY <4>1, <4>3, <4>5, <4>6, <2>g, <2>e DEF OrderFrom
    <3>3. ASSUME Running, troubles = {}, NEW u \in Threads
          PROVE  OrderOf(u)'
      <4>1. OrderOf(u) /\ OrderOf(t) /\ (threads[u].pc = "write" => u = t)
        BY <3>3, <2>xa DEF CoderInv, OrderInv, Writer
      <4>. QED
        BY <4>1, <2>a, <2>c, <2>d, <2>e DEF OrderOf
    <3>4. ASSUME Running, troubles = {}
          PROVE  readProcessed' = Base' + InFlight' + Took'
      <4>1. readProcessed = Base + InFlight + Took
        BY <3>4 DEF CoderInv, OrderInv
      <4>2. Took' = Took /\ Took \in Int
        BY <2>a, <2>c, <2>d DEF Took
      <4>. QED
        BY <4>1, <4>2, <3>1, <2>e, <2>f, Numbers
    <3>. QED
      BY <3>2, <3>3, <3>4, <2>a, <2>e, <2>g DEF CoderInv, OrderInv
  <2>. QED
    BY <2>1, <2>2, <2>3, <2>4, <2>5, <2>6, <2>7, <2>8, <2>9, <2>10, <2>11 DEF CoderInv
<1>2. CASE ~ReadyBlocks[Following(threads[t].wi)]
  <2>a. /\ threads[t].pc \in {"release"} /\ caller.pc = "wait" /\ Running
        /\ t < numStartedThreads /\ finishedEvent = FALSE /\ t \notin startEvent
    BY <1>2, InCall DEF Release, Quiet, CoderInv
  <2>xa. /\ threads[t].wi \in Blocks /\ ~ReadyBlocks[threads[t].wi]
         /\ \A u \in Threads : Writer(u) => u = t
         /\ Following(threads[t].wi) \in Blocks /\ threads[t].buf \in Buffers \union {Nowhere}
         /\ threads[t].finished \in BOOLEAN /\ threads[t].res \in Results
    BY <2>a, TheWriter, FollowingBlock, Records DEF Writer, CoderInv
  <2>xb. /\ ReadyBlocks' \in [Blocks -> BOOLEAN] /\ ~ReadyBlocks'[Following(threads[t].wi)]
         /\ \A b \in Blocks : b # Following(threads[t].wi) => ReadyBlocks'[b] = ReadyBlocks[b]
         /\ writeIndex' = Following(threads[t].wi)
    BY <1>2, <2>xa DEF CoderInv, TypeOK, Release
  <2>xc. /\ freeBlocks' \in Seq(Buffers)
         /\ \A k, l \in 1 .. Len(freeBlocks') : k # l => freeBlocks'[k] # freeBlocks'[l]
         /\ threads[t].buf = Nowhere => freeBlocks' = freeBlocks
         /\ threads[t].buf = Nowhere => Free' = Free
         /\ threads[t].buf # Nowhere => Free' = Free \union {threads[t].buf}
    <3>1. CASE threads[t].buf = Nowhere
      BY <3>1 DEF CoderInv, TypeOK, FreeInv, Free, Release
    <3>2. CASE threads[t].buf # Nowhere
      <4>1. t \in Holders /\ threads[t].buf \in Buffers
        BY <3>2, <2>a, <2>xa DEF Holders
      <4>2. threads[t].buf \notin Free
        BY <4>1 DEF CoderInv, ApartInv
      <4>3. freeBlocks' = <<threads[t].buf>> \o freeBlocks
        BY <3>2 DEF Release
      <4>. QED
        BY <3>2, <4>1, <4>2, <4>3, GivenBack
    <3>. QED
      BY <3>1, <3>2
  <2>e. /\ UNCHANGED <<caller, startEvent, readEvent, finishedEvent, blocksSemaphore,
                       stopReading, readProcessed, blockIndex, numStartedThreads,
                       blocks, numFinishedThreads, readRes, writeRes, progressRes,
                       outBufs, input, written, troubles, faults>>
        /\ ReadyBlocks' = [ReadyBlocks EXCEPT ![Following(threads[t].wi)] = FALSE]
        /\ freeBlocks' = IF threads[t].buf = Nowhere THEN freeBlocks ELSE <<threads[t].buf>> \o freeBlocks
        /\ writeIndex' = Following(threads[t].wi)
    BY <1>2, Zenon DEF Release, NoFault, Fault, events, reading, ring, results, history
  <2>. DEFINE r == [threads[t] EXCEPT !.wi = Following(threads[t].wi), !.pc = "last"]
  <2>b. threads' = [threads EXCEPT ![t] = r]
    BY <1>2 DEF Release
  <2>c. /\ r \in ThreadType
        /\ r.pc = "last"
        /\ r.wi = Following(threads[t].wi)
        /\ r.buf = threads[t].buf
        /\ r.bi = threads[t].bi
        /\ r.blk = threads[t].blk
        /\ r.n = threads[t].n
        /\ r.stop = threads[t].stop
        /\ r.res = threads[t].res
        /\ r.finished = threads[t].finished
    <3>1. threads[t] \in ThreadType /\ Following(threads[t].wi) \in Blocks
      BY <1>2, <2>xa, <2>xb, <2>xc, Records, Sizes DEF CoderInv, TypeOK, Results, Errors
    <3>. QED
      BY <3>1 DEF ThreadType, ThreadPcs, Results, Errors
  <2>. HIDE DEF r
  <2>d. /\ threads' \in [Threads -> ThreadType] /\ threads'[t] = r
        /\ \A u \in Threads : u # t => threads'[u] = threads[u]
    BY <2>b, <2>c, Records DEF CoderInv
  <2>f. /\ \A b \in Blocks : IsOldest(b) <=> b = threads[t].wi
        /\ \A b \in Blocks : IsOldest(b)' <=> b = Following(threads[t].wi)
        /\ \A b \in Blocks : b # threads[t].wi =>
             Dist(Following(threads[t].wi), b) = Dist(threads[t].wi, b) - 1
        /\ InFlight' = InFlight - 1
        /\ WriterInv' /\ RingInv'
    BY <2>a, <2>xa, <2>xb, <2>c, <2>d, <2>e, <1>2, RingReleased
  <2>g. /\ Holders' = Holders \ {t} /\ (t \in Holders <=> threads[t].buf # Nowhere)
        /\ \A b \in Blocks : Queued(b)' <=> Queued(b)
        /\ \A b \in Blocks : Queued(b) => b # threads[t].wi
        /\ Waiting' = Waiting
        /\ \A u \in Holders' : threads'[u].buf = threads[u].buf
    <3>1. \A u \in Threads : threads[u].pc # "next" /\ (threads'[u].pc = "next" => u = t)
      BY <2>a, <2>xa, <2>d DEF Writer
    <3>2. \A b \in Blocks : Queued(b)' <=> Queued(b)
      <4>1. \A b \in Blocks : Queued(b) <=> ReadyBlocks[b]
        BY <3>1 DEF Queued
      <4>2. threads'[t].pc = "next" <=> ReadyBlocks[Following(threads[t].wi)]
        BY <2>c, <2>d, <1>2
      <4>. QED
        BY <4>1, <4>2, <2>xb, <2>c, <2>d DEF Queued
    <3>3. \A b \in Blocks : Queued(b) => b # threads[t].wi
      BY <3>1, <2>xa DEF Queued
    <3>4. Waiting = {b \in Blocks : Queued(b) /\ blocks[b].buf # Nowhere}
      BY DEF Waiting, Queued
    <3>5. Waiting' = {b \in Blocks : Queued(b)' /\ blocks'[b].buf # Nowhere}
      BY DEF Waiting, Queued
    <3>6. Waiting' = Waiting
      BY <3>2, <3>4, <3>5, <2>e
    <3>7. Holders' = Holders \ {t} /\ (t \in Holders <=> threads[t].buf # Nowhere)
      BY <2>a, <2>c, <2>d DEF Holders
    <3>8. \A u \in Holders' : threads'[u].buf = threads[u].buf
      BY <3>7, <2>d DEF Holders
    <3>. QED
      BY <3>2, <3>3, <3>6, <3>7, <3>8
  <2>1. TypeOK'
    <3>1. ReadyBlocks' \in [Blocks -> BOOLEAN]
      BY <2>xb
    <3>2. freeBlocks' \in Seq(Buffers)
      BY <2>xc
    <3>3. writeIndex' \in Blocks \union {Nowhere}
      BY <2>xb, <2>e
    <3>4. threads' \in [Threads -> ThreadType]
      BY <2>d
    <3>5. UNCHANGED <<caller, startEvent, readEvent, finishedEvent, blocksSemaphore,
                      stopReading, readProcessed, blockIndex, numStartedThreads,
                      numFinishedThreads, blocks, readRes, writeRes, progressRes,
                      outBufs, input, written, troubles, faults>>
      BY <2>e
    <3>. QED
      BY <3>1, <3>2, <3>3, <3>4, <3>5, TypedRecords DEF CoderInv, PlainTypes
  <2>2. CallInv'
    <3>1. Active' = Active
      BY <2>a, <2>c, <2>d, <2>e DEF Active, Quiet
    <3>. QED
      BY <3>1, <2>a, <2>c, <2>d, <2>e DEF CoderInv, CallInv
  <2>3. LockInv'
    BY <2>c, <2>d, <2>e DEF CoderInv, LockInv, Reader
  <2>4. WriterInv'
    BY <2>f
  <2>5. RingInv'
    BY <2>f
  <2>6. FreeInv'
    <3>1. \A f \in Buffers : (\E u \in Holders : threads[u].buf = f) =>
             f \in Free' \/ \E u \in Holders' : threads'[u].buf = f
      BY <2>g, <2>xc
    <3>2. \A f \in Free : f \in Free'
      BY <2>xc
    <3>. QED
      BY <3>1, <3>2, <2>g, <2>xc, <2>e DEF CoderInv, FreeInv
  <2>7. ApartInv'
    BY <2>g, <2>xc, <2>e DEF CoderInv, ApartInv
  <2>8. TroubleInv'
    BY <2>a, <2>c, <2>d, <2>e, <2>g DEF CoderInv, TroubleInv, Quiet
  <2>9. ReadInv'
    BY <2>a, <2>c, <2>d, <2>e DEF CoderInv, ReadInv, Own
  <2>10. CodedInv'
    BY <2>c, <2>d, <2>e, <2>g DEF CoderInv, CodedInv, Running
  <2>11. OrderInv'
    <3>1. Base' = Base + 1
      <4>1. ~\E u \in Threads : threads'[u].pc = "release"
        BY <2>xa, <2>c, <2>d DEF Writer
      <4>. QED
        BY <4>1, <2>a, <2>e DEF Base
    <3>2. ASSUME Running, troubles = {}, NEW o \in Blocks, IsOldest(o)'
          PROVE  OrderFrom(o)'
      <4>1. OrderFrom(threads[t].wi)
        BY <3>2, <2>f, <2>xa DEF CoderInv, OrderInv
      <4>2. o = Following(threads[t].wi)
        BY <3>2, <2>f
      <4>3. \A u \in Threads : Own(u) => threads[u].bi \in Blocks /\ threads[u].bi # threads[t].wi
        BY <2>a, OwnBlock, TheWriter DEF Writer
      <4>4. \A b \in Blocks : Dist(threads[t].wi, b) \in Int
        <5>1. \A b \in Blocks : Dist(threads[t].wi, b) \in Blocks
          BY <2>xa, Distances, Zenon
        <5>. QED
          BY <5>1, Sizes DEF Blocks
      <4>5. ASSUME NEW b \in Blocks, b # threads[t].wi
            PROVE  Base' + 1 + Dist(o, b) = Base + 1 + Dist(threads[t].wi, b)
        <5>1. Dist(o, b) = Dist(threads[t].wi, b) - 1 /\ Base \in Int
          BY <4>2, <4>5, <2>f, Numbers
        <5>. QED
          BY <5>1, <3>1, <4>4
      <4>6. \A u \in Threads : Own(u)' => Own(u) /\ threads'[u] = threads[u]
        BY <2>c, <2>d DEF Own
      <4>. QED
        BY <4>1, <4>3, <4>5, <4>6, <2>g, <2>e DEF OrderFrom
    <3>3. ASSUME Running, troubles = {}, NEW u \in Threads
          PROVE  OrderOf(u)'
      <4>1. OrderOf(u) /\ OrderOf(t) /\ (threads[u].pc = "write" => u = t)
        BY <3>3, <2>xa DEF CoderInv, OrderInv, Writer
      <4>. QED
        BY <4>1, <2>a, <2>c, <2>d, <2>e DEF OrderOf
    <3>4. ASSUME Running, troubles = {}
          PROVE  readProcessed' = Base' + InFlight' + Took'
      <4>1. readProcessed = Base + InFlight + Took
        BY <3>4 DEF CoderInv, OrderInv
      <4>2. Took' = Took /\ Took \in Int
        BY <2>a, <2>c, <2>d DEF Took
      <4>. QED
        BY <4>1, <4>2, <3>1, <2>e, <2>f, Numbers
    <3>. QED
      BY <3>2, <3>3, <3>4, <2>a, <2>e, <2>g DEF CoderInv, OrderInv
  <2>. QED
    BY <2>1, <2>2, <2>3, <2>4, <2>5, <2>6, <2>7, <2>8, <2>9, <2>10, <2>11 DEF CoderInv
<1>. QED
  BY <1>1, <1>2

\* Signal keeps CoderInv.
LEMMA SignalStep ==
    ASSUME CoderInv, NEW t \in Threads, Signal(t)
    PROVE  CoderInv'
<1>1. CASE threads[t].pc = "next"
  <2>a. /\ threads[t].pc \in {"next"} /\ caller.pc = "wait" /\ Running
        /\ t < numStartedThreads /\ finishedEvent = FALSE /\ t \notin startEvent
    BY <1>1, InCall DEF Signal, Quiet, CoderInv
  <2>xa. /\ threads[t].pc = "next" /\ threads[t].wi \in Blocks /\ ~ReadyBlocks[threads[t].wi]
         /\ \A u \in Threads : Writer(u) => u = t
         /\ IsOldest(threads[t].wi) /\ Queued(threads[t].wi)
    BY <2>a, TheWriter DEF Writer, Queued
  <2>xb. /\ blocks[threads[t].wi].buf \in Buffers \union {Nowhere} /\ SignalRes(t) \in Results
         /\ blocks[threads[t].wi].finished \in BOOLEAN /\ blocks[threads[t].wi].res \in Results
    BY Records DEF CoderInv, SignalRes
  <2>xc. /\ SignalRes(t) # "ok" => troubles # {}
         /\ SignalRes(t) = "ok" => /\ blocks[threads[t].wi].buf # Nowhere
                                   /\ outBufs[blocks[threads[t].wi].buf] \in 1 .. input + 1
         /\ ToWrite(SignalRes(t), blocks[threads[t].wi].buf) \in {"write", "release"}
         /\ ToWrite(SignalRes(t), blocks[threads[t].wi].buf) = "write"
              <=> SignalRes(t) = "ok" /\ blocks[threads[t].wi].buf # Nowhere
    <3>1. /\ threads[t].res # "ok" => troubles # {}
          /\ blocks[threads[t].wi].res # "ok" => troubles # {}
          /\ blocks[threads[t].wi].res = "ok" =>
               /\ blocks[threads[t].wi].buf # Nowhere
               /\ outBufs[blocks[threads[t].wi].buf] \in 1 .. input + 1
      BY <2>a, <2>xa DEF CoderInv, TroubleInv, CodedInv, Quiet
    <3>. QED
      BY <3>1 DEF SignalRes, ToWrite
  <2>e. /\ UNCHANGED <<caller, startEvent, readEvent, finishedEvent, stopReading,
                       readProcessed, blockIndex, numStartedThreads, writeIndex,
                       ReadyBlocks, freeBlocks, blocks, numFinishedThreads, readRes,
                       writeRes, progressRes, outBufs, input, written, troubles,
                       faults>>
        /\ blocksSemaphore' = blocksSemaphore + 1
    BY <1>1, Zenon DEF Signal, NoFault, Fault, events, reading, ring, results, history
  <2>. DEFINE r == [threads[t] EXCEPT !.res = SignalRes(t), !.buf = blocks[threads[t].wi].buf,
              !.finished = blocks[threads[t].wi].finished,
              !.pc = ToWrite(SignalRes(t), blocks[threads[t].wi].buf)]
  <2>b. threads' = [threads EXCEPT ![t] = r]
    BY <1>1 DEF Signal, SignalRes
  <2>c. /\ r \in ThreadType
        /\ r.pc = ToWrite(SignalRes(t), blocks[threads[t].wi].buf)
        /\ r.res = SignalRes(t)
        /\ r.buf = blocks[threads[t].wi].buf
        /\ r.finished = blocks[threads[t].wi].finished
        /\ r.bi = threads[t].bi
        /\ r.blk = threads[t].blk
        /\ r.wi = threads[t].wi
        /\ r.n = threads[t].n
        /\ r.stop = threads[t].stop
        /\ r.pc \in {"write", "release"}
        /\ r.pc = "write" <=> r.res = "ok" /\ r.buf # Nowhere
    <3>1. threads[t] \in ThreadType /\ blocks[threads[t].wi].buf \in Buffers \union {Nowhere}
          /\ SignalRes(t) \in Results /\ blocks[threads[t].wi].finished \in BOOLEAN
          /\ ToWrite(SignalRes(t), blocks[threads[t].wi].buf) \in {"write", "release"}
          /\ (ToWrite(SignalRes(t), blocks[threads[t].wi].buf) = "write"
               <=> SignalRes(t) = "ok" /\ blocks[threads[t].wi].buf # Nowhere)
      BY <1>1, <2>xa, <2>xb, <2>xc, Records, Sizes DEF CoderInv, TypeOK, Results, Errors
    <3>. QED
      BY <3>1 DEF ThreadType, ThreadPcs, Results, Errors
  <2>. HIDE DEF r
  <2>d. /\ threads' \in [Threads -> ThreadType] /\ threads'[t] = r
        /\ \A u \in Threads : u # t => threads'[u] = threads[u]
    BY <2>b, <2>c, Records DEF CoderInv
  <2>f. /\ \A b : IsOldest(b)' <=> IsOldest(b)
        /\ InFlight' = InFlight /\ blocksSemaphore' \in 0 .. NumBlocks
        /\ WriterInv' /\ RingInv'
    BY <2>c, <2>d, <2>e, <1>1, RingSignalled
  <2>g. /\ \A u \in Holders' : \/ u = t /\ threads[t].wi \in Waiting
                               \/ u \in Holders /\ threads'[u].buf = threads[u].buf
        /\ \A u \in Holders : u \in Holders' /\ threads'[u].buf = threads[u].buf
        /\ threads[t].wi \in Waiting => t \in Holders'
        /\ \A b \in Blocks : Queued(b)' <=> Queued(b) /\ b # threads[t].wi
        /\ Waiting' = Waiting \ {threads[t].wi}
    <3>1. \A u \in Threads : threads'[u].pc # "next" /\ (threads[u].pc = "next" => u = t)
      BY <2>xa, <2>c, <2>d DEF Writer
    <3>2. \A b \in Blocks : Queued(b)' <=> Queued(b) /\ b # threads[t].wi
      BY <3>1, <2>xa, <2>e DEF Queued
    <3>3. Waiting = {b \in Blocks : Queued(b) /\ blocks[b].buf # Nowhere}
      BY DEF Waiting, Queued
    <3>4. Waiting' = {b \in Blocks : Queued(b)' /\ blocks'[b].buf # Nowhere}
      BY DEF Waiting, Queued
    <3>5. threads[t].wi \in Waiting <=> blocks[threads[t].wi].buf # Nowhere
      BY <3>3, <2>xa
    <3>6. Waiting' = Waiting \ {threads[t].wi}
      BY <3>2, <3>3, <3>4, <2>e
    <3>7. /\ threads[t].wi \in Waiting <=> threads'[t].buf # Nowhere
          /\ threads'[t].pc \in {"write", "release"} /\ t \notin Holders
      BY <3>5, <2>a, <2>c, <2>d DEF Holders
    <3>8. t \in Holders' <=> threads[t].wi \in Waiting
      BY <3>7 DEF Holders
    <3>9. \A u \in Threads : u # t => (u \in Holders' <=> u \in Holders) /\ threads'[u].buf = threads[u].buf
      BY <2>d DEF Holders
    <3>10. \A u \in Holders' : u \in Threads
      BY DEF Holders
    <3>11. \A u \in Holders : u \in Threads
      BY DEF Holders
    <3>12. ASSUME NEW u \in Holders'
           PROVE  \/ u = t /\ threads[t].wi \in Waiting
                  \/ u \in Holders /\ threads'[u].buf = threads[u].buf
      BY <3>8, <3>9, <3>10
    <3>13. ASSUME NEW u \in Holders
           PROVE  u \in Holders' /\ threads'[u].buf = threads[u].buf
      BY <3>7, <3>9, <3>11
    <3>. QED
      BY <3>2, <3>6, <3>8, <3>12, <3>13
  <2>1. TypeOK'
    <3>1. blocksSemaphore' \in 0 .. NumBlocks
      BY <2>f
    <3>2. threads' \in [Threads -> ThreadType]
      BY <2>d
    <3>. QED
      BY <3>1, <3>2, <2>e, TypedRecords DEF CoderInv, PlainTypes
  <2>2. CallInv'
    <3>1. Active' = Active
      BY <2>a, <2>c, <2>d, <2>e DEF Active, Quiet
    <3>. QED
      BY <3>1, <2>a, <2>c, <2>d, <2>e DEF CoderInv, CallInv
  <2>3. LockInv'
    BY <2>c, <2>d, <2>e DEF CoderInv, LockInv, Reader
  <2>4. WriterInv'
    BY <2>f
  <2>5. RingInv'
    BY <2>f
  <2>6. FreeInv'
    <3>1. \A f \in Buffers : (\E b \in Waiting : blocks[b].buf = f) =>
             \/ \E u \in Holders' : threads'[u].buf = f
             \/ \E b \in Waiting' : blocks[b].buf = f
      BY <2>g, <2>c, <2>d
    <3>2. \A f \in Buffers : (\E u \in Holders : threads[u].buf = f) =>
            \E u \in Holders' : threads'[u].buf = f
      BY <2>g
    <3>3. Free' = Free
      BY <2>e DEF Free
    <3>. QED
      BY <3>1, <3>2, <3>3, <2>e DEF CoderInv, FreeInv
  <2>7. ApartInv'
    <3>1. Free' = Free
      BY <2>e DEF Free
    <3>2. \A u \in Holders' : \/ u = t /\ threads'[u].buf = blocks[threads[t].wi].buf
                                      /\ threads[t].wi \in Waiting
                              \/ u \in Holders /\ threads'[u].buf = threads[u].buf
      BY <2>g, <2>c, <2>d
    <3>3. \A b \in Waiting' : b \in Waiting /\ b # threads[t].wi
      BY <2>g
    <3>. QED
      BY <3>1, <3>2, <3>3, <2>e DEF CoderInv, ApartInv
  <2>8. TroubleInv'
    BY <2>xc, <2>a, <2>c, <2>d, <2>e, <2>g DEF CoderInv, TroubleInv
  <2>9. ReadInv'
    BY <2>a, <2>c, <2>d, <2>e DEF CoderInv, ReadInv, Own
  <2>10. CodedInv'
    BY <2>xa, <2>xb, <2>xc, <2>a, <2>c, <2>d, <2>e, <2>g DEF CoderInv, CodedInv, Running
  <2>11. OrderInv'
    <3>1. ASSUME Running, troubles = {}
          PROVE  /\ Base' = Base /\ threads'[t].pc = "write"
                 /\ outBufs[blocks[threads[t].wi].buf] = Base + 1
                 /\ blocks[threads[t].wi].finished => stopReading
      <4>1. threads'[t].pc = "write"
        BY <3>1, <2>xc, <2>c, <2>d
      <4>2. Base' = Base
        BY <4>1, <2>xa, <2>d, <2>e DEF Base
      <4>3. OrderFrom(threads[t].wi) /\ Dist(threads[t].wi, threads[t].wi) = 0
        BY <3>1, <2>xa, Distances DEF CoderInv, OrderInv
      <4>4. outBufs[blocks[threads[t].wi].buf] = Base + 1
        BY <4>3, <2>xa, Numbers DEF OrderFrom
      <4>. QED
        BY <3>1, <4>1, <4>2, <4>4, <2>xa DEF CoderInv, OrderInv
    <3>2. ASSUME Running, troubles = {}, NEW o \in Blocks, IsOldest(o)
          PROVE  OrderFrom(o)'
      <4>1. OrderFrom(o)
        BY <3>2 DEF CoderInv, OrderInv
      <4>. QED
        BY <4>1, <3>1, <3>2, <2>d, <2>e, <2>g DEF OrderFrom, Own
    <3>3. ASSUME Running, troubles = {}, NEW u \in Threads
          PROVE  OrderOf(u)'
      <4>1. OrderOf(u)
        BY <3>3 DEF CoderInv, OrderInv
      <4>. QED
        BY <4>1, <3>1, <3>3, <2>c, <2>d, <2>e DEF OrderOf
    <3>4. ASSUME Running, troubles = {}
          PROVE  readProcessed' = Base' + InFlight' + Took'
      <4>1. readProcessed = Base + InFlight + Took
        BY <3>4 DEF CoderInv, OrderInv
      <4>2. Took' = Took
        BY <2>a, <2>c, <2>d DEF Took
      <4>. QED
        BY <4>1, <4>2, <3>1, <3>4, <2>e, <2>f
    <3>. QED
      BY <3>2, <3>3, <3>4, <2>a, <2>e, <2>f, <2>g DEF CoderInv, OrderInv
  <2>. QED
    BY <2>1, <2>2, <2>3, <2>4, <2>5, <2>6, <2>7, <2>8, <2>9, <2>10, <2>11 DEF CoderInv
<1>2. CASE threads[t].pc = "last"
  <2>a. /\ threads[t].pc \in {"last"} /\ caller.pc = "wait" /\ Running
        /\ t < numStartedThreads /\ finishedEvent = FALSE /\ t \notin startEvent
    BY <1>2, InCall DEF Signal, Quiet, CoderInv
  <2>xd. PICK p \in {"done", "read"} : p = (IF threads[t].finished \/ threads[t].res # "ok" THEN "done" ELSE "read")
    OBVIOUS
  <2>xe. /\ p = "done" => threads[t].res # "ok" \/ threads[t].finished
         /\ threads[t].stop = FALSE
         /\ threads[t].res # "ok" => troubles # {}
    BY <2>xd, <2>a, InCall, Records DEF CoderInv, TroubleInv, Quiet
  <2>e. /\ UNCHANGED <<caller, startEvent, readEvent, finishedEvent, stopReading,
                       readProcessed, blockIndex, numStartedThreads, writeIndex,
                       ReadyBlocks, freeBlocks, blocks, numFinishedThreads, readRes,
                       writeRes, progressRes, outBufs, input, written, troubles,
                       faults>>
        /\ blocksSemaphore' = blocksSemaphore + 1
    BY <1>2, Zenon DEF Signal, NoFault, Fault, events, reading, ring, results, history
  <2>. DEFINE r == [NewThread EXCEPT !.pc = p, !.stop = threads[t].stop]
  <2>b. threads' = [threads EXCEPT ![t] = r]
    BY <1>2, <2>xd DEF Signal, Without
  <2>c. /\ r \in ThreadType
        /\ r.pc = p
        /\ r.pc \in {"done", "read"}
        /\ r.res = "ok"
        /\ r.stop = threads[t].stop
    <3>1. threads[t] \in ThreadType
      BY Records DEF CoderInv
    <3>2. threads[t].stop \in BOOLEAN
      BY <2>xe
    <3>. QED
      BY <3>1, <3>2, NewThreads DEF ThreadType, ThreadPcs
  <2>. HIDE DEF r
  <2>d. /\ threads' \in [Threads -> ThreadType] /\ threads'[t] = r
        /\ \A u \in Threads : u # t => threads'[u] = threads[u]
    BY <2>b, <2>c, Records DEF CoderInv
  <2>f. /\ \A b : IsOldest(b)' <=> IsOldest(b)
        /\ InFlight' = InFlight /\ blocksSemaphore' \in 0 .. NumBlocks
        /\ WriterInv' /\ RingInv'
    BY <2>c, <2>d, <2>e, <1>2, RingSignalled
  <2>g. /\ Holders' = Holders /\ Waiting' = Waiting
        /\ \A b : Queued(b)' <=> Queued(b)
        /\ FreeInv' /\ ApartInv'
    <3>1. \A u \in Threads :
             /\ Holds(u)' <=> Holds(u)
             /\ Holds(u) => threads'[u].buf = threads[u].buf
             /\ threads'[u].pc = "next" <=> threads[u].pc = "next"
             /\ threads[u].pc = "next" => threads'[u].wi = threads[u].wi
      BY <2>a, <2>c, <2>d DEF Holds
    <3>. QED
      BY <2>e, <3>1, BuffersKept
  <2>1. TypeOK'
    <3>1. blocksSemaphore' \in 0 .. NumBlocks
      BY <2>f
    <3>2. threads' \in [Threads -> ThreadType]
      BY <2>d
    <3>. QED
      BY <3>1, <3>2, <2>e, TypedRecords DEF CoderInv, PlainTypes
  <2>2. CallInv'
    <3>1. Active' = Active
      BY <2>a, <2>c, <2>d, <2>e DEF Active, Quiet
    <3>. QED
      BY <3>1, <2>a, <2>c, <2>d, <2>e DEF CoderInv, CallInv
  <2>3. LockInv'
    BY <2>c, <2>d, <2>e DEF CoderInv, LockInv, Reader
  <2>4. WriterInv' /\ RingInv' /\ FreeInv' /\ ApartInv'
    BY <2>f, <2>g
  <2>5. TroubleInv'
    BY <2>a, <2>c, <2>d, <2>e, <2>g DEF CoderInv, TroubleInv, FirstError
  <2>6. ReadInv'
    BY <2>a, <2>c, <2>d, <2>e DEF CoderInv, ReadInv, Own
  <2>7. CodedInv'
    BY <2>a, <2>c, <2>d, <2>e, <2>g DEF CoderInv, CodedInv
  <2>8. OrderInv'
    <3>1. Base' = Base
      BY <2>a, <2>c, <2>d, <2>e DEF Base
    <3>2. ASSUME Running, troubles = {}, NEW o \in Blocks, IsOldest(o)
          PROVE  OrderFrom(o)'
      <4>1. OrderFrom(o)
        BY <3>2 DEF CoderInv, OrderInv
      <4>. QED
        BY <4>1, <3>1, <2>c, <2>d, <2>e, <2>g DEF OrderFrom, Own
    <3>3. ASSUME Running, troubles = {}, NEW u \in Threads
          PROVE  OrderOf(u)'
      <4>1. OrderOf(u) /\ OrderOf(t)
        BY <3>3 DEF CoderInv, OrderInv
      <4>. QED
        BY <4>1, <3>1, <3>3, <2>xe, <2>a, <2>c, <2>d, <2>e DEF OrderOf
    <3>4. ASSUME Running, troubles = {}
          PROVE  readProcessed' = Base' + InFlight' + Took'
      <4>1. readProcessed = Base + InFlight + Took
        BY <3>4 DEF CoderInv, OrderInv
      <4>. QED
        BY <4>1, <3>1, <3>4, <2>xd, <2>a, <2>c, <2>d, <2>e, <2>f DEF Took
    <3>5. ASSUME Running, troubles = {}
          PROVE  /\ stopReading' => readProcessed' = input' + 1
                 /\ numFinishedThreads' > 0 => stopReading'
      BY <3>5, <2>e DEF CoderInv, OrderInv
    <3>. QED
      BY <3>2, <3>3, <3>4, <2>a, <2>e, <2>f, <2>g DEF CoderInv, OrderInv
  <2>. QED
    BY <2>1, <2>2, <2>3, <2>4, <2>5, <2>6, <2>7, <2>8 DEF CoderInv
<1>. QED
  BY <1>1, <1>2 DEF Signal

\* Encode keeps CoderInv.
LEMMA EncodeStep ==
    ASSUME CoderInv, ~Dawdles, NEW n \in 0 .. MaxInput, Encode(n)
    PROVE  CoderInv'
<1>a. /\ caller.pc = "idle" /\ \A t \in Threads : threads[t].pc # "count"
  BY DEF Encode
<1>e. /\ UNCHANGED <<threads, startEvent, readEvent, finishedEvent, blocksSemaphore,
                     stopReading, readProcessed, blockIndex, numStartedThreads,
                     writeIndex, ReadyBlocks, freeBlocks, blocks, numFinishedThreads,
                     readRes, writeRes, progressRes, outBufs, faults>>
      /\ caller' = [caller EXCEPT !.pc = "props", !.codes = caller.codes + 1]
      /\ input' = n
      /\ written' = <<>>
      /\ troubles' = {}
  BY Zenon DEF Encode, NoFault, Fault, events, reading, ring, results, history
<1>c. /\ caller' \in [pc : CallerPcs, codes : 0 .. MaxCodes, i : 0 .. NumThreads, res : Results]
      /\ caller'.pc = "props"
      /\ caller'.codes = caller.codes + 1
      /\ caller'.i = caller.i
      /\ caller'.res = caller.res
  <2>1. caller \in [pc : CallerPcs, codes : 0 .. MaxCodes, i : 0 .. NumThreads, res : Results]
    BY CallerTypes DEF CoderInv
  <2>2. caller.codes + 1 \in 0 .. MaxCodes
    BY CallerTypes, Sizes DEF CoderInv, Encode
  <2>. QED
    BY <2>1, <2>2, <1>e DEF CallerPcs
<1>f. /\ \A b : IsOldest(b)' <=> IsOldest(b)
      /\ InFlight' = InFlight
      /\ WriterInv' /\ RingInv'
  <2>1. \A u \in Threads :
           /\ Own(u)' <=> Own(u)
           /\ Own(u) => threads'[u].bi = threads[u].bi
           /\ Writer(u)' <=> Writer(u)
           /\ Writer(u) => threads'[u].wi = threads[u].wi
           /\ threads'[u].pc \in {"next", "last"} <=> threads[u].pc \in {"next", "last"}
    BY <1>e DEF Own, Writer
  <2>. QED
    BY <1>e, <2>1, RingKept
<1>g. /\ Holders' = Holders /\ Waiting' = Waiting
      /\ \A b : Queued(b)' <=> Queued(b)
      /\ FreeInv' /\ ApartInv'
  <2>1. \A u \in Threads :
           /\ Holds(u)' <=> Holds(u)
           /\ Holds(u) => threads'[u].buf = threads[u].buf
           /\ threads'[u].pc = "next" <=> threads[u].pc = "next"
           /\ threads[u].pc = "next" => threads'[u].wi = threads[u].wi
    BY <1>e DEF Holds
  <2>. QED
    BY <1>e, <2>1, BuffersKept
<1>1. TypeOK'
  <2>1. written' \in Seq(1 .. MaxInput + 1)
    BY <1>e
  <2>2. troubles' \in SUBSET Errors
    BY <1>e
  <2>. QED
    BY <2>1, <2>2, <1>c, <1>e DEF CoderInv, TypeOK, Results, CallerPcs
<1>2. CallInv'
  BY <1>a, <1>e DEF CoderInv, CallInv
<1>3. LockInv'
  BY <1>e DEF CoderInv, LockInv, Reader
<1>4. WriterInv' /\ RingInv' /\ FreeInv' /\ ApartInv'
  BY <1>f, <1>g
<1>5. TroubleInv'
  BY <1>e DEF TroubleInv, Running
<1>6. ReadInv'
  BY <1>c DEF ReadInv, Running
<1>7. CodedInv'
  BY <1>c DEF CodedInv, Running
<1>8. OrderInv'
  BY <1>c DEF OrderInv, Running
<1>. QED
  BY <1>1, <1>2, <1>3, <1>4, <1>5, <1>6, <1>7, <1>8 DEF CoderInv

\* WriteProps keeps CoderInv.
LEMMA WritePropsStep ==
    ASSUME CoderInv, WriteProps
    PROVE  CoderInv'
<1>a. caller.pc = "props"
  BY DEF WriteProps
<1>e. /\ UNCHANGED <<threads, startEvent, readEvent, finishedEvent, blocksSemaphore,
                     stopReading, readProcessed, blockIndex, numStartedThreads,
                     writeIndex, ReadyBlocks, freeBlocks, blocks, numFinishedThreads,
                     readRes, writeRes, progressRes, outBufs, input, written, troubles,
                     faults>>
      /\ caller' = [caller EXCEPT !.pc = "init"]
  BY Zenon DEF WriteProps, NoFault, Fault, events, reading, ring, results, history
<1>c. /\ caller' \in [pc : CallerPcs, codes : 0 .. MaxCodes, i : 0 .. NumThreads, res : Results]
      /\ caller'.pc = "init"
      /\ caller'.codes = caller.codes
      /\ caller'.i = caller.i
      /\ caller'.res = caller.res
  <2>1. caller \in [pc : CallerPcs, codes : 0 .. MaxCodes, i : 0 .. NumThreads, res : Results]
    BY CallerTypes DEF CoderInv
  <2>. QED
    BY <2>1, <1>e DEF CallerPcs
<1>f. /\ \A b : IsOldest(b)' <=> IsOldest(b)
      /\ InFlight' = InFlight
      /\ WriterInv' /\ RingInv'
  <2>1. \A u \in Threads :
           /\ Own(u)' <=> Own(u)
           /\ Own(u) => threads'[u].bi = threads[u].bi
           /\ Writer(u)' <=> Writer(u)
           /\ Writer(u) => threads'[u].wi = threads[u].wi
           /\ threads'[u].pc \in {"next", "last"} <=> threads[u].pc \in {"next", "last"}
    BY <1>e DEF Own, Writer
  <2>. QED
    BY <1>e, <2>1, RingKept
<1>g. /\ Holders' = Holders /\ Waiting' = Waiting
      /\ \A b : Queued(b)' <=> Queued(b)
      /\ FreeInv' /\ ApartInv'
  <2>1. \A u \in Threads :
           /\ Holds(u)' <=> Holds(u)
           /\ Holds(u) => threads'[u].buf = threads[u].buf
           /\ threads'[u].pc = "next" <=> threads[u].pc = "next"
           /\ threads[u].pc = "next" => threads'[u].wi = threads[u].wi
    BY <1>e DEF Holds
  <2>. QED
    BY <1>e, <2>1, BuffersKept
<1>1. TypeOK'
  <2>. QED
    BY <1>c, <1>e, Records, TypedRecords DEF CoderInv, PlainTypes
<1>2. CallInv'
  BY <1>a, <1>e DEF CoderInv, CallInv
<1>3. LockInv'
  BY <1>e DEF CoderInv, LockInv, Reader
<1>4. WriterInv' /\ RingInv' /\ FreeInv' /\ ApartInv'
  BY <1>f, <1>g
<1>5. TroubleInv'
  BY <1>a, <1>e DEF CoderInv, TroubleInv, Running
<1>6. ReadInv'
  BY <1>c DEF ReadInv, Running
<1>7. CodedInv'
  BY <1>c DEF CodedInv, Running
<1>8. OrderInv'
  BY <1>c DEF OrderInv, Running
<1>. QED
  BY <1>1, <1>2, <1>3, <1>4, <1>5, <1>6, <1>7, <1>8 DEF CoderInv

\* InitCode keeps CoderInv.
LEMMA InitCodeStep ==
    ASSUME CoderInv, InitCode
    PROVE  CoderInv'
<1>a. /\ caller.pc = "init"
      /\ \A u \in Threads : threads[u].pc \in {"none", "parked"}
  BY DEF CoderInv, CallInv, InitCode
<1>e. /\ UNCHANGED <<threads, startEvent, blocks, outBufs, input, written, troubles,
                     faults>>
      /\ caller' = [caller EXCEPT !.pc = "start"]
      /\ finishedEvent' = FALSE
      /\ readEvent' = FALSE
      /\ blocksSemaphore' = NumBlocks
      /\ freeBlocks' = FreeList
      /\ readProcessed' = 0
      /\ blockIndex' = 0
      /\ stopReading' = FALSE
      /\ numStartedThreads' = 0
      /\ writeIndex' = 0
      /\ ReadyBlocks' = [b \in Blocks |-> FALSE]
      /\ numFinishedThreads' = 0
      /\ readRes' = "ok"
      /\ writeRes' = "ok"
      /\ progressRes' = "ok"
  BY Zenon DEF InitCode, NoFault, Fault, events, reading, ring, results, history
<1>xa. /\ \A u \in Threads : ~Own(u)' /\ ~Writer(u)' /\ ~Reader(u)'
       /\ Unsignalled' = {} /\ InFlight' = 0 /\ Holders' = {} /\ Waiting' = {}
       /\ \A b \in Blocks : ~Queued(b)' /\ ~ReadyBlocks'[b]
  <2>1. \A u \in Threads : ~Own(u)' /\ ~Writer(u)' /\ ~Reader(u)'
    BY <1>a, <1>e DEF Own, Writer, Reader
  <2>2. Unsignalled' = {} /\ Holders' = {}
    BY <1>a, <1>e DEF Unsignalled, Holders
  <2>3. \A b \in Blocks : ~Queued(b)' /\ ~ReadyBlocks'[b]
    BY <1>a, <1>e DEF Queued
  <2>4. Waiting' = {}
    BY <2>3 DEF Waiting, Queued
  <2>5. InFlight' = 0
    BY <2>2, <1>e, FS_EmptySet, Sizes DEF InFlight
  <2>. QED
    BY <2>1, <2>2, <2>3, <2>4, <2>5
<1>xb. /\ freeBlocks' \in Seq(Buffers) /\ Len(freeBlocks') = NumBuffers
       /\ \A k \in 1 .. NumBuffers : freeBlocks'[k] = k - 1
  BY <1>e, Sizes DEF FreeList, Buffers
<1>xc. 0 \in Blocks /\ 0 # Nowhere
  BY Sizes
<1>c. /\ caller' \in [pc : CallerPcs, codes : 0 .. MaxCodes, i : 0 .. NumThreads, res : Results]
      /\ caller'.pc = "start"
      /\ caller'.codes = caller.codes
      /\ caller'.i = caller.i
      /\ caller'.res = caller.res
  <2>1. caller \in [pc : CallerPcs, codes : 0 .. MaxCodes, i : 0 .. NumThreads, res : Results]
    BY CallerTypes DEF CoderInv
  <2>. QED
    BY <2>1, <1>e DEF CallerPcs
<1>1. TypeOK'
  <2>1. finishedEvent' \in BOOLEAN
    BY <1>xa, <1>xb, <1>xc, <1>a, <1>e, Sizes DEF CoderInv, TypeOK, FirstError, Results
  <2>2. readEvent' \in BOOLEAN
    BY <1>xa, <1>xb, <1>xc, <1>a, <1>e, Sizes DEF CoderInv, TypeOK, FirstError, Results
  <2>3. blocksSemaphore' \in 0 .. NumBlocks
    BY <1>e, Sizes
  <2>4. freeBlocks' \in Seq(Buffers)
    BY <1>a, <1>e, Sizes
  <2>5. readProcessed' \in 0 .. MaxInput + 1
    BY <1>e, Sizes
  <2>6. blockIndex' \in Blocks
    BY <1>e, Sizes
  <2>7. stopReading' \in BOOLEAN
    BY <1>xa, <1>xb, <1>xc, <1>a, <1>e, Sizes DEF CoderInv, TypeOK, FirstError, Results
  <2>8. numStartedThreads' \in 0 .. NumThreads
    BY <1>e, Sizes
  <2>9. writeIndex' \in Blocks \union {Nowhere}
    BY <1>e, Sizes
  <2>10. ReadyBlocks' \in [Blocks -> BOOLEAN]
    BY <1>e
  <2>11. numFinishedThreads' \in 0 .. NumThreads
    BY <1>e, Sizes
  <2>12. readRes' \in Results
    BY <1>e DEF Results
  <2>13. writeRes' \in Results
    BY <1>e DEF Results
  <2>14. progressRes' \in Results
    BY <1>e DEF Results
  <2>. QED
    BY <2>1, <2>2, <2>3, <2>4, <2>5, <2>6, <2>7, <2>8, <2>9, <2>10, <2>11, <2>12,
       <2>13, <1>xa, <1>c, <1>e, Records, TypedRecords
       DEF CoderInv, PlainTypes
<1>2. CallInv'
  BY <1>a, <1>e DEF CoderInv, CallInv
<1>3. LockInv'
  BY <1>xa DEF LockInv
<1>4. WriterInv'
  BY <1>xa, <1>xc, <1>e DEF WriterInv
<1>5. RingInv'
  <2>1. \A o \in Blocks : IsOldest(o)' => o = 0
    BY <1>xa, <1>e DEF IsOldest
  <2>2. \A b \in Blocks : Dist(0, b) >= 0 /\ Dist(0, 0) = 0
    BY Distances DEF Blocks
  <2>3. RingFrom(0)'
    BY <1>xa, <1>e DEF RingFrom, Dist, Blocks
  <2>. QED
    BY <2>1, <2>3, <1>xa, <1>e, Sizes DEF RingInv
<1>6. FreeInv'
  <2>1. \A f \in Buffers : f \in Free'
    <3>1. \A f \in Buffers : f + 1 \in 1 .. Len(freeBlocks') /\ freeBlocks'[f + 1] = f
      BY <1>xb DEF Buffers
    <3>. QED
      BY <3>1 DEF Free
  <2>. QED
    BY <2>1, <1>xb DEF FreeInv
<1>7. ApartInv'
  BY <1>xa DEF ApartInv
<1>8. TroubleInv'
  BY <1>xa, <1>a, <1>e DEF CoderInv, TroubleInv, Quiet
<1>9. ReadInv'
  BY <1>xa, <1>a, <1>e, Numbers DEF ReadInv
<1>10. CodedInv'
  BY <1>xa, <1>a, <1>e DEF CodedInv
<1>11. OrderInv'
  <2>1. Base' = 0 /\ Took' = 0
    BY <1>a, <1>e DEF CoderInv, TroubleInv, Base, Took
  <2>2. ASSUME NEW o \in Blocks
        PROVE  OrderFrom(o)'
    BY <1>xa DEF OrderFrom
  <2>3. ASSUME NEW u \in Threads
        PROVE  OrderOf(u)'
    BY <1>a, <1>e DEF OrderOf
  <2>. QED
    BY <2>1, <2>2, <2>3, <1>xa, <1>e DEF OrderInv
<1>. QED
  BY <1>1, <1>2, <1>3, <1>4, <1>5, <1>6, <1>7, <1>8, <1>9, <1>10, <1>11 DEF CoderInv

\* StartFirst keeps CoderInv.
LEMMA StartFirstStep ==
    ASSUME CoderInv, StartFirst
    PROVE  CoderInv'
<1>1. CASE /\ threads' = CreateAndStart(threads, 0)
           /\ startEvent' = startEvent \union {0}
           /\ readEvent' = TRUE
           /\ caller' = [caller EXCEPT !.pc = "wait"]
           /\ NoFault
  <2>a. /\ caller.pc = "start" /\ startEvent = {} /\ numFinishedThreads = 0
        /\ finishedEvent = FALSE /\ readEvent = FALSE /\ caller.res = "ok"
        /\ \A u \in Threads : threads[u].pc \in {"none", "parked"} /\ ~threads[u].stop
    BY DEF CoderInv, CallInv, StartFirst
  <2>e. /\ UNCHANGED <<finishedEvent, blocksSemaphore, stopReading, readProcessed,
                       blockIndex, writeIndex, ReadyBlocks, freeBlocks, blocks,
                       numFinishedThreads, readRes, writeRes, progressRes, outBufs,
                       input, written, troubles, faults>>
        /\ caller' = [caller EXCEPT !.pc = "wait"]
        /\ numStartedThreads' = 1
        /\ startEvent' = startEvent \union {0}
        /\ readEvent' = TRUE
        /\ threads' = CreateAndStart(threads, 0)
    BY <1>1, Zenon
       DEF StartFirst, NoFault, Fault, events, reading, ring, results, history
  <2>xa. /\ threads' \in [Threads -> ThreadType]
         /\ threads'[0].pc = "parked" /\ ~threads'[0].stop /\ threads'[0].res = "ok"
         /\ \A u \in Threads : u # 0 => threads'[u] = threads[u]
    BY <2>a, <2>e, StartedThread, Records, Sizes DEF CoderInv, CallInv
  <2>xb. 0 \in Threads /\ troubles = {} /\ written = <<>> /\ 1 \in 0 .. NumThreads
    BY <2>a, Sizes DEF CoderInv, TroubleInv
  <2>c. /\ caller' \in [pc : CallerPcs, codes : 0 .. MaxCodes, i : 0 .. NumThreads, res : Results]
        /\ caller'.pc = "wait"
        /\ caller'.codes = caller.codes
        /\ caller'.i = caller.i
        /\ caller'.res = caller.res
    <3>1. caller \in [pc : CallerPcs, codes : 0 .. MaxCodes, i : 0 .. NumThreads, res : Results]
      BY CallerTypes DEF CoderInv
    <3>. QED
      BY <3>1, <2>e DEF CallerPcs
  <2>f. /\ \A b : IsOldest(b)' <=> IsOldest(b)
        /\ InFlight' = InFlight
        /\ WriterInv' /\ RingInv'
    <3>1. \A u \in Threads :
             /\ Own(u)' <=> Own(u)
             /\ Own(u) => threads'[u].bi = threads[u].bi
             /\ Writer(u)' <=> Writer(u)
             /\ Writer(u) => threads'[u].wi = threads[u].wi
             /\ threads'[u].pc \in {"next", "last"} <=> threads[u].pc \in {"next", "last"}
      BY <2>xa, <2>a DEF Own, Writer
    <3>. QED
      BY <2>e, <3>1, RingKept
  <2>g. /\ Holders' = Holders /\ Waiting' = Waiting
        /\ \A b : Queued(b)' <=> Queued(b)
        /\ FreeInv' /\ ApartInv'
    <3>1. \A u \in Threads :
             /\ Holds(u)' <=> Holds(u)
             /\ Holds(u) => threads'[u].buf = threads[u].buf
             /\ threads'[u].pc = "next" <=> threads[u].pc = "next"
             /\ threads[u].pc = "next" => threads'[u].wi = threads[u].wi
      BY <2>xa, <2>a DEF Holds
    <3>. QED
      BY <2>e, <3>1, BuffersKept
  <2>1. TypeOK'
    <3>1. numStartedThreads' \in 0 .. NumThreads
      BY <2>e, Sizes
    <3>2. startEvent' \in SUBSET Threads
      BY <2>a, <2>e, Sizes
    <3>3. readEvent' \in BOOLEAN
      BY <2>e
    <3>. QED
      BY <3>1, <3>2, <3>3, <2>xa, <2>xb, <2>c, <2>e, Records, TypedRecords
         DEF CoderInv, PlainTypes
  <2>2. CallInv'
    <3>1. Active' = {0}
      BY <2>xa, <2>xb, <2>a, <2>c DEF Active
    <3>2. Cardinality(Active') = 1
      BY <3>1, FS_Singleton
    <3>3. \A u \in Threads : /\ ~threads'[u].stop /\ threads'[u].pc \in {"none", "parked"}
                              /\ threads'[u].res = "ok"
      BY <2>xa, <2>a DEF CoderInv, CallInv
    <3>4. \A u \in Threads : u \in startEvent' => threads'[u].pc = "parked" /\ ~(u >= 1)
      BY <2>xa, <2>a, <2>e
    <3>5. numFinishedThreads' + Cardinality(Active') = 1
      BY <3>2, <2>a, <2>e
    <3>. QED
      BY <3>3, <3>4, <3>5, <2>a, <2>e DEF CallInv
  <2>3. LockInv'
    BY <2>xa, <2>xb, <2>c
  <2>4. WriterInv' /\ RingInv' /\ FreeInv' /\ ApartInv'
    BY <2>f, <2>g
  <2>5. TroubleInv'
    BY <2>xa, <2>a, <2>e, <2>g DEF CoderInv, TroubleInv, Running
  <2>6. ReadInv'
    BY <2>xa, <2>a, <2>e DEF CoderInv, ReadInv, Running, Own
  <2>7. CodedInv'
    BY <2>xa, <2>a, <2>e, <2>g DEF CoderInv, CodedInv, Running
  <2>8. OrderInv'
    <3>1. Base' = Base /\ Took' = Took
      BY <2>xa, <2>a, <2>e DEF Base, Took
    <3>2. ASSUME NEW o \in Blocks, IsOldest(o)
          PROVE  OrderFrom(o)'
      <4>1. OrderFrom(o)
        BY <2>a, <2>xb, <3>2 DEF CoderInv, OrderInv, Running
      <4>. QED
        BY <4>1, <3>1, <2>xa, <2>e, <2>g DEF OrderFrom, Own
    <3>3. ASSUME NEW u \in Threads
          PROVE  OrderOf(u)'
      BY <2>xa, <2>a DEF OrderOf
    <3>. QED
      BY <3>1, <3>2, <3>3, <2>a, <2>e, <2>f, <2>g DEF CoderInv, OrderInv, Running
  <2>. QED
    BY <2>1, <2>2, <2>3, <2>4, <2>5, <2>6, <2>7, <2>8 DEF CoderInv
<1>2. CASE /\ threads[0].pc = "none" /\ Fault("thread")
           /\ caller' = [caller EXCEPT !.pc = "failed", !.res = "thread"]
           /\ UNCHANGED <<threads, startEvent, readEvent>>
  <2>a. /\ caller.pc = "start" /\ startEvent = {} /\ numFinishedThreads = 0
        /\ finishedEvent = FALSE /\ readEvent = FALSE /\ caller.res = "ok"
        /\ \A u \in Threads : threads[u].pc \in {"none", "parked"} /\ ~threads[u].stop
    BY DEF CoderInv, CallInv, StartFirst
  <2>e. /\ UNCHANGED <<threads, startEvent, readEvent, finishedEvent, blocksSemaphore,
                       stopReading, readProcessed, blockIndex, writeIndex, ReadyBlocks,
                       freeBlocks, blocks, numFinishedThreads, readRes, writeRes,
                       progressRes, outBufs, input, written>>
        /\ caller' = [caller EXCEPT !.pc = "failed", !.res = "thread"]
        /\ numStartedThreads' = 1
        /\ troubles' = troubles \union {"thread"}
        /\ faults' = faults + 1
        /\ faults < MaxFaults
        /\ "thread" \in Errors
    BY <1>2, Zenon
       DEF StartFirst, NoFault, Fault, Errors, events, reading, ring, results, history
  <2>c. /\ caller' \in [pc : CallerPcs, codes : 0 .. MaxCodes, i : 0 .. NumThreads, res : Results]
        /\ caller'.pc = "failed"
        /\ caller'.res = "thread"
        /\ caller'.codes = caller.codes
        /\ caller'.i = caller.i
    <3>1. caller \in [pc : CallerPcs, codes : 0 .. MaxCodes, i : 0 .. NumThreads, res : Results]
      BY CallerTypes DEF CoderInv
    <3>4. "thread" \in Results
      BY DEF Results, Errors
    <3>. QED
      BY <3>1, <3>4, <2>e DEF CallerPcs
  <2>f. /\ \A b : IsOldest(b)' <=> IsOldest(b)
        /\ InFlight' = InFlight
        /\ WriterInv' /\ RingInv'
    <3>1. \A u \in Threads :
             /\ Own(u)' <=> Own(u)
             /\ Own(u) => threads'[u].bi = threads[u].bi
             /\ Writer(u)' <=> Writer(u)
             /\ Writer(u) => threads'[u].wi = threads[u].wi
             /\ threads'[u].pc \in {"next", "last"} <=> threads[u].pc \in {"next", "last"}
      BY <2>e DEF Own, Writer
    <3>. QED
      BY <2>e, <3>1, RingKept
  <2>g. /\ Holders' = Holders /\ Waiting' = Waiting
        /\ \A b : Queued(b)' <=> Queued(b)
        /\ FreeInv' /\ ApartInv'
    <3>1. \A u \in Threads :
             /\ Holds(u)' <=> Holds(u)
             /\ Holds(u) => threads'[u].buf = threads[u].buf
             /\ threads'[u].pc = "next" <=> threads[u].pc = "next"
             /\ threads[u].pc = "next" => threads'[u].wi = threads[u].wi
      BY <2>e DEF Holds
    <3>. QED
      BY <2>e, <3>1, BuffersKept
  <2>1. TypeOK'
    <3>1. numStartedThreads' \in 0 .. NumThreads
      BY <2>e, Sizes
    <3>2. troubles' \in SUBSET Errors
      BY <2>e DEF CoderInv, TypeOK, FirstError, Results
    <3>3. faults' \in 0 .. MaxFaults
      <4>1. faults \in 0 .. MaxFaults /\ MaxFaults \in Nat
        BY Sizes DEF CoderInv, TypeOK
      <4>. QED
        BY <4>1, <2>e
    <3>. QED
      BY <3>1, <3>2, <3>3, <2>c, <2>e DEF CoderInv, TypeOK, Results, CallerPcs
  <2>2. CallInv'
    BY <2>a, <2>e DEF CoderInv, CallInv, Quiet
  <2>3. LockInv'
    BY <2>a, <2>e DEF LockInv, Reader
  <2>4. WriterInv' /\ RingInv' /\ FreeInv' /\ ApartInv'
    BY <2>f, <2>g
  <2>5. TroubleInv'
    BY <2>e DEF TroubleInv, Running
  <2>6. ReadInv'
    BY <2>c DEF ReadInv, Running
  <2>7. CodedInv'
    BY <2>c DEF CodedInv, Running
  <2>8. OrderInv'
    BY <2>c DEF OrderInv, Running
  <2>. QED
    BY <2>1, <2>2, <2>3, <2>4, <2>5, <2>6, <2>7, <2>8 DEF CoderInv
<1>. QED
  BY <1>1, <1>2 DEF StartFirst

\* WaitFinished keeps CoderInv.
LEMMA WaitFinishedStep ==
    ASSUME CoderInv, WaitFinished
    PROVE  CoderInv'
<1>1. CASE CodeResult = "ok"
  <2>a. /\ caller.pc = "wait" /\ Active = {} /\ startEvent = {}
        /\ \A u \in Threads : threads[u].pc \in {"none", "parked", "count"} /\ ~threads[u].stop
    <3>1. caller.pc = "wait" /\ finishedEvent
      BY DEF WaitFinished
    <3>2. Active = {} /\ \A u \in Threads : threads[u].pc # "exited" /\ ~threads[u].stop
      BY <3>1 DEF CoderInv, CallInv
    <3>3. \A u \in Threads : threads[u].pc \in Quiet /\ u \notin startEvent
      BY <3>1 DEF CoderInv, CallInv, Active
    <3>. QED
      BY <3>1, <3>2, <3>3 DEF CoderInv, TypeOK, Quiet
  <2>e. /\ UNCHANGED <<threads, startEvent, readEvent, blocksSemaphore, stopReading,
                       readProcessed, blockIndex, numStartedThreads, writeIndex,
                       ReadyBlocks, freeBlocks, blocks, numFinishedThreads, readRes,
                       writeRes, progressRes, outBufs, input, written, troubles,
                       faults>>
        /\ caller' = [caller EXCEPT !.pc = "idle", !.res = CodeResult, !.i = 0]
        /\ finishedEvent' = FALSE
    BY <1>1, Zenon
       DEF WaitFinished, NoFault, Fault, events, reading, ring, results, history
  <2>xa. CodeResult \in Results /\ (CodeResult # "ok" => CodeResult \in troubles)
    BY <2>a DEF CodeResult, CoderInv, TypeOK, TroubleInv, Results, Running
  <2>xb. CodeResult = "ok"
    BY <1>1
  <2>c. /\ caller' \in [pc : CallerPcs, codes : 0 .. MaxCodes, i : 0 .. NumThreads, res : Results]
        /\ caller'.pc = "idle"
        /\ caller'.res = CodeResult
        /\ caller'.i = 0
        /\ caller'.codes = caller.codes
    <3>1. caller \in [pc : CallerPcs, codes : 0 .. MaxCodes, i : 0 .. NumThreads, res : Results]
      BY CallerTypes DEF CoderInv
    <3>3. 0 \in 0 .. NumThreads
      BY Sizes
    <3>4. CodeResult \in Results
      BY <2>xa
    <3>. QED
      BY <3>1, <3>3, <3>4, <2>e DEF CallerPcs
  <2>f. /\ \A b : IsOldest(b)' <=> IsOldest(b)
        /\ InFlight' = InFlight
        /\ WriterInv' /\ RingInv'
    <3>1. \A u \in Threads :
             /\ Own(u)' <=> Own(u)
             /\ Own(u) => threads'[u].bi = threads[u].bi
             /\ Writer(u)' <=> Writer(u)
             /\ Writer(u) => threads'[u].wi = threads[u].wi
             /\ threads'[u].pc \in {"next", "last"} <=> threads[u].pc \in {"next", "last"}
      BY <2>e DEF Own, Writer
    <3>. QED
      BY <2>e, <3>1, RingKept
  <2>g. /\ Holders' = Holders /\ Waiting' = Waiting
        /\ \A b : Queued(b)' <=> Queued(b)
        /\ FreeInv' /\ ApartInv'
    <3>1. \A u \in Threads :
             /\ Holds(u)' <=> Holds(u)
             /\ Holds(u) => threads'[u].buf = threads[u].buf
             /\ threads'[u].pc = "next" <=> threads[u].pc = "next"
             /\ threads[u].pc = "next" => threads'[u].wi = threads[u].wi
      BY <2>e DEF Holds
    <3>. QED
      BY <2>e, <3>1, BuffersKept
  <2>1. TypeOK'
    <3>1. finishedEvent' \in BOOLEAN
      BY <2>xa, <2>xb, <2>a, <2>e, Sizes DEF CoderInv, TypeOK, FirstError, Results
    <3>. QED
      BY <3>1, <2>xa, <2>xb, <2>c, <2>e, Records, TypedRecords
         DEF CoderInv, PlainTypes
  <2>2. CallInv'
    BY <2>xb, <2>a, <2>e DEF CoderInv, CallInv
  <2>3. LockInv'
    BY <2>a, <2>e DEF LockInv, Reader
  <2>4. WriterInv' /\ RingInv' /\ FreeInv' /\ ApartInv'
    BY <2>f, <2>g
  <2>5. TroubleInv'
    BY <2>e DEF TroubleInv, Running
  <2>6. ReadInv'
    BY <2>c DEF ReadInv, Running
  <2>7. CodedInv'
    BY <2>c DEF CodedInv, Running
  <2>8. OrderInv'
    BY <2>c DEF OrderInv, Running
  <2>. QED
    BY <2>1, <2>2, <2>3, <2>4, <2>5, <2>6, <2>7, <2>8 DEF CoderInv
<1>2. CASE CodeResult # "ok"
  <2>a. /\ caller.pc = "wait" /\ Active = {} /\ startEvent = {}
        /\ \A u \in Threads : threads[u].pc \in {"none", "parked", "count"} /\ ~threads[u].stop
    <3>1. caller.pc = "wait" /\ finishedEvent
      BY DEF WaitFinished
    <3>2. Active = {} /\ \A u \in Threads : threads[u].pc # "exited" /\ ~threads[u].stop
      BY <3>1 DEF CoderInv, CallInv
    <3>3. \A u \in Threads : threads[u].pc \in Quiet /\ u \notin startEvent
      BY <3>1 DEF CoderInv, CallInv, Active
    <3>. QED
      BY <3>1, <3>2, <3>3 DEF CoderInv, TypeOK, Quiet
  <2>e. /\ UNCHANGED <<threads, startEvent, readEvent, blocksSemaphore, stopReading,
                       readProcessed, blockIndex, numStartedThreads, writeIndex,
                       ReadyBlocks, freeBlocks, blocks, numFinishedThreads, readRes,
                       writeRes, progressRes, outBufs, input, written, troubles,
                       faults>>
        /\ caller' = [caller EXCEPT !.pc = "free", !.res = CodeResult, !.i = 0]
        /\ finishedEvent' = FALSE
    BY <1>2, Zenon
       DEF WaitFinished, NoFault, Fault, events, reading, ring, results, history
  <2>xa. CodeResult \in Results /\ (CodeResult # "ok" => CodeResult \in troubles)
    BY <2>a DEF CodeResult, CoderInv, TypeOK, TroubleInv, Results, Running
  <2>xb. CodeResult # "ok"
    BY <1>2
  <2>c. /\ caller' \in [pc : CallerPcs, codes : 0 .. MaxCodes, i : 0 .. NumThreads, res : Results]
        /\ caller'.pc = "free"
        /\ caller'.res = CodeResult
        /\ caller'.i = 0
        /\ caller'.codes = caller.codes
    <3>1. caller \in [pc : CallerPcs, codes : 0 .. MaxCodes, i : 0 .. NumThreads, res : Results]
      BY CallerTypes DEF CoderInv
    <3>3. 0 \in 0 .. NumThreads
      BY Sizes
    <3>4. CodeResult \in Results
      BY <2>xa
    <3>. QED
      BY <3>1, <3>3, <3>4, <2>e DEF CallerPcs
  <2>f. /\ \A b : IsOldest(b)' <=> IsOldest(b)
        /\ InFlight' = InFlight
        /\ WriterInv' /\ RingInv'
    <3>1. \A u \in Threads :
             /\ Own(u)' <=> Own(u)
             /\ Own(u) => threads'[u].bi = threads[u].bi
             /\ Writer(u)' <=> Writer(u)
             /\ Writer(u) => threads'[u].wi = threads[u].wi
             /\ threads'[u].pc \in {"next", "last"} <=> threads[u].pc \in {"next", "last"}
      BY <2>e DEF Own, Writer
    <3>. QED
      BY <2>e, <3>1, RingKept
  <2>g. /\ Holders' = Holders /\ Waiting' = Waiting
        /\ \A b : Queued(b)' <=> Queued(b)
        /\ FreeInv' /\ ApartInv'
    <3>1. \A u \in Threads :
             /\ Holds(u)' <=> Holds(u)
             /\ Holds(u) => threads'[u].buf = threads[u].buf
             /\ threads'[u].pc = "next" <=> threads[u].pc = "next"
             /\ threads[u].pc = "next" => threads'[u].wi = threads[u].wi
      BY <2>e DEF Holds
    <3>. QED
      BY <2>e, <3>1, BuffersKept
  <2>1. TypeOK'
    <3>1. finishedEvent' \in BOOLEAN
      BY <2>xa, <2>xb, <2>a, <2>e, Sizes DEF CoderInv, TypeOK, FirstError, Results
    <3>. QED
      BY <3>1, <2>xa, <2>xb, <2>c, <2>e, Records, TypedRecords
         DEF CoderInv, PlainTypes
  <2>2. CallInv'
    BY <2>xa, <2>xb, <2>a, <2>e DEF CoderInv, CallInv, Quiet
  <2>3. LockInv'
    BY <2>a, <2>e DEF LockInv, Reader
  <2>4. WriterInv' /\ RingInv' /\ FreeInv' /\ ApartInv'
    BY <2>f, <2>g
  <2>5. TroubleInv'
    BY <2>e DEF TroubleInv, Running
  <2>6. ReadInv'
    BY <2>c DEF ReadInv, Running
  <2>7. CodedInv'
    BY <2>c DEF CodedInv, Running
  <2>8. OrderInv'
    BY <2>c DEF OrderInv, Running
  <2>. QED
    BY <2>1, <2>2, <2>3, <2>4, <2>5, <2>6, <2>7, <2>8 DEF CoderInv
<1>. QED
  BY <1>1, <1>2

\* StopThread keeps CoderInv.
LEMMA StopThreadStep ==
    ASSUME CoderInv, StopThread
    PROVE  CoderInv'
<1>1. CASE /\ caller.i = NumThreads
           /\ caller' = [caller EXCEPT !.pc = "failed"]
           /\ UNCHANGED <<threads, startEvent>>
  <2>a. caller.pc = "free" /\ ~Running
    BY DEF StopThread, Running
  <2>e. /\ UNCHANGED <<threads, startEvent, readEvent, finishedEvent, blocksSemaphore,
                       stopReading, readProcessed, blockIndex, numStartedThreads,
                       writeIndex, ReadyBlocks, freeBlocks, blocks, numFinishedThreads,
                       readRes, writeRes, progressRes, outBufs, input, written,
                       troubles, faults>>
        /\ caller' = [caller EXCEPT !.pc = "failed"]
    BY <1>1, Zenon
       DEF StopThread, NoFault, Fault, events, reading, ring, results, history
  <2>c. /\ caller' \in [pc : CallerPcs, codes : 0 .. MaxCodes, i : 0 .. NumThreads, res : Results]
        /\ caller'.pc = "failed"
        /\ caller'.codes = caller.codes
        /\ caller'.i = caller.i
        /\ caller'.res = caller.res
    <3>1. caller \in [pc : CallerPcs, codes : 0 .. MaxCodes, i : 0 .. NumThreads, res : Results]
      BY CallerTypes DEF CoderInv
    <3>. QED
      BY <3>1, <2>e DEF CallerPcs
  <2>f. /\ \A b : IsOldest(b)' <=> IsOldest(b)
        /\ InFlight' = InFlight
        /\ WriterInv' /\ RingInv'
    <3>1. \A u \in Threads :
             /\ Own(u)' <=> Own(u)
             /\ Own(u) => threads'[u].bi = threads[u].bi
             /\ Writer(u)' <=> Writer(u)
             /\ Writer(u) => threads'[u].wi = threads[u].wi
             /\ threads'[u].pc \in {"next", "last"} <=> threads[u].pc \in {"next", "last"}
      BY <2>e DEF Own, Writer
    <3>. QED
      BY <2>e, <3>1, RingKept
  <2>g. /\ Holders' = Holders /\ Waiting' = Waiting
        /\ \A b : Queued(b)' <=> Queued(b)
        /\ FreeInv' /\ ApartInv'
    <3>1. \A u \in Threads :
             /\ Holds(u)' <=> Holds(u)
             /\ Holds(u) => threads'[u].buf = threads[u].buf
             /\ threads'[u].pc = "next" <=> threads[u].pc = "next"
             /\ threads[u].pc = "next" => threads'[u].wi = threads[u].wi
      BY <2>e DEF Holds
    <3>. QED
      BY <2>e, <3>1, BuffersKept
  <2>1. TypeOK'
    <3>. QED
      BY <2>c, <2>e, Records, TypedRecords DEF CoderInv, PlainTypes
  <2>2. CallInv'
    BY <2>a, <2>e DEF CoderInv, CallInv
  <2>3. LockInv'
    BY <2>e DEF CoderInv, LockInv, Reader
  <2>4. WriterInv' /\ RingInv' /\ FreeInv' /\ ApartInv'
    BY <2>f, <2>g
  <2>5. TroubleInv'
    BY <2>e DEF TroubleInv, Running
  <2>6. ReadInv'
    BY <2>c DEF ReadInv, Running
  <2>7. CodedInv'
    BY <2>c DEF CodedInv, Running
  <2>8. OrderInv'
    BY <2>c DEF OrderInv, Running
  <2>. QED
    BY <2>1, <2>2, <2>3, <2>4, <2>5, <2>6, <2>7, <2>8 DEF CoderInv
<1>2. CASE /\ caller.i < NumThreads /\ threads[caller.i].pc = "none"
           /\ caller' = [caller EXCEPT !.i = @ + 1]
           /\ UNCHANGED <<threads, startEvent>>
  <2>a. caller.pc = "free" /\ ~Running
    BY DEF StopThread, Running
  <2>e. /\ UNCHANGED <<threads, startEvent, readEvent, finishedEvent, blocksSemaphore,
                       stopReading, readProcessed, blockIndex, numStartedThreads,
                       writeIndex, ReadyBlocks, freeBlocks, blocks, numFinishedThreads,
                       readRes, writeRes, progressRes, outBufs, input, written,
                       troubles, faults>>
        /\ caller' = [caller EXCEPT !.i = caller.i + 1]
    BY <1>2, Zenon
       DEF StopThread, NoFault, Fault, events, reading, ring, results, history
  <2>c. /\ caller' \in [pc : CallerPcs, codes : 0 .. MaxCodes, i : 0 .. NumThreads, res : Results]
        /\ caller'.i = caller.i + 1
        /\ caller'.pc = caller.pc
        /\ caller'.codes = caller.codes
        /\ caller'.res = caller.res
    <3>1. caller \in [pc : CallerPcs, codes : 0 .. MaxCodes, i : 0 .. NumThreads, res : Results]
      BY CallerTypes DEF CoderInv
    <3>3. caller.i + 1 \in 0 .. NumThreads
      BY <1>2, CallerTypes, Sizes DEF CoderInv
    <3>. QED
      BY <3>1, <3>3, <2>e
  <2>f. /\ \A b : IsOldest(b)' <=> IsOldest(b)
        /\ InFlight' = InFlight
        /\ WriterInv' /\ RingInv'
    <3>1. \A u \in Threads :
             /\ Own(u)' <=> Own(u)
             /\ Own(u) => threads'[u].bi = threads[u].bi
             /\ Writer(u)' <=> Writer(u)
             /\ Writer(u) => threads'[u].wi = threads[u].wi
             /\ threads'[u].pc \in {"next", "last"} <=> threads[u].pc \in {"next", "last"}
      BY <2>e DEF Own, Writer
    <3>. QED
      BY <2>e, <3>1, RingKept
  <2>g. /\ Holders' = Holders /\ Waiting' = Waiting
        /\ \A b : Queued(b)' <=> Queued(b)
        /\ FreeInv' /\ ApartInv'
    <3>1. \A u \in Threads :
             /\ Holds(u)' <=> Holds(u)
             /\ Holds(u) => threads'[u].buf = threads[u].buf
             /\ threads'[u].pc = "next" <=> threads[u].pc = "next"
             /\ threads[u].pc = "next" => threads'[u].wi = threads[u].wi
      BY <2>e DEF Holds
    <3>. QED
      BY <2>e, <3>1, BuffersKept
  <2>1. TypeOK'
    <3>. QED
      BY <2>c, <2>e, Records, TypedRecords DEF CoderInv, PlainTypes
  <2>2. CallInv'
    BY <2>a, <2>e DEF CoderInv, CallInv
  <2>3. LockInv'
    BY <2>e DEF CoderInv, LockInv, Reader
  <2>4. WriterInv' /\ RingInv' /\ FreeInv' /\ ApartInv'
    BY <2>f, <2>g
  <2>5. TroubleInv'
    BY <2>a, <2>e DEF TroubleInv, Running
  <2>6. ReadInv'
    BY <2>a, <2>c DEF ReadInv, Running
  <2>7. CodedInv'
    BY <2>a, <2>c DEF CodedInv, Running
  <2>8. OrderInv'
    BY <2>a, <2>c DEF OrderInv, Running
  <2>. QED
    BY <2>1, <2>2, <2>3, <2>4, <2>5, <2>6, <2>7, <2>8 DEF CoderInv
<1>3. CASE /\ caller.i < NumThreads /\ threads[caller.i].pc # "none"
           /\ threads' = [threads EXCEPT ![caller.i].stop = TRUE]
           /\ startEvent' = startEvent \union {caller.i}
           /\ caller' = [caller EXCEPT !.pc = "join"]
  <2>a. caller.pc = "free" /\ ~Running /\ caller.i \in Threads
    BY <1>3, CallerTypes, Sizes DEF CoderInv, StopThread, Running, Threads
  <2>e. /\ UNCHANGED <<readEvent, finishedEvent, blocksSemaphore, stopReading,
                       readProcessed, blockIndex, numStartedThreads, writeIndex,
                       ReadyBlocks, freeBlocks, blocks, numFinishedThreads, readRes,
                       writeRes, progressRes, outBufs, input, written, troubles,
                       faults>>
        /\ caller' = [caller EXCEPT !.pc = "join"]
        /\ startEvent' = startEvent \union {caller.i}
        /\ threads' = [threads EXCEPT ![caller.i].stop = TRUE]
        /\ caller.i < NumThreads
    BY <1>3, Zenon
       DEF StopThread, NoFault, Fault, events, reading, ring, results, history
  <2>xa. /\ threads' \in [Threads -> ThreadType] /\ threads'[caller.i].stop
         /\ \A u \in Threads : /\ u # caller.i => threads'[u] = threads[u]
                               /\ threads'[u].pc = threads[u].pc /\ threads'[u].bi = threads[u].bi
                               /\ threads'[u].wi = threads[u].wi /\ threads'[u].buf = threads[u].buf
                               /\ threads'[u].res = threads[u].res
    <3>. DEFINE r == [threads[caller.i] EXCEPT !.stop = TRUE]
    <3>1. r \in ThreadType /\ r.stop /\ r.pc = threads[caller.i].pc /\ r.bi = threads[caller.i].bi
          /\ r.wi = threads[caller.i].wi /\ r.buf = threads[caller.i].buf
          /\ r.res = threads[caller.i].res
      <4>1. threads[caller.i] \in ThreadType
        BY <2>a, Records DEF CoderInv
      <4>. QED
        BY <4>1 DEF ThreadType
    <3>2. threads' = [threads EXCEPT ![caller.i] = r]
      BY <2>e
    <3>. HIDE DEF r
    <3>. QED
      BY <2>a, <3>1, <3>2, Records DEF CoderInv
  <2>c. /\ caller' \in [pc : CallerPcs, codes : 0 .. MaxCodes, i : 0 .. NumThreads, res : Results]
        /\ caller'.pc = "join"
        /\ caller'.codes = caller.codes
        /\ caller'.i = caller.i
        /\ caller'.res = caller.res
    <3>1. caller \in [pc : CallerPcs, codes : 0 .. MaxCodes, i : 0 .. NumThreads, res : Results]
      BY CallerTypes DEF CoderInv
    <3>. QED
      BY <3>1, <2>e DEF CallerPcs
  <2>f. /\ \A b : IsOldest(b)' <=> IsOldest(b)
        /\ InFlight' = InFlight
        /\ WriterInv' /\ RingInv'
    <3>1. \A u \in Threads :
             /\ Own(u)' <=> Own(u)
             /\ Own(u) => threads'[u].bi = threads[u].bi
             /\ Writer(u)' <=> Writer(u)
             /\ Writer(u) => threads'[u].wi = threads[u].wi
             /\ threads'[u].pc \in {"next", "last"} <=> threads[u].pc \in {"next", "last"}
      BY <2>e DEF Own, Writer
    <3>. QED
      BY <2>e, <3>1, RingKept
  <2>g. /\ Holders' = Holders /\ Waiting' = Waiting
        /\ \A b : Queued(b)' <=> Queued(b)
        /\ FreeInv' /\ ApartInv'
    <3>1. \A u \in Threads :
             /\ Holds(u)' <=> Holds(u)
             /\ Holds(u) => threads'[u].buf = threads[u].buf
             /\ threads'[u].pc = "next" <=> threads[u].pc = "next"
             /\ threads[u].pc = "next" => threads'[u].wi = threads[u].wi
      BY <2>e DEF Holds
    <3>. QED
      BY <2>e, <3>1, BuffersKept
  <2>1. TypeOK'
    <3>1. startEvent' \in SUBSET Threads
      BY <2>a, <2>e DEF CoderInv, TypeOK, FirstError, Results
    <3>. QED
      BY <3>1, <2>xa, <2>c, <2>e, Records, TypedRecords
         DEF CoderInv, PlainTypes
  <2>2. CallInv'
    BY <2>xa, <2>a, <2>e DEF CoderInv, CallInv
  <2>3. LockInv'
    BY <2>e DEF CoderInv, LockInv, Reader
  <2>4. WriterInv' /\ RingInv' /\ FreeInv' /\ ApartInv'
    BY <2>f, <2>g
  <2>5. TroubleInv'
    BY <2>e DEF TroubleInv, Running
  <2>6. ReadInv'
    BY <2>c DEF ReadInv, Running
  <2>7. CodedInv'
    BY <2>c DEF CodedInv, Running
  <2>8. OrderInv'
    BY <2>c DEF OrderInv, Running
  <2>. QED
    BY <2>1, <2>2, <2>3, <2>4, <2>5, <2>6, <2>7, <2>8 DEF CoderInv
<1>. QED
  BY <1>1, <1>2, <1>3 DEF StopThread

\* JoinThread keeps CoderInv.
LEMMA JoinThreadStep ==
    ASSUME CoderInv, JoinThread
    PROVE  CoderInv'
<1>a. caller.pc = "join" /\ caller.i < NumThreads /\ ~Running
  BY DEF CoderInv, CallInv, JoinThread, Running
<1>e. /\ UNCHANGED <<threads, startEvent, readEvent, finishedEvent, blocksSemaphore,
                     stopReading, readProcessed, blockIndex, numStartedThreads,
                     writeIndex, ReadyBlocks, freeBlocks, blocks, numFinishedThreads,
                     readRes, writeRes, progressRes, outBufs, input, written, troubles,
                     faults>>
      /\ caller' = [caller EXCEPT !.pc = "free", !.i = caller.i + 1]
  BY Zenon DEF JoinThread, NoFault, Fault, events, reading, ring, results, history
<1>c. /\ caller' \in [pc : CallerPcs, codes : 0 .. MaxCodes, i : 0 .. NumThreads, res : Results]
      /\ caller'.pc = "free"
      /\ caller'.i = caller.i + 1
      /\ caller'.codes = caller.codes
      /\ caller'.res = caller.res
  <2>1. caller \in [pc : CallerPcs, codes : 0 .. MaxCodes, i : 0 .. NumThreads, res : Results]
    BY CallerTypes DEF CoderInv
  <2>3. caller.i + 1 \in 0 .. NumThreads
    BY <1>a, CallerTypes, Sizes DEF CoderInv
  <2>. QED
    BY <2>1, <2>3, <1>e DEF CallerPcs
<1>f. /\ \A b : IsOldest(b)' <=> IsOldest(b)
      /\ InFlight' = InFlight
      /\ WriterInv' /\ RingInv'
  <2>1. \A u \in Threads :
           /\ Own(u)' <=> Own(u)
           /\ Own(u) => threads'[u].bi = threads[u].bi
           /\ Writer(u)' <=> Writer(u)
           /\ Writer(u) => threads'[u].wi = threads[u].wi
           /\ threads'[u].pc \in {"next", "last"} <=> threads[u].pc \in {"next", "last"}
    BY <1>e DEF Own, Writer
  <2>. QED
    BY <1>e, <2>1, RingKept
<1>g. /\ Holders' = Holders /\ Waiting' = Waiting
      /\ \A b : Queued(b)' <=> Queued(b)
      /\ FreeInv' /\ ApartInv'
  <2>1. \A u \in Threads :
           /\ Holds(u)' <=> Holds(u)
           /\ Holds(u) => threads'[u].buf = threads[u].buf
           /\ threads'[u].pc = "next" <=> threads[u].pc = "next"
           /\ threads[u].pc = "next" => threads'[u].wi = threads[u].wi
    BY <1>e DEF Holds
  <2>. QED
    BY <1>e, <2>1, BuffersKept
<1>1. TypeOK'
  <2>. QED
    BY <1>c, <1>e, Records, TypedRecords DEF CoderInv, PlainTypes
<1>2. CallInv'
  BY <1>a, <1>e DEF CoderInv, CallInv
<1>3. LockInv'
  BY <1>e DEF CoderInv, LockInv, Reader
<1>4. WriterInv' /\ RingInv' /\ FreeInv' /\ ApartInv'
  BY <1>f, <1>g
<1>5. TroubleInv'
  BY <1>e DEF TroubleInv, Running
<1>6. ReadInv'
  BY <1>c DEF ReadInv, Running
<1>7. CodedInv'
  BY <1>c DEF CodedInv, Running
<1>8. OrderInv'
  BY <1>c DEF OrderInv, Running
<1>. QED
  BY <1>1, <1>2, <1>3, <1>4, <1>5, <1>6, <1>7, <1>8 DEF CoderInv

\* A set with no two elements
LEMMA AtMostOne ==
    ASSUME NEW S, \A x, y \in S : x = y
    PROVE  Cardinality(S) \in Nat /\ Cardinality(S) <= 1
<1>1. CASE S = {}
  BY <1>1, FS_EmptySet
<1>2. CASE S # {}
  <2>1. PICK x \in S : S = {x}
    BY <1>2
  <2>. QED
    BY <2>1, FS_Singleton
<1>. QED
  BY <1>1, <1>2

--------------------------------------------------------------------------------
(* The invariant holds at first, and every step keeps it                    *)

\* CoderInv holds at first.
LEMMA InitInv == Init => CoderInv
<1>. SUFFICES ASSUME Init
              PROVE  CoderInv
  OBVIOUS
<1>1. /\ caller = [pc |-> "idle", codes |-> 0, i |-> 0, res |-> "ok"]
      /\ threads = [t \in Threads |-> NewThread] /\ startEvent = {}
      /\ readEvent = FALSE /\ finishedEvent = FALSE /\ blocksSemaphore = NumBlocks
      /\ stopReading = FALSE /\ readProcessed = 0 /\ blockIndex = 0 /\ numStartedThreads = 0
      /\ writeIndex = 0 /\ ReadyBlocks = [b \in Blocks |-> FALSE] /\ freeBlocks = FreeList
      /\ numFinishedThreads = 0 /\ blocks = [b \in Blocks |-> NewBlock]
      /\ readRes = "ok" /\ writeRes = "ok" /\ progressRes = "ok"
      /\ outBufs = [f \in Buffers |-> 0]
      /\ input = 0 /\ written = <<>> /\ troubles = {} /\ faults = 0
  BY Zenon DEF Init
<1>2. /\ caller.pc = "idle" /\ caller.res = "ok" /\ ~Running
      /\ \A t \in Threads : /\ threads[t].pc = "none" /\ ~threads[t].stop /\ threads[t].res = "ok"
                            /\ ~Own(t) /\ ~Writer(t) /\ ~Reader(t)
  BY <1>1 DEF NewThread, Running, Own, Writer, Reader
<1>3. /\ Unsignalled = {} /\ Holders = {}
      /\ \A b \in Blocks : ~ReadyBlocks[b] /\ ~Queued(b)
  BY <1>1, <1>2 DEF Unsignalled, Holders, Queued
<1>4. Waiting = {}
  BY <1>3 DEF Waiting, Queued
<1>5. InFlight = 0
  BY <1>1, <1>3, FS_EmptySet, Sizes DEF InFlight
<1>6. TypeOK
  <2>1. /\ threads \in [Threads -> ThreadType] /\ blocks \in [Blocks -> BlockType]
    <3>1. NewBlock \in BlockType
      BY DEF NewBlock, BlockType, Results
    <3>. QED
      BY <1>1, <3>1, NewThreads
  <2>2. /\ freeBlocks \in Seq(Buffers) /\ written \in Seq(1 .. MaxInput + 1)
    BY <1>1, Sizes DEF FreeList, Buffers
  <2>3. /\ caller \in [pc : CallerPcs, codes : 0 .. MaxCodes, i : 0 .. NumThreads, res : Results]
    BY <1>1, Sizes DEF CallerPcs, Results
  <2>4. /\ ReadyBlocks \in [Blocks -> BOOLEAN] /\ outBufs \in [Buffers -> 0 .. MaxInput + 1]
        /\ blocksSemaphore \in 0 .. NumBlocks /\ readProcessed \in 0 .. MaxInput + 1
        /\ blockIndex \in Blocks /\ writeIndex \in Blocks \union {Nowhere}
        /\ numStartedThreads \in 0 .. NumThreads /\ numFinishedThreads \in 0 .. NumThreads
        /\ input \in 0 .. MaxInput /\ faults \in 0 .. MaxFaults
    BY <1>1, Sizes
  <2>. QED
    BY <2>1, <2>2, <2>3, <2>4, <1>1, TypedRecords DEF PlainTypes, Results
<1>7. CallInv /\ LockInv /\ TroubleInv /\ ReadInv /\ CodedInv /\ OrderInv /\ ApartInv
  BY <1>1, <1>2, <1>3, <1>4
     DEF CallInv, LockInv, TroubleInv, ReadInv, CodedInv, OrderInv, ApartInv
<1>8. FreeInv
  <2>1. Len(freeBlocks) = NumBuffers /\ \A k \in 1 .. NumBuffers : freeBlocks[k] = k - 1
    BY <1>1, Sizes DEF FreeList
  <2>2. \A f \in Buffers : f + 1 \in 1 .. Len(freeBlocks) /\ freeBlocks[f + 1] = f
    BY <2>1, Sizes DEF Buffers
  <2>. QED
    BY <2>1, <2>2, Sizes DEF FreeInv, Free
<1>9. WriterInv
  BY <1>1, <1>2, Sizes DEF WriterInv, Nowhere
<1>10. RingInv
  <2>1. \A o \in Blocks : IsOldest(o) => o = 0
    BY <1>1, <1>2 DEF IsOldest
  <2>2. 0 \in Blocks /\ 0 # Nowhere
    BY Sizes DEF Nowhere
  <2>3. Dist(0, 0) = 0 /\ \A b \in Blocks : Dist(0, b) >= 0
    BY <2>2, Distances, Sizes DEF Blocks
  <2>4. RingFrom(0)
    BY <2>3, <1>1, <1>2, <1>3, <1>5, Sizes DEF RingFrom
  <2>. QED
    BY <2>1, <2>2, <2>4, <1>1, <1>2, <1>5, Sizes DEF RingInv
<1>. QED
  BY <1>6, <1>7, <1>8, <1>9, <1>10 DEF CoderInv

\* Every step keeps CoderInv.
LEMMA NextInv ==
    ASSUME ~Dawdles, CoderInv, [Next]_vars
    PROVE  CoderInv'
<1>1. ASSUME NEW n \in 0 .. MaxInput, Encode(n)
      PROVE  CoderInv'
  BY <1>1, EncodeStep
<1>2. CASE WriteProps
  BY <1>2, WritePropsStep
<1>3. CASE InitCode
  BY <1>3, InitCodeStep
<1>4. CASE StartFirst
  BY <1>4, StartFirstStep
<1>5. CASE WaitFinished
  BY <1>5, WaitFinishedStep
<1>6. CASE StopThread
  BY <1>6, StopThreadStep
<1>7. CASE JoinThread
  BY <1>7, JoinThreadStep
<1>8. ASSUME NEW t \in Threads, ThreadStep(t)
      PROVE  CoderInv'
  BY <1>8, WakeStep, EnterReadStep, ReadStep, TakeBlockStep, TakeBufferStep, CodeStep,
     PublishStep, WriteStep, ReleaseStep, SignalStep, FinishStep, CountStep
     DEF ThreadStep
<1>9. CASE UNCHANGED vars
  <2>1. /\ UNCHANGED <<caller, threads, startEvent, readEvent, finishedEvent,
                       blocksSemaphore>>
        /\ UNCHANGED <<stopReading, readProcessed, blockIndex, numStartedThreads,
                       writeIndex>>
        /\ UNCHANGED <<ReadyBlocks, freeBlocks, blocks, numFinishedThreads, readRes,
                       writeRes>>
        /\ UNCHANGED <<progressRes, outBufs, input, written, troubles, faults>>
    BY <1>9, Zenon DEF vars, events, reading, ring, results, history
  <2>2. /\ Active' = Active /\ Unsignalled' = Unsignalled /\ Free' = Free /\ Base' = Base
        /\ Took' = Took /\ InFlight' = InFlight /\ Holders' = Holders /\ Waiting' = Waiting
        /\ (Running' <=> Running)
    BY <2>1
       DEF Active, Unsignalled, Free, Base, Took, InFlight, Holders, Waiting, Running
  <2>3. TypeOK' /\ CallInv' /\ LockInv' /\ WriterInv'
    BY <2>1, <2>2 DEF CoderInv, TypeOK, CallInv, LockInv, WriterInv, Reader, Writer
  <2>4. RingInv'
    BY <2>1, <2>2 DEF CoderInv, RingInv, RingFrom, IsOldest, Own, Writer
  <2>5. FreeInv' /\ ApartInv' /\ TroubleInv' /\ ReadInv' /\ CodedInv'
    BY <2>1, <2>2
       DEF CoderInv, FreeInv, ApartInv, TroubleInv, ReadInv, CodedInv, Queued, Own
  <2>6. OrderInv'
    BY <2>1, <2>2
       DEF CoderInv, OrderInv, OrderFrom, OrderOf, IsOldest, Queued, Own, Writer
  <2>. QED
    BY <2>3, <2>4, <2>5, <2>6 DEF CoderInv
<1>. QED
  BY <1>1, <1>2, <1>3, <1>4, <1>5, <1>6, <1>7, <1>8, <1>9 DEF Next, CallerStep

\* The inductive invariant holds in every state.
THEOREM CoderInvariant ==
    ASSUME ~Dawdles
    PROVE  Spec => []CoderInv
<1>1. CoderInv /\ [Next]_vars => CoderInv'
  BY NextInv
<1>. QED
  BY <1>1, InitInv, PTL DEF Spec

--------------------------------------------------------------------------------
(* What follows from the invariant                                          *)

\* At most one thread is inside the Read callback and one inside the Write
\* callback, over all calls, and none writes while LZMA_Encode itself does
\* (LzmaEnc.c, Lzma2Enc_MtCallback_Write; the checks of TLZMAWorkerThread).
THEOREM OneInside ==
    ASSUME ~Dawdles
    PROVE  Spec => []OneThreadInside
<1>1. ASSUME CoderInv
      PROVE  OneThreadInside
  <2>. DEFINE R == {t \in Threads : threads[t].pc = "reading"}
              W == {t \in Threads : threads[t].pc = "write"}
  <2>1. Cardinality(R) \in Nat /\ Cardinality(R) <= 1
    <3>1. \A t, u \in R : t = u
      BY <1>1 DEF CoderInv, LockInv, Reader
    <3>. QED
      BY <3>1, AtMostOne
  <2>2. Cardinality(W) \in Nat /\ Cardinality(W) <= 1
    <3>1. \A t, u \in W : t = u
      BY <1>1 DEF CoderInv, WriterInv, Writer
    <3>. QED
      BY <3>1, AtMostOne
  <2>3. caller.pc = "props" => Cardinality(W) = 0
    <3>1. caller.pc = "props" => W = {}
      BY <1>1 DEF CoderInv, CallInv
    <3>. QED
      BY <3>1, FS_EmptySet
  <2>. QED
    BY <2>1, <2>2, <2>3 DEF OneThreadInside
<1>. QED
  BY <1>1, CoderInvariant, PTL

\* An output buffer belongs to one thread or one block that waits, or is free,
\* and a thread that has a block of the ring always finds a free one
\* (MtCoder.c, ThreadFunc2: freeBlockHead is read with no check).
THEOREM BuffersAreApart ==
    ASSUME ~Dawdles
    PROVE  Spec => []BuffersApart
<1>1. ASSUME CoderInv
      PROVE  BuffersApart
  <2>1. \A k \in DOMAIN freeBlocks : freeBlocks[k] \in Free
    BY <1>1 DEF CoderInv, TypeOK, Free
  <2>2. \A t \in Threads : threads[t].pc = "buffer" => freeBlocks # <<>>
    BY <1>1, FreeBuffer
  <2>. QED
    BY <1>1, <2>1, <2>2 DEF CoderInv, ApartInv, BuffersApart
<1>. QED
  BY <1>1, CoderInvariant, PTL
--------------------------------------------------------------------------------
(* The threads together code as OrderedBlocks promises                      *)

\* Where the last block has been written and every thread has finished, the
\* whole input has been written.
LEMMA AllWritten ==
    ASSUME CoderInv, caller.pc = "wait", finishedEvent, troubles = {}
    PROVE  Len(written) = input + 1
<1>1. \A t \in Threads : threads[t].pc \in Quiet /\ t \notin startEvent
  BY DEF CoderInv, CallInv, Active
<1>2. \A t \in Threads : ~Own(t) /\ ~Writer(t) /\ threads[t].pc \notin {"release", "take"}
  BY <1>1 DEF Quiet, Own, Writer
<1>3. Base = Len(written) /\ Took = 0
  BY <1>2 DEF Base, Took
<1>4. InFlight = 0
  <2>1. PICK o \in Blocks : IsOldest(o)
    BY SomeOldest
  <2>2. RingFrom(o) /\ writeIndex # Nowhere
    BY <1>2, <2>1 DEF CoderInv, RingInv, WriterInv
  <2>3. ~(Dist(o, o) < InFlight)
    BY <1>2, <2>2 DEF RingFrom
  <2>. QED
    BY <2>3, Distances, Numbers
<1>5. stopReading
  <2>1. numFinishedThreads > 0
    <3>1. Active = {} /\ numFinishedThreads + Cardinality(Active) = numStartedThreads
          /\ numStartedThreads >= 1
      BY DEF CoderInv, CallInv
    <3>. QED
      BY <3>1, FS_EmptySet, Numbers
  <2>. QED
    BY <2>1 DEF CoderInv, OrderInv, Running
<1>. QED
  BY <1>3, <1>4, <1>5, Numbers DEF CoderInv, OrderInv, Running

\* The thread that writes has the next block of the output, or one of the input
\* at any rate
LEMMA NextToWrite ==
    ASSUME CoderInv, NEW t \in Threads, threads[t].pc = "write"
    PROVE  /\ outBufs[threads[t].buf] \in 1 .. input + 1
           /\ troubles = {} => outBufs[threads[t].buf] = Len(written) + 1
<1>1. Running
  BY InCall DEF Quiet
<1>2. outBufs[threads[t].buf] \in 1 .. input + 1
  BY <1>1 DEF CoderInv, CodedInv
<1>3. Base = Len(written)
  BY DEF CoderInv, WriterInv, Writer, Base
<1>. QED
  BY <1>1, <1>2, <1>3 DEF CoderInv, OrderInv, OrderOf

\* A step that touches nothing the caller sees is a stutter of OrderedBlocks.
LEMMA Stutters ==
    ASSUME UNCHANGED <<caller, input, written, troubles>>
    PROVE  UNCHANGED Ordered!vars
BY DEF Ordered!vars

\* A fault inside a call is a GoWrong of OrderedBlocks.
LEMMA GoesWrong ==
    ASSUME caller.pc = "wait", UNCHANGED <<caller, input, written>>,
           NEW err \in Errors, Fault(err)
    PROVE  Ordered!Next
BY DEF Ordered!Next, Ordered!GoWrong, Fault

\* A step of a thread writes a block, fails, or is of no concern to the caller.
LEMMA ThreadRefines ==
    ASSUME CoderInv, NEW t \in Threads, ThreadStep(t)
    PROVE  Ordered!Next \/ UNCHANGED Ordered!vars
<1>1. CASE Wake(t) \/ EnterRead(t) \/ TakeBuffer(t) \/ Publish(t)
           \/ Release(t) \/ Signal(t) \/ Finish(t) \/ Count(t)
  <2>1. UNCHANGED <<caller, input, written, troubles>>
    BY <1>1, Zenon
       DEF Wake, EnterRead, TakeBuffer, Publish, Release, Signal, Finish, Count,
           history
  <2>. QED
    BY <2>1, Stutters
<1>2. ASSUME threads[t].pc \in {"reading", "take", "code"},
             UNCHANGED <<caller, input, written>>,
             \/ NoFault
             \/ \E err \in Errors : Fault(err)
      PROVE  Ordered!Next \/ UNCHANGED Ordered!vars
  <2>1. CASE NoFault
    BY <1>2, <2>1, Stutters DEF NoFault
  <2>2. CASE \E err \in Errors : Fault(err)
    BY <1>2, <2>2, InCall, GoesWrong DEF Quiet
  <2>. QED
    BY <1>2, <2>1, <2>2
<1>3. CASE Read(t)
  BY <1>2, <1>3 DEF Read, Errors
<1>4. CASE TakeBlock(t)
  BY <1>2, <1>4 DEF TakeBlock, Errors
<1>5. CASE Code(t)
  BY <1>2, <1>5 DEF Code, Errors
<1>6. CASE Write(t)
  <2>0. caller.pc = "wait" /\ threads[t].pc = "write" /\ UNCHANGED <<caller, input>>
    BY <1>6, InCall DEF Write, Quiet
  <2>1. CASE written' = Append(written, outBufs[threads[t].buf]) /\ NoFault
    <3>1. /\ outBufs[threads[t].buf] \in 1 .. input + 1
          /\ troubles = {} => outBufs[threads[t].buf] = Len(written) + 1
      BY <2>0, NextToWrite
    <3>2. CASE troubles = {}
      <4>1. Len(written) < input + 1 /\ written' = Append(written, Len(written) + 1)
        BY <2>1, <3>1, <3>2, Numbers
      <4>. QED
        BY <4>1, <2>0, <2>1 DEF Ordered!Next, Ordered!Put, NoFault
    <3>3. CASE troubles # {}
      BY <3>3, <3>1, <2>0, <2>1 DEF Ordered!Next, Ordered!Put, NoFault
    <3>. QED
      BY <3>2, <3>3
  <2>2. CASE Fault("write") /\ written' = written
    BY <2>0, <2>2, GoesWrong DEF Errors
  <2>. QED
    BY <1>6, <2>1, <2>2 DEF Write
<1>. QED
  BY <1>1, <1>3, <1>4, <1>5, <1>6 DEF ThreadStep

\* The caller begins and returns.
LEMMA CallerRefines ==
    ASSUME CoderInv, CallerStep
    PROVE  Ordered!Next \/ UNCHANGED Ordered!vars
<1>0. caller \in [pc : CallerPcs, codes : 0 .. MaxCodes, i : 0 .. NumThreads, res : Results]
  BY CallerTypes DEF CoderInv
<1>1. ASSUME NEW n \in 0 .. MaxInput, Encode(n)
      PROVE  Ordered!Next
  <2>1. /\ caller.pc = "idle" /\ caller'.pc = "props" /\ caller'.res = caller.res
        /\ input' = n /\ written' = <<>> /\ troubles' = {}
    BY <1>0, <1>1 DEF Encode
  <2>2. caller.res = "ok" /\ n + 1 \in Nat \ {0}
    BY <2>1, Sizes DEF CoderInv, CallInv
  <2>. QED
    BY <2>1, <2>2 DEF Ordered!Next, Ordered!Begin
<1>2. ASSUME UNCHANGED <<input, written, troubles>>,
             caller.pc \in {"props", "init", "start", "free", "join"},
             \/ caller.pc \in {"props", "init", "start"} /\ caller'.pc \in {"init", "start", "wait"}
             \/ caller.pc \in {"free", "join"} /\ caller'.pc \in {"free", "join"},
             caller'.res = caller.res
      PROVE  UNCHANGED Ordered!vars
  BY <1>2 DEF Ordered!vars
<1>3. CASE WriteProps \/ InitCode \/ JoinThread
  <2>1. UNCHANGED <<input, written, troubles>>
    BY <1>3, Zenon DEF WriteProps, InitCode, JoinThread, history
  <2>. QED
    BY <1>0, <1>2, <1>3, <2>1 DEF WriteProps, InitCode, JoinThread
<1>4. CASE StartFirst
  <2>1. caller.pc = "start" /\ UNCHANGED <<input, written>>
    BY <1>4 DEF StartFirst
  <2>2. CASE caller' = [caller EXCEPT !.pc = "wait"] /\ NoFault
    BY <1>0, <1>2, <2>1, <2>2 DEF NoFault
  <2>3. CASE Fault("thread") /\ caller' = [caller EXCEPT !.pc = "failed", !.res = "thread"]
    <3>1. /\ caller'.pc = "failed" /\ caller'.res = "thread" /\ "thread" \in Errors
          /\ troubles' = troubles \union {"thread"}
      BY <1>0, <2>3 DEF Fault, Errors
    <3>. QED
      BY <2>1, <3>1 DEF Ordered!Next, Ordered!Return
  <2>. QED
    BY <1>4, <2>2, <2>3 DEF StartFirst
<1>5. CASE WaitFinished
  <2>1. /\ caller.pc = "wait" /\ finishedEvent /\ UNCHANGED <<input, written, troubles>>
        /\ caller'.res = CodeResult
        /\ caller'.pc = IF CodeResult = "ok" THEN "idle" ELSE "free"
    BY <1>0, <1>5 DEF WaitFinished, history
  <2>2. CASE CodeResult = "ok"
    <3>1. progressRes = "ok"
      BY <2>2 DEF CodeResult
    <3>2. troubles = {}
      BY <2>1, <3>1 DEF CoderInv, TroubleInv, Running
    <3>3. Len(written) = input + 1
      BY <2>1, <3>2, AllWritten
    <3>. QED
      BY <2>1, <2>2, <3>2, <3>3 DEF Ordered!Next, Ordered!Return
  <2>3. CASE CodeResult # "ok"
    <3>1. caller.res = "ok"
      BY <2>1 DEF CoderInv, CallInv
    <3>. QED
      BY <2>1, <2>3, <3>1 DEF Ordered!vars
  <2>. QED
    BY <2>2, <2>3
<1>6. CASE StopThread
  <2>1. /\ caller.pc = "free" /\ UNCHANGED <<input, written, troubles>>
        /\ caller'.pc \in {"free", "join", "failed"} /\ caller'.res = caller.res
    BY <1>0, <1>6 DEF StopThread, history
  <2>2. CASE caller'.pc = "failed"
    <3>1. caller.res \in Errors /\ troubles' = troubles \union {caller.res}
      BY <2>1 DEF CoderInv, CallInv, TypeOK
    <3>. QED
      BY <2>1, <2>2, <3>1 DEF Ordered!Next, Ordered!Return
  <2>. QED
    BY <1>2, <2>1, <2>2
<1>. QED
  BY <1>1, <1>3, <1>4, <1>5, <1>6 DEF CallerStep

\* Many threads code as one: the blocks are written once each and in the order
\* of the input, the call succeeds only when all of them are and nothing failed,
\* and otherwise it reports an error that did happen (MtCoder.c, MtCoder_Code).
THEOREM ImplementsOrderedBlocks ==
    ASSUME ~Dawdles
    PROVE  Spec => CoderSpec
<1>1. Init => Ordered!Init
  BY DEF Init, Ordered!Init
<1>2. CoderInv /\ [Next]_vars => [Ordered!Next]_(Ordered!vars)
  <2>1. CASE UNCHANGED vars
    <3>1. UNCHANGED <<caller, input, written, troubles>>
      BY <2>1, Zenon DEF vars, history
    <3>. QED
      BY <3>1, Stutters
  <2>. QED
    BY <2>1, ThreadRefines, CallerRefines DEF Next
<1>. QED
  BY <1>1, <1>2, CoderInvariant, PTL DEF Spec, CoderSpec, Ordered!Spec
=============================================================================
