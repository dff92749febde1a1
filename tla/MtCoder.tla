-------------------------------- MODULE MtCoder --------------------------------
(***************************************************************************)
(* CMtCoder: the block threads of the LZMA2 encoder (LZMANumBlockThreads). *)
(*                                                                         *)
(* MtCoder_Code starts one thread; each thread that has read a block       *)
(* starts the next one, up to the limit. A thread holds readEvent while it *)
(* reads and until it has a block of the ring, then codes into a buffer of *)
(* its own. The thread whose block is the next to be written writes it and *)
(* every block behind it that is ready; the others leave theirs marked     *)
(* ready and go on reading. The last thread to finish tells the caller.    *)
(*                                                                         *)
(* The same CMtCoder serves stream after stream: its threads wait for      *)
(* startEvent in between. Its Read and Write callbacks are those of the    *)
(* worker in module LZMACompressor, which allows one thread inside each.   *)
(*                                                                         *)
(* A step ends where another thread may look: at a wait, at the end of a   *)
(* critical section, before and after a callback. System calls on events   *)
(* and semaphores do not fail here; creating a thread may.                 *)
(***************************************************************************)
EXTENDS Integers, Sequences, FiniteSets

CONSTANTS
  NumThreads,   \* numThreadsMax
  NumBlocks,    \* numBlocksMax, the ring of blocks
  NumBuffers,   \* MTCODER_BLOCKS_MAX, the output buffers
  Dawdles,      \* may a thread that has finished be held up past the return?
  MaxInput,     \* bound: full blocks of a stream
  MaxCodes,     \* bound: calls of LZMA_Encode
  MaxFaults     \* bound: errors of callbacks, allocations and thread creation

ASSUME SizesAssumption ==
  /\ NumThreads \in Nat \ {0}
  /\ NumBlocks \in Nat \ {0}
  /\ NumBuffers \in Nat /\ NumBuffers >= NumBlocks
  /\ MaxInput \in Nat /\ MaxCodes \in Nat /\ MaxFaults \in Nat
ASSUME DawdlesAssumption == Dawdles \in BOOLEAN

Threads == 0 .. NumThreads - 1
Blocks  == 0 .. NumBlocks - 1
Buffers == 0 .. NumBuffers - 1
Nowhere == -1                        \* (unsigned)(int)-1

VARIABLES
  caller,         \* pc, codes (calls made), i (thread being destructed), res
  threads,        \* CMtCoderThread with the locals of ThreadFunc2
  startEvent,     \* threads whose startEvent is set
  readEvent, finishedEvent,
  blocksSemaphore,
  stopReading, readProcessed, blockIndex, numStartedThreads, \* under readEvent
  writeIndex, ReadyBlocks, freeBlocks,                      \* under cs
  numFinishedThreads,
  blocks,         \* CMtCoderBlock of the ring: res, buf, finished
  readRes, writeRes, progressRes,
  outBufs,        \* the block each output buffer holds, coded
  input,          \* full blocks of the stream; a short one always follows
  written,        \* history: the blocks the output stream got
  troubles,       \* history: the errors of this call
  faults          \* history: errors so far, for MaxFaults

events  == <<startEvent, readEvent, finishedEvent, blocksSemaphore>>
reading == <<stopReading, readProcessed, blockIndex, numStartedThreads>>
ring    == <<writeIndex, ReadyBlocks, freeBlocks, blocks>>
results == <<readRes, writeRes, progressRes>>
history == <<input, written, troubles, faults>>
vars == <<caller, threads, events, reading, ring, numFinishedThreads, results, outBufs,
          history>>

Errors == {"read", "mem", "thread", "code", "write"}

NewThread == [pc |-> "none", stop |-> FALSE, blk |-> 0, bi |-> 0, buf |-> Nowhere,
              res |-> "ok", finished |-> FALSE, wi |-> 0, n |-> 0]
NewBlock  == [res |-> "ok", buf |-> Nowhere, finished |-> FALSE]
FreeList  == [k \in 1 .. NumBuffers |-> k - 1]

TypeOK ==
  /\ caller \in [pc : {"idle", "props", "init", "start", "wait", "free", "join", "failed"},
                 codes : 0 .. MaxCodes, i : 0 .. NumThreads, res : {"ok"} \union Errors]
  /\ threads \in [Threads ->
        [pc : {"none", "parked", "read", "reading", "take", "buffer", "code", "publish",
               "write", "release", "next", "last", "done", "count", "exited"},
         stop : BOOLEAN, blk : 0 .. MaxInput + 1, bi : Blocks,
         buf : Buffers \union {Nowhere}, res : {"ok"} \union Errors,
         finished : BOOLEAN, wi : Blocks, n : 0 .. NumThreads]]
  /\ startEvent \subseteq Threads
  /\ readEvent \in BOOLEAN /\ finishedEvent \in BOOLEAN
  /\ blocksSemaphore \in 0 .. NumBlocks
  /\ stopReading \in BOOLEAN
  /\ readProcessed \in 0 .. MaxInput + 1
  /\ blockIndex \in Blocks
  /\ numStartedThreads \in 0 .. NumThreads
  /\ writeIndex \in Blocks \union {Nowhere}
  /\ ReadyBlocks \in [Blocks -> BOOLEAN]
  /\ freeBlocks \in Seq(Buffers)
  /\ numFinishedThreads \in 0 .. NumThreads
  /\ blocks \in [Blocks -> [res : {"ok"} \union Errors,
                            buf : Buffers \union {Nowhere}, finished : BOOLEAN]]
  /\ readRes \in {"ok"} \union Errors
  /\ writeRes \in {"ok"} \union Errors
  /\ progressRes \in {"ok"} \union Errors
  /\ outBufs \in [Buffers -> 0 .. MaxInput + 1]
  /\ input \in 0 .. MaxInput
  /\ written \in Seq(1 .. MaxInput + 1)
  /\ troubles \subseteq Errors
  /\ faults \in 0 .. MaxFaults

Init ==
  /\ caller = [pc |-> "idle", codes |-> 0, i |-> 0, res |-> "ok"]
  /\ threads = [t \in Threads |-> NewThread]
  /\ startEvent = {}
  /\ readEvent = FALSE /\ finishedEvent = FALSE
  /\ blocksSemaphore = NumBlocks
  /\ stopReading = FALSE /\ readProcessed = 0 /\ blockIndex = 0 /\ numStartedThreads = 0
  /\ writeIndex = 0
  /\ ReadyBlocks = [b \in Blocks |-> FALSE]
  /\ freeBlocks = FreeList
  /\ numFinishedThreads = 0
  /\ blocks = [b \in Blocks |-> NewBlock]
  /\ readRes = "ok" /\ writeRes = "ok" /\ progressRes = "ok"
  /\ outBufs = [f \in Buffers |-> 0]
  /\ input = 0 /\ written = <<>> /\ troubles = {} /\ faults = 0
--------------------------------------------------------------------------------
\* MtProgress_SetError: the first error stays.
FirstError(err) == IF progressRes = "ok" THEN err ELSE progressRes

\* The environment makes a call fail with this error.
Fault(err) ==
  /\ faults < MaxFaults
  /\ faults' = faults + 1
  /\ troubles' = troubles \union {err}

NoFault == UNCHANGED <<faults, troubles>>

\* MtCoderThread_CreateAndStart: a thread that exists is used again.
CreateAndStart(th, t) ==
  [th EXCEPT ![t].stop = FALSE,
             ![t].pc = IF @ = "none" THEN "parked" ELSE @]

Following(b) == (b + 1) % NumBlocks

\* The locals of ThreadFunc2 are gone.
Without(th, pc) == [NewThread EXCEPT !.pc = pc, !.stop = th.stop]

\* Is there something for the Write callback in this block?
ToWrite(res, buf) == IF res = "ok" /\ buf # Nowhere THEN "write" ELSE "release"
--------------------------------------------------------------------------------
(* The caller: LZMA_Encode, Lzma2Enc_Encode2 and MtCoder_Code.              *)

\* LZMA_Encode writes the properties itself before the blocks are coded.
Encode(n) ==
  /\ caller.pc = "idle" /\ caller.codes < MaxCodes
  /\ ~Dawdles => \A t \in Threads : threads[t].pc # "count"
  /\ caller' = [caller EXCEPT !.pc = "props", !.codes = @ + 1]
  /\ input' = n /\ written' = <<>> /\ troubles' = {}
  /\ UNCHANGED <<threads, events, reading, ring, numFinishedThreads, results, outBufs,
                 faults>>

WriteProps ==
  /\ caller.pc = "props"
  /\ caller' = [caller EXCEPT !.pc = "init"]
  /\ UNCHANGED <<threads, events, reading, ring, numFinishedThreads, results, outBufs,
                 history>>

InitCode ==
  /\ caller.pc = "init"
  /\ caller' = [caller EXCEPT !.pc = "start"]
  /\ finishedEvent' = FALSE /\ readEvent' = FALSE
  /\ blocksSemaphore' = NumBlocks
  /\ freeBlocks' = FreeList
  /\ readProcessed' = 0 /\ blockIndex' = 0 /\ stopReading' = FALSE /\ numStartedThreads' = 0
  /\ writeIndex' = 0 /\ ReadyBlocks' = [b \in Blocks |-> FALSE]
  /\ numFinishedThreads' = 0
  /\ readRes' = "ok" /\ writeRes' = "ok" /\ progressRes' = "ok"
  /\ UNCHANGED <<threads, startEvent, blocks, outBufs, history>>

StartFirst ==
  /\ caller.pc = "start"
  /\ numStartedThreads' = 1
  /\ \/ /\ threads' = CreateAndStart(threads, 0)
        /\ startEvent' = startEvent \union {0}
        /\ readEvent' = TRUE
        /\ caller' = [caller EXCEPT !.pc = "wait"]
        /\ NoFault
     \/ /\ threads[0].pc = "none" /\ Fault("thread")
        /\ caller' = [caller EXCEPT !.pc = "failed", !.res = "thread"]
        /\ UNCHANGED <<threads, startEvent, readEvent>>
  /\ UNCHANGED <<finishedEvent, blocksSemaphore, stopReading, readProcessed,
                 blockIndex, ring, numFinishedThreads, results, outBufs, input,
                 written>>

\* The first error of reading, coding and writing, in this order.
CodeResult ==
  CASE readRes # "ok" -> readRes
    [] readRes = "ok" /\ progressRes # "ok" -> progressRes
    [] OTHER -> writeRes

WaitFinished ==
  /\ caller.pc = "wait" /\ finishedEvent
  /\ finishedEvent' = FALSE
  /\ caller' = [caller EXCEPT !.res = CodeResult, !.i = 0,
                              !.pc = IF CodeResult = "ok" THEN "idle" ELSE "free"]
  /\ UNCHANGED <<threads, startEvent, readEvent, blocksSemaphore, reading, ring,
                 numFinishedThreads, results, outBufs, history>>

\* MtCoder_Free after an error: the threads are stopped one after the other.
StopThread ==
  /\ caller.pc = "free"
  /\ \/ /\ caller.i = NumThreads
        /\ caller' = [caller EXCEPT !.pc = "failed"]
        /\ UNCHANGED <<threads, startEvent>>
     \/ /\ caller.i < NumThreads /\ threads[caller.i].pc = "none"
        /\ caller' = [caller EXCEPT !.i = @ + 1]
        /\ UNCHANGED <<threads, startEvent>>
     \/ /\ caller.i < NumThreads /\ threads[caller.i].pc # "none"
        /\ threads' = [threads EXCEPT ![caller.i].stop = TRUE]
        /\ startEvent' = startEvent \union {caller.i}
        /\ caller' = [caller EXCEPT !.pc = "join"]
  /\ UNCHANGED <<readEvent, finishedEvent, blocksSemaphore, reading, ring,
                 numFinishedThreads, results, outBufs, history>>

JoinThread ==
  /\ caller.pc = "join" /\ threads[caller.i].pc = "exited"
  /\ caller' = [caller EXCEPT !.pc = "free", !.i = @ + 1]
  /\ UNCHANGED <<threads, events, reading, ring, numFinishedThreads, results, outBufs,
                 history>>
--------------------------------------------------------------------------------
(* A block thread: ThreadFunc, and ThreadFunc2 from "read" to "done".       *)

\* ThreadFunc: Event_Wait(startEvent).
Wake(t) ==
  /\ threads[t].pc = "parked" /\ t \in startEvent
  /\ startEvent' = startEvent \ {t}
  /\ threads' = [threads EXCEPT ![t].pc = IF threads[t].stop THEN "exited" ELSE "read"]
  /\ UNCHANGED <<caller, readEvent, finishedEvent, blocksSemaphore, reading, ring,
                 numFinishedThreads, results, outBufs, history>>

\* Mutant: the event stays set while a thread reads.
EnterReadTogether(t) ==
  /\ threads[t].pc = "read" /\ readEvent
  /\ readEvent' = TRUE
  /\ threads' = [threads EXCEPT
        ![t].pc = IF stopReading THEN "done"
                  ELSE IF progressRes = "ok" THEN "reading" ELSE "take",
        ![t].res = IF stopReading THEN "ok" ELSE progressRes,
        ![t].finished = ~stopReading]
  /\ UNCHANGED <<caller, startEvent, finishedEvent, blocksSemaphore, reading, ring,
                 numFinishedThreads, results, outBufs, history>>

\* Event_Wait(readEvent): the lock is given back at once when reading is over.
EnterRead(t) ==
  /\ threads[t].pc = "read" /\ readEvent
  /\ readEvent' = stopReading
  /\ threads' = [threads EXCEPT
        ![t].pc = IF stopReading THEN "done"
                  ELSE IF progressRes = "ok" THEN "reading" ELSE "take",
        ![t].res = IF stopReading THEN "ok" ELSE progressRes,
        ![t].finished = ~stopReading]
  /\ UNCHANGED <<caller, startEvent, finishedEvent, blocksSemaphore, reading, ring,
                 numFinishedThreads, results, outBufs, history>>

\* SeqInStream_ReadMax into the thread's buffer, which is allocated the first
\* time: less than a whole block is the end of the input.
Read(t) ==
  /\ threads[t].pc = "reading"
  /\ \/ /\ readProcessed' = readProcessed + 1
        /\ threads' = [threads EXCEPT ![t].pc = "take", ![t].blk = readProcessed',
                                      ![t].finished = readProcessed' > input]
        /\ NoFault
        /\ UNCHANGED results
     \/ \E err \in {"read", "mem"} :
        /\ Fault(err)
        /\ readRes' = err
        /\ progressRes' = FirstError(err)
        /\ threads' = [threads EXCEPT ![t].pc = "take", ![t].res = err]
        /\ UNCHANGED <<readProcessed, writeRes>>
  /\ UNCHANGED <<caller, events, stopReading, blockIndex, numStartedThreads, ring,
                 numFinishedThreads, outBufs, input, written>>

\* Waits for a block of the ring with the read lock held, starts the next
\* thread if there is more to read, and gives the lock back.
TakeBlock(t) ==
  LET th  == threads[t]
      res == IF th.res = "ok" THEN progressRes ELSE th.res
      end == th.finished \/ res # "ok"
      new == numStartedThreads
      On(r, e) == [threads EXCEPT ![t].bi = blockIndex, ![t].res = r, ![t].finished = e,
                                  ![t].buf = Nowhere,
                                  ![t].pc = IF r = "ok" THEN "buffer" ELSE "publish"]
  IN
  /\ th.pc = "take" /\ blocksSemaphore > 0
  /\ blocksSemaphore' = blocksSemaphore - 1
  /\ blockIndex' = Following(blockIndex)
  /\ readEvent' = TRUE
  /\ \/ /\ end \/ new = NumThreads
        /\ threads' = On(res, end)
        /\ stopReading' = (stopReading \/ end)
        /\ NoFault
        /\ UNCHANGED <<startEvent, numStartedThreads, progressRes>>
     \/ /\ ~end /\ new < NumThreads
        /\ threads' = CreateAndStart(On(res, FALSE), new)
        /\ startEvent' = startEvent \union {new}
        /\ numStartedThreads' = new + 1
        /\ NoFault
        /\ UNCHANGED <<stopReading, progressRes>>
     \/ /\ ~end /\ new < NumThreads /\ threads[new].pc = "none"
        /\ Fault("thread")
        /\ progressRes' = FirstError("thread")
        /\ threads' = On("thread", TRUE)
        /\ stopReading' = TRUE
        /\ UNCHANGED <<startEvent, numStartedThreads>>
  /\ UNCHANGED <<caller, finishedEvent, readProcessed, ring, numFinishedThreads,
                 readRes, writeRes, outBufs, input, written>>

\* Mutant: the buffer stays in the list of free ones.
LookAtBuffer(t) ==
  /\ threads[t].pc = "buffer"
  /\ threads' = [threads EXCEPT ![t].pc = "code", ![t].buf = Head(freeBlocks)]
  /\ UNCHANGED <<caller, events, reading, ring, numFinishedThreads, results, outBufs,
                 history>>

\* Under cs: the first buffer of the list of free ones.
TakeBuffer(t) ==
  /\ threads[t].pc = "buffer"
  /\ threads' = [threads EXCEPT ![t].pc = "code", ![t].buf = Head(freeBlocks)]
  /\ freeBlocks' = Tail(freeBlocks)
  /\ UNCHANGED <<caller, events, reading, writeIndex, ReadyBlocks, blocks,
                 numFinishedThreads, results, outBufs, history>>

\* The Code callback, Lzma2Enc_MtCallback_Code: it fails when it finds no
\* memory or the progress callback breaks.
Code(t) ==
  /\ threads[t].pc = "code"
  /\ \/ /\ outBufs' = [outBufs EXCEPT ![threads[t].buf] = threads[t].blk]
        /\ threads' = [threads EXCEPT ![t].pc = "publish"]
        /\ NoFault
        /\ UNCHANGED progressRes
     \/ /\ Fault("code")
        /\ progressRes' = FirstError("code")
        /\ outBufs' = [outBufs EXCEPT ![threads[t].buf] = 0]
        /\ threads' = [threads EXCEPT ![t].pc = "publish", ![t].res = "code"]
  /\ UNCHANGED <<caller, events, reading, ring, numFinishedThreads, readRes, writeRes,
                 input, written>>

\* Fills in the block of the ring; becomes the writer if it is the next one.
Publish(t) ==
  LET th     == threads[t]
      writer == writeIndex = th.bi
      res    == IF writer /\ writeRes # "ok" THEN writeRes ELSE th.res
  IN
  /\ th.pc = "publish"
  /\ blocks' = [blocks EXCEPT ![th.bi] = [res |-> th.res, buf |-> th.buf,
                                          finished |-> th.finished]]
  /\ writeIndex' = IF writer THEN Nowhere ELSE writeIndex
  /\ ReadyBlocks' = IF writer THEN ReadyBlocks ELSE [ReadyBlocks EXCEPT ![th.bi] = TRUE]
  /\ threads' = [threads EXCEPT ![t] =
        IF writer
        THEN [th EXCEPT !.res = res, !.wi = th.bi, !.pc = ToWrite(res, th.buf)]
        ELSE Without(th, IF th.res # "ok" \/ th.finished THEN "done" ELSE "read")]
  /\ UNCHANGED <<caller, events, reading, freeBlocks, numFinishedThreads, results,
                 outBufs, history>>

\* The Write callback, Lzma2Enc_MtCallback_Write.
Write(t) ==
  /\ threads[t].pc = "write"
  /\ \/ /\ written' = Append(written, outBufs[threads[t].buf])
        /\ threads' = [threads EXCEPT ![t].pc = "release"]
        /\ NoFault
        /\ UNCHANGED results
     \/ /\ Fault("write")
        /\ writeRes' = "write"
        /\ progressRes' = FirstError("write")
        /\ threads' = [threads EXCEPT ![t].pc = "release", ![t].res = "write"]
        /\ UNCHANGED <<readRes, written>>
  /\ UNCHANGED <<caller, events, reading, ring, numFinishedThreads, outBufs, input>>

\* Under cs: gives the buffer back and looks at the following block.
Release(t) ==
  LET th == threads[t]
      wi == Following(th.wi)
  IN
  /\ th.pc = "release"
  /\ freeBlocks' = IF th.buf = Nowhere THEN freeBlocks ELSE <<th.buf>> \o freeBlocks
  /\ ReadyBlocks' = [ReadyBlocks EXCEPT ![wi] = FALSE]
  /\ writeIndex' = IF ReadyBlocks[wi] THEN writeIndex ELSE wi
  /\ threads' = [threads EXCEPT ![t].wi = wi,
                                ![t].pc = IF ReadyBlocks[wi] THEN "next" ELSE "last"]
  /\ UNCHANGED <<caller, events, reading, blocks, numFinishedThreads, results,
                 outBufs, history>>

\* Mutant: the last of a series of blocks is not given back.
SignalNext(t) ==
  LET th  == threads[t]
      blk == blocks[th.wi]
      res == IF th.res = "ok" THEN blk.res ELSE th.res
  IN
  /\ th.pc \in {"next", "last"}
  /\ blocksSemaphore' = blocksSemaphore + (IF th.pc = "next" THEN 1 ELSE 0)
  /\ threads' = [threads EXCEPT ![t] =
        IF th.pc = "next"
        THEN [th EXCEPT !.res = res, !.buf = blk.buf, !.finished = blk.finished,
                        !.pc = ToWrite(res, blk.buf)]
        ELSE Without(th, IF th.finished \/ th.res # "ok" THEN "done" ELSE "read")]
  /\ UNCHANGED <<caller, startEvent, readEvent, finishedEvent, reading, ring,
                 numFinishedThreads, results, outBufs, history>>

\* Semaphore_Release1, then the following block if it was ready.
Signal(t) ==
  LET th  == threads[t]
      blk == blocks[th.wi]
      res == IF th.res = "ok" THEN blk.res ELSE th.res
  IN
  /\ th.pc \in {"next", "last"}
  /\ blocksSemaphore' = blocksSemaphore + 1
  /\ threads' = [threads EXCEPT ![t] =
        IF th.pc = "next"
        THEN [th EXCEPT !.res = res, !.buf = blk.buf, !.finished = blk.finished,
                        !.pc = ToWrite(res, blk.buf)]
        ELSE Without(th, IF th.finished \/ th.res # "ok" THEN "done" ELSE "read")]
  /\ UNCHANGED <<caller, startEvent, readEvent, finishedEvent, reading, ring,
                 numFinishedThreads, results, outBufs, history>>

\* ThreadFunc again: InterlockedIncrement ...
Finish(t) ==
  /\ threads[t].pc = "done"
  /\ numFinishedThreads' = numFinishedThreads + 1
  /\ threads' = [threads EXCEPT ![t].pc = "count", ![t].n = numFinishedThreads']
  /\ UNCHANGED <<caller, events, reading, ring, results, outBufs, history>>

\* Mutant: the first thread that ends tells.
SomeFinished(t) == threads[t].n >= 1

\* ... and then a look at numStartedThreads, with no lock: the last one tells.
AllFinished(t) == threads[t].n = numStartedThreads

Count(t) ==
  /\ threads[t].pc = "count"
  /\ finishedEvent' = (finishedEvent \/ AllFinished(t))
  /\ threads' = [threads EXCEPT ![t] = Without(@, "parked")]
  /\ UNCHANGED <<caller, startEvent, readEvent, blocksSemaphore, reading, ring,
                 numFinishedThreads, results, outBufs, history>>
--------------------------------------------------------------------------------
CallerStep == \/ \E n \in 0 .. MaxInput : Encode(n)
              \/ WriteProps \/ InitCode \/ StartFirst
              \/ WaitFinished \/ StopThread \/ JoinThread

ThreadStep(t) == \/ Wake(t) \/ EnterRead(t) \/ Read(t) \/ TakeBlock(t) \/ TakeBuffer(t)
                 \/ Code(t) \/ Publish(t) \/ Write(t) \/ Release(t) \/ Signal(t)
                 \/ Finish(t) \/ Count(t)

Next == CallerStep \/ \E t \in Threads : ThreadStep(t)

Spec == Init /\ [][Next]_vars

\* Every thread is scheduled; callbacks return.
FairSpec == Spec /\ WF_vars(CallerStep) /\ \A t \in Threads : WF_vars(ThreadStep(t))
--------------------------------------------------------------------------------
\* The sanity checks of the callbacks hold: one thread at most is inside Read
\* and one inside Write (TLZMAWorkerThread.Read and Write, and those of the
\* worker process), over all calls of LZMA_Encode, which writes the properties.
OneThreadInside ==
  /\ Cardinality({t \in Threads : threads[t].pc = "reading"}) <= 1
  /\ Cardinality({t \in Threads : threads[t].pc = "write"})
       + (IF caller.pc = "props" THEN 1 ELSE 0) <= 1

\* The buffers in use: of threads, and of blocks that wait to be written.
Holders == {t \in Threads : /\ threads[t].buf # Nowhere
                            /\ threads[t].pc \in {"code", "publish", "write", "release"}}
Waiting == {b \in Blocks : /\ ReadyBlocks[b] \/ \E t \in Threads : threads[t].pc = "next"
                                                               /\ threads[t].wi = b
                           /\ blocks[b].buf # Nowhere}

\* An output buffer belongs to one block until it is written: nobody codes into
\* a buffer that another block waits in, and there is always a free one for a
\* thread that has got a block of the ring.
BuffersApart ==
  /\ \A t, u \in Holders : t # u => threads[t].buf # threads[u].buf
  /\ \A b, c \in Waiting : b # c => blocks[b].buf # blocks[c].buf
  /\ \A t \in Holders, b \in Waiting : threads[t].buf # blocks[b].buf
  /\ \A k \in DOMAIN freeBlocks :
        /\ \A t \in Holders : threads[t].buf # freeBlocks[k]
        /\ \A b \in Waiting : blocks[b].buf # freeBlocks[k]
  /\ \A t \in Threads : threads[t].pc = "buffer" => freeBlocks # <<>>

\* Many threads code as one: the blocks are written once each, in the order of
\* the input; the call succeeds only when all of them are and nothing failed,
\* and otherwise reports an error that did happen (module OrderedBlocks).
Ordered == INSTANCE OrderedBlocks WITH
  Troubles <- Errors,
  busy     <- caller.pc \notin {"idle", "failed"},
  total    <- input + 1,
  out      <- written,
  result   <- IF caller.pc \in {"free", "join"} THEN "ok" ELSE caller.res

CoderSpec == Ordered!Spec

\* A call returns: no thread waits for a block, a buffer or the read lock for
\* ever, whatever fails, and the last one tells the caller.
CodeReturns == caller.pc = "props" ~> caller.pc \in {"idle", "failed"}
================================================================================
