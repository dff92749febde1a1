----------------------------- MODULE LZMACompressor -----------------------------
(***************************************************************************)
(* TLZMACompressor (Compression.LZMACompressor.pas) and its worker: a      *)
(* thread of the compiler (TLZMAWorkerThread), or the islzma_exe.c process *)
(* (TLZMAWorkerProcess).  The main thread feeds one ring buffer and drains *)
(* another; the encoder reads and writes them through the FillBuffer       *)
(* callbacks, possibly from two threads at once.  The two sides share      *)
(* memory and seven Win32 events, and no lock.                             *)
(*                                                                         *)
(* A ring buffer operation is two steps: it loads Count and moves the data *)
(* (which only it may touch), then publishes the new Count.  SetEvent,     *)
(* ResetEvent and every wait is a step of its own.                         *)
(***************************************************************************)
EXTENDS Integers, Sequences

CONSTANTS
  BufSize,           \* SizeOf(TLZMACompressorRingBuffer.Buf)
  OptimalFlushSize,  \* of FlushOutputBuffer
  WakeGranule,       \* units of input between two wake-ups (64 KB)
  EndMark,           \* what the encoder writes after the last unit
  CallSizes,         \* Count of a Compress call
  ReadSizes,         \* Size of a Read by the encoder
  MaxInput,          \* bound: units in one stream
  MaxStreams,        \* bound: streams compressed by one compressor
  MaxFaults          \* bound: exceptions, encoder errors and killed processes

ASSUME BufferAssumption == /\ BufSize \in Nat \ {0}
                           /\ WakeGranule \in Nat \ {0}
                           \* "can't exceed size of OutputBuffer.Buf"
                           /\ OptimalFlushSize \in 1..BufSize
ASSUME InputAssumption == /\ CallSizes \subseteq Nat \ {0}
                          /\ ReadSizes \subseteq Nat \ {0}
                          /\ EndMark \notin Nat

VARIABLES
  \* shared memory (TLZMACompressorSharedData) and events
  inRing, outRing,
  noMoreInput,
  encodeResult,
  ev,         \* which events are signaled
  timer,      \* FProgressTimer is signaled
  \* the main thread
  m,          \* its program counter, locals and private fields
  \* the worker
  mt,         \* LZMA_Encode reads and writes from threads of its own
  wpc,        \* WorkerThreadProc
  rd, wr,     \* the encoder's call of Read and of Write
  enc,        \* inside LZMA_Encode
  \* history and bounds
  supplied,   \* units put into InputBuffer in this stream (FLastInputWriteCount)
  accepted,   \* units given to Compress in this stream
  written,    \* what WriteProc received of this stream
  streams, faults

shared == <<inRing, outRing, noMoreInput, encodeResult>>
worker == <<mt, wpc, rd, wr, enc>>
history == <<supplied, accepted, written, streams, faults>>
vars == <<shared, ev, timer, m, worker, history>>

Events == {"TerminateWorker", "StartEncode", "EndWaitOnInput", "EndWaitOnOutput",
           "WorkerWaitingOnInput", "WorkerWaitingOnOutput", "WorkerEncodeFinished"}
WorkerWaitingOn == [Input |-> "WorkerWaitingOnInput", Output |-> "WorkerWaitingOnOutput"]
EndWaitOn == [Input |-> "EndWaitOnInput", Output |-> "EndWaitOnOutput"]

Units == 1..MaxInput \cup {EndMark}
Least(a, b) == IF a <= b THEN a ELSE b

-----------------------------------------------------------------------------
(***************************************************************************)
(* Ring buffers.                                                           *)
(***************************************************************************)

RingBufferReset(ring) == [ring EXCEPT !.count = 0, !.w = 0, !.r = 0]

Advance(offset, n) == IF offset + n = BufSize THEN 0 ELSE offset + n

\* Mutant: a write is not cut at the end of the buffer.
WriteBytesPastTheEnd(ring, size) == Least(BufSize - ring.count, size)

\* Bytes that one turn of the loop moves, out of size wanted.
WriteBytes(ring, size) ==
  Least(Least(BufSize - ring.count, size), BufSize - ring.w)
ReadBytes(ring, size) == Least(Least(ring.count, size), BufSize - ring.r)

MoveIn(ring, data, n) ==
  [ring EXCEPT !.buf = [i \in DOMAIN ring.buf |->
     IF i \in ring.w..(ring.w + n - 1) THEN data[i - ring.w + 1] ELSE ring.buf[i]]]
MoveOut(ring, n) == [i \in 1..n |-> ring.buf[ring.r + i - 1]]

AddCount(ring, n) == [ring EXCEPT !.count = @ + n, !.w = Advance(@, n)]
SubCount(ring, n) == [ring EXCEPT !.count = @ - n, !.r = Advance(@, n)]

-----------------------------------------------------------------------------
(***************************************************************************)
(* The main thread.  m.call is "Compress", "Finish", or one of the two     *)
(* flushes at the end of DoFinish, "Drain" and "DrainAll".                 *)
(***************************************************************************)

Goto(l) == m' = [m EXCEPT !.pc = l]

\* SatisfyWorkerWaitOnInput or ...OnOutput, and where to go on afterwards.
Satisfy(on, next) == m' = [m EXCEPT !.pc = "satisfy", !.on = on, !.next = next]

Fault == faults < MaxFaults /\ faults' = faults + 1
         /\ UNCHANGED <<supplied, accepted, written, streams>>

\* An exception leaves Compress or Finish: FEntered stays set, so that the
\* owner of the compressor can only free it.
Raise == Goto("raised")

StartEncode(call, count) ==
  /\ m.pc = "idle"
  /\ IF m.started
     THEN /\ m' = [m EXCEPT !.pc = "enter", !.call = call, !.left = count]
          /\ UNCHANGED <<shared, ev, timer, supplied>>
     ELSE /\ m' = [m EXCEPT !.pc = "enter", !.call = call, !.left = count,
                            !.started = TRUE, !.finished = FALSE, !.tick = FALSE]
          /\ noMoreInput' = FALSE
          /\ encodeResult' = "none"
          /\ inRing' = RingBufferReset(inRing)
          /\ outRing' = RingBufferReset(outRing)
          /\ supplied' = 0
          /\ ev' = [ev EXCEPT !.WorkerEncodeFinished = FALSE, !.StartEncode = TRUE]
          /\ timer' = FALSE

Compress ==
  /\ streams < MaxStreams
  /\ \E count \in CallSizes :
       /\ accepted + count <= MaxInput
       /\ StartEncode("Compress", count)
       /\ accepted' = accepted + count
  /\ UNCHANGED <<worker, written, streams, faults>>

Finish ==
  /\ streams < MaxStreams
  /\ StartEncode("Finish", 0)
  /\ UNCHANGED <<worker, accepted, written, streams, faults>>

\* DoFinish sets NoMoreInput once everything supplied is visible.
SetNoMoreInput ==
  /\ m.pc = "enter" /\ m.call = "Finish"
  /\ noMoreInput' = TRUE
  /\ Goto("top")
  /\ UNCHANGED <<inRing, outRing, encodeResult, ev, timer, worker, history>>

EnterCompress ==
  /\ m.pc = "enter" /\ m.call = "Compress"
  /\ Goto("top")
  /\ UNCHANGED <<shared, ev, timer, worker, history>>

CompressLoop ==
  /\ m.pc = "top" /\ m.call = "Compress"
  /\ IF m.left = 0 THEN m' = [m EXCEPT !.pc = "idle", !.call = "none"]
     ELSE IF m.finished THEN Raise
     ELSE Goto("progress")
  /\ UNCHANGED <<shared, ev, timer, worker, history>>

FinishLoop ==
  /\ m.pc = "top" /\ m.call = "Finish"
  /\ IF m.finished THEN m' = [m EXCEPT !.pc = "flush", !.call = "Drain"]
                   ELSE Satisfy("Input", "progress")
  /\ UNCHANGED <<shared, ev, timer, worker, history>>

\* Mutant: the worker is released before its own event is reset.
SetBeforeReset ==
  \/ /\ m.pc = "satisfy"
     /\ IF ev[WorkerWaitingOn[m.on]]
        THEN ev' = [ev EXCEPT ![EndWaitOn[m.on]] = TRUE] /\ Goto("wake")
        ELSE Goto(m.next) /\ UNCHANGED ev
     /\ UNCHANGED <<shared, timer, worker, history>>
  \/ /\ m.pc = "wake"
     /\ ev' = [ev EXCEPT ![WorkerWaitingOn[m.on]] = FALSE]
     /\ Goto(m.next)
     /\ UNCHANGED <<shared, timer, worker, history>>

SatisfyWorkerWait ==
  \/ /\ m.pc = "satisfy"
     /\ IF ev[WorkerWaitingOn[m.on]]
        THEN ev' = [ev EXCEPT ![WorkerWaitingOn[m.on]] = FALSE] /\ Goto("wake")
        ELSE Goto(m.next) /\ UNCHANGED ev
     /\ UNCHANGED <<shared, timer, worker, history>>
  \/ /\ m.pc = "wake"
     /\ ev' = [ev EXCEPT ![EndWaitOn[m.on]] = TRUE]
     /\ Goto(m.next)
     /\ UNCHANGED <<shared, timer, worker, history>>

\* ProgressProc is called when the timer fired; it may raise (the user aborts).
UpdateProgress ==
  /\ m.pc = "progress"
  /\ timer' = FALSE
  /\ \/ m' = [m EXCEPT !.pc = "flush", !.tick = FALSE] /\ UNCHANGED history
     \/ (timer \/ m.tick) /\ Fault /\ Raise
  /\ UNCHANGED <<shared, ev, worker>>

\* Mutant: without the last SatisfyWorkerWaitOnOutput of FlushOutputBuffer.
FlushOnlyWhatIsThere ==
  /\ m.pc = "flush"
  /\ IF outRing.count = 0 \/ (m.call # "DrainAll" /\ outRing.count < OptimalFlushSize)
     THEN Goto("flushed")
     ELSE m' = [m EXCEPT !.pc = "call", !.size = Least(outRing.count, OptimalFlushSize)]
  /\ UNCHANGED <<shared, ev, timer, worker, history>>

\* FlushOutputBuffer decides how much to flush before its next WriteProc call.
FlushOutputBuffer ==
  /\ m.pc = "flush"
  /\ IF outRing.count = 0 \/ (m.call # "DrainAll" /\ outRing.count < OptimalFlushSize)
     THEN Satisfy("Output", "flushed")
     ELSE m' = [m EXCEPT !.pc = "call", !.size = Least(outRing.count, OptimalFlushSize)]
  /\ UNCHANGED <<shared, ev, timer, worker, history>>

\* One turn of RingBufferReadToCallback: WriteProc, which may raise (disk full)...
CallWriteProc ==
  /\ m.pc = "call"
  /\ \/ LET n == ReadBytes(outRing, m.size)
        IN /\ m' = [m EXCEPT !.pc = "sub", !.bytes = n]
           /\ written' = written \o MoveOut(outRing, n)
           /\ UNCHANGED <<supplied, accepted, streams, faults>>
     \/ Fault /\ Raise
  /\ UNCHANGED <<shared, ev, timer, worker>>

\* ...then the count; the data flushed, a waiting Write is released.
ReadToCallbackDone ==
  /\ m.pc = "sub"
  /\ outRing' = SubCount(outRing, m.bytes)
  /\ LET rest == m.size - m.bytes
     IN m' = IF rest > 0 THEN [m EXCEPT !.pc = "call", !.size = rest, !.bytes = 0]
             ELSE [m EXCEPT !.pc = "satisfy", !.on = "Output", !.next = "flush",
                            !.size = 0, !.bytes = 0]
  /\ UNCHANGED <<inRing, noMoreInput, encodeResult, ev, timer, worker, history>>

\* Mutant: DoFinish flushes only blocks of the optimal size.
FlushReturnsTooEarly ==
  /\ m.pc = "flushed"
  /\ CASE m.call = "Compress" -> Goto("write")
       [] m.call = "Finish"   -> Goto("wait")
       [] OTHER               -> Goto("check")
  /\ UNCHANGED <<shared, ev, timer, worker, history>>

FlushReturns ==
  /\ m.pc = "flushed"
  /\ CASE m.call = "Compress" -> Goto("write")
       [] m.call = "Finish"   -> Goto("wait")
       [] m.call = "Drain"    -> m' = [m EXCEPT !.pc = "flush", !.call = "DrainAll"]
       [] m.call = "DrainAll" -> Goto("check")
  /\ UNCHANGED <<shared, ev, timer, worker, history>>

\* RingBufferWrite on InputBuffer, and what DoCompress does when it returns.
\* The data supplied are the units that follow those already supplied.
WriteInput ==
  /\ m.pc = "write"
  /\ LET n == WriteBytes(inRing, m.left - m.wrote)
     IN IF n > 0
        THEN /\ inRing' = MoveIn(inRing, [i \in 1..n |-> supplied + i], n)
             /\ m' = [m EXCEPT !.pc = "add", !.bytes = n]
        ELSE /\ IF m.wrote = 0 THEN Satisfy("Input", "wait")
                ELSE LET before == supplied - m.wrote  \* FLastInputWriteCount
                         crossed == before \div WakeGranule # supplied \div WakeGranule
                     IN m' = [m EXCEPT !.pc = IF crossed THEN "satisfy" ELSE "top",
                                       !.on = "Input", !.next = "top",
                                       !.left = @ - m.wrote, !.wrote = 0]
             /\ UNCHANGED inRing
  /\ UNCHANGED <<outRing, noMoreInput, encodeResult, ev, timer, worker, history>>

PublishInput ==
  /\ m.pc = "add"
  /\ inRing' = AddCount(inRing, m.bytes)
  /\ supplied' = supplied + m.bytes
  /\ m' = [m EXCEPT !.pc = "write", !.wrote = @ + m.bytes, !.bytes = 0]
  /\ UNCHANGED <<outRing, noMoreInput, encodeResult, ev, timer, worker,
                 accepted, written, streams, faults>>

\* The wait returns the first signaled object in the order of the array: the
\* worker's exit, the end of encoding, the timer, the two waits of the worker.
WaitForWorkerEvent ==
  /\ m.pc = "wait"
  /\ \/ wpc = "exited" /\ Raise /\ UNCHANGED timer
     \/ /\ wpc # "exited" /\ ev["WorkerEncodeFinished"]
        /\ m' = [m EXCEPT !.pc = "top", !.finished = TRUE]
        /\ UNCHANGED timer
     \/ /\ wpc # "exited" /\ ~ev["WorkerEncodeFinished"] /\ timer
        /\ m' = [m EXCEPT !.pc = "top", !.tick = TRUE]
        /\ timer' = FALSE
     \/ /\ wpc # "exited" /\ ~ev["WorkerEncodeFinished"] /\ ~timer
        /\ ev["WorkerWaitingOnInput"] \/ ev["WorkerWaitingOnOutput"]
        /\ Goto("top")
        /\ UNCHANGED timer
  /\ UNCHANGED <<shared, ev, worker, history>>

\* DoFinish, after everything was flushed.
CheckResult ==
  /\ m.pc = "check"
  /\ IF encodeResult # "SZ_OK" \/ inRing.count # 0
     THEN Raise /\ UNCHANGED history
     ELSE /\ m' = [m EXCEPT !.pc = "idle", !.call = "none", !.started = FALSE]
          /\ accepted' = 0 /\ written' = <<>> /\ streams' = streams + 1
          /\ UNCHANGED <<supplied, faults>>
  /\ UNCHANGED <<shared, ev, timer, worker>>

\* FWorker.Free: ask the worker to end and wait until it has.
Free ==
  /\ m.pc \in {"idle", "raised"}
  /\ ev' = [ev EXCEPT !.TerminateWorker = TRUE]
  /\ m' = [m EXCEPT !.pc = "join", !.call = "none"]
  /\ UNCHANGED <<shared, timer, worker, history>>

Join ==
  /\ m.pc = "join" /\ wpc = "exited"
  /\ Goto("freed")
  /\ UNCHANGED <<shared, ev, timer, worker, history>>

MainThread ==
  \/ SetNoMoreInput \/ EnterCompress \/ CompressLoop \/ FinishLoop
  \/ SatisfyWorkerWait \/ UpdateProgress \/ FlushOutputBuffer \/ CallWriteProc
  \/ ReadToCallbackDone \/ FlushReturns \/ WriteInput \/ PublishInput
  \/ WaitForWorkerEvent \/ CheckResult \/ Join
  \/ (m.pc = "raised" /\ Free)

-----------------------------------------------------------------------------
(***************************************************************************)
(* The worker.                                                             *)
(***************************************************************************)

NoRead == [pc |-> "none", size |-> 0, data |-> <<>>, bytes |-> 0, some |-> FALSE]
NoWrite == [pc |-> "none", data |-> <<>>, bytes |-> 0, some |-> FALSE]
NewEncoder == [pending |-> <<>>, eof |-> FALSE, ended |-> FALSE, failed |-> FALSE]

\* Mutant: the process does not watch its parent.
MustEndWhenTold == ev["TerminateWorker"]

\* The waits of the process also end when its parent does.
MustEnd == ev["TerminateWorker"] \/ m.pc = "dead"

WorkerThreadProc ==
  \/ /\ wpc = "await" /\ MustEnd
     /\ wpc' = "exited"
     /\ UNCHANGED <<shared, ev, timer, m, mt, rd, wr, enc, history>>
  \/ /\ wpc = "await" /\ ~MustEnd /\ ev["StartEncode"]
     /\ ev' = [ev EXCEPT !.StartEncode = FALSE]
     /\ wpc' = "encode" /\ enc' = NewEncoder
     /\ UNCHANGED <<shared, timer, m, mt, rd, wr, history>>
  \/ /\ wpc = "encoded"
     /\ ev' = [ev EXCEPT !.WorkerEncodeFinished = TRUE]
     /\ wpc' = "await"
     /\ UNCHANGED <<shared, timer, m, mt, rd, wr, enc, history>>

\* FillBuffer(False): the end of input is tested before each look at the ring,
\* and NoMoreInput before the count ("ordering matters!").
ReadReturns(ok) ==
  /\ rd' = NoRead
  /\ enc' = IF ok THEN [enc EXCEPT !.pending = @ \o rd.data, !.eof = rd.data = <<>>]
                  ELSE [enc EXCEPT !.failed = TRUE]

\* Mutant: the count is read before NoMoreInput.
EndOfInputCountFirst ==
  \/ /\ rd.pc = "fill"
     /\ IF rd.size = 0 THEN ReadReturns(TRUE)
        ELSE rd' = [rd EXCEPT !.pc = IF inRing.count = 0 THEN "empty" ELSE "ring",
                              !.some = FALSE]
             /\ UNCHANGED enc
     /\ UNCHANGED <<shared, ev, timer, m, mt, wpc, wr, history>>
  \/ /\ rd.pc = "empty"
     /\ IF noMoreInput THEN ReadReturns(TRUE)
        ELSE rd' = [rd EXCEPT !.pc = "ring"] /\ UNCHANGED enc
     /\ UNCHANGED <<shared, ev, timer, m, mt, wpc, wr, history>>

EndOfInput ==
  \/ /\ rd.pc = "fill"
     /\ IF rd.size = 0 THEN ReadReturns(TRUE)
        ELSE rd' = [rd EXCEPT !.pc = IF noMoreInput THEN "empty" ELSE "ring", !.some = FALSE]
             /\ UNCHANGED enc
     /\ UNCHANGED <<shared, ev, timer, m, mt, wpc, wr, history>>
  \/ /\ rd.pc = "empty"
     /\ IF inRing.count = 0 THEN ReadReturns(TRUE)
        ELSE rd' = [rd EXCEPT !.pc = "ring"] /\ UNCHANGED enc
     /\ UNCHANGED <<shared, ev, timer, m, mt, wpc, wr, history>>

\* RingBufferRead on InputBuffer.
ReadRing ==
  /\ rd.pc = "ring"
  /\ LET n == ReadBytes(inRing, rd.size)
     IN rd' = IF n > 0 THEN [rd EXCEPT !.pc = "sub", !.bytes = n,
                                       !.data = @ \o MoveOut(inRing, n)]
              ELSE [rd EXCEPT !.pc = IF rd.some THEN "fill" ELSE "wake"]
  /\ UNCHANGED <<shared, ev, timer, m, mt, wpc, wr, enc, history>>

ReadDone ==
  /\ rd.pc = "sub"
  /\ inRing' = SubCount(inRing, rd.bytes)
  /\ LET rest == rd.size - rd.bytes
     IN rd' = [rd EXCEPT !.pc = IF rest = 0 THEN "fill" ELSE "ring", !.size = rest,
                         !.bytes = 0, !.some = TRUE]
  /\ UNCHANGED <<outRing, noMoreInput, encodeResult, ev, timer, m, mt, wpc, wr, enc, history>>

\* WakeMainAndWaitUntil.
WaitForInput ==
  \/ /\ rd.pc = "wake"
     /\ ev' = [ev EXCEPT !.WorkerWaitingOnInput = TRUE]
     /\ rd' = [rd EXCEPT !.pc = "wait"]
     /\ UNCHANGED <<shared, timer, m, mt, wpc, wr, enc, history>>
  \/ /\ rd.pc = "wait" /\ MustEnd
     /\ ReadReturns(FALSE)
     /\ UNCHANGED <<shared, ev, timer, m, mt, wpc, wr, history>>
  \/ /\ rd.pc = "wait" /\ ~MustEnd /\ ev["EndWaitOnInput"]
     /\ ev' = [ev EXCEPT !.EndWaitOnInput = FALSE]
     /\ rd' = [rd EXCEPT !.pc = "fill"]
     /\ UNCHANGED <<shared, timer, m, mt, wpc, wr, enc, history>>

\* FillBuffer(True) and RingBufferWrite on OutputBuffer.
WriteRing ==
  /\ wr.pc = "ring"
  /\ LET n == WriteBytes(outRing, Len(wr.data))
     IN IF n > 0 THEN /\ outRing' = MoveIn(outRing, wr.data, n)
                      /\ wr' = [wr EXCEPT !.pc = "add", !.bytes = n]
        ELSE /\ wr' = IF wr.some THEN [wr EXCEPT !.some = FALSE] ELSE [wr EXCEPT !.pc = "wake"]
             /\ UNCHANGED outRing
  /\ UNCHANGED <<inRing, noMoreInput, encodeResult, ev, timer, m, mt, wpc, rd, enc, history>>

WriteDone ==
  /\ wr.pc = "add"
  /\ outRing' = AddCount(outRing, wr.bytes)
  /\ wr' = IF wr.bytes = Len(wr.data) THEN NoWrite
           ELSE [pc |-> "ring", bytes |-> 0, some |-> TRUE,
                 data |-> SubSeq(wr.data, wr.bytes + 1, Len(wr.data))]
  /\ UNCHANGED <<inRing, noMoreInput, encodeResult, ev, timer, m, mt, wpc, rd, enc, history>>

WaitForOutput ==
  \/ /\ wr.pc = "wake"
     /\ ev' = [ev EXCEPT !.WorkerWaitingOnOutput = TRUE]
     /\ wr' = [wr EXCEPT !.pc = "wait"]
     /\ UNCHANGED <<shared, timer, m, mt, wpc, rd, enc, history>>
  \/ /\ wr.pc = "wait" /\ MustEnd
     /\ wr' = NoWrite
     /\ enc' = [enc EXCEPT !.failed = TRUE]
     /\ UNCHANGED <<shared, ev, timer, m, mt, wpc, rd, history>>
  \/ /\ wr.pc = "wait" /\ ~MustEnd /\ ev["EndWaitOnOutput"]
     /\ ev' = [ev EXCEPT !.EndWaitOnOutput = FALSE]
     /\ wr' = [wr EXCEPT !.pc = "ring"]
     /\ UNCHANGED <<shared, timer, m, mt, wpc, rd, enc, history>>

-----------------------------------------------------------------------------
(***************************************************************************)
(* LZMA_Encode (the LZMA SDK, external): it reads until Read returns       *)
(* nothing, writes what it has encoded at any time and in any portions,    *)
(* then the end mark, and returns an error when a callback failed.         *)
(***************************************************************************)

MayRead == wpc = "encode" /\ ~enc.failed /\ ~enc.eof /\ rd = NoRead /\ (mt \/ wr = NoWrite)
MayWrite == wpc = "encode" /\ ~enc.failed /\ wr = NoWrite /\ (mt \/ rd = NoRead)

EncoderReads ==
  /\ MayRead
  /\ \E size \in ReadSizes : rd' = [NoRead EXCEPT !.pc = "fill", !.size = size]
  /\ UNCHANGED <<shared, ev, timer, m, mt, wpc, wr, enc, history>>

EncoderWrites ==
  /\ MayWrite
  /\ \/ \E n \in 1..Len(enc.pending) :
          /\ wr' = [NoWrite EXCEPT !.pc = "ring", !.data = SubSeq(enc.pending, 1, n)]
          /\ enc' = [enc EXCEPT !.pending = SubSeq(@, n + 1, Len(@))]
     \/ /\ enc.eof /\ enc.pending = <<>> /\ ~enc.ended
        /\ wr' = [NoWrite EXCEPT !.pc = "ring", !.data = <<EndMark>>]
        /\ enc' = [enc EXCEPT !.ended = TRUE]
  /\ UNCHANGED <<shared, ev, timer, m, mt, wpc, rd, history>>

EncoderReturns ==
  /\ wpc = "encode" /\ rd = NoRead /\ wr = NoWrite
  /\ enc.failed \/ enc.ended
  /\ encodeResult' = IF enc.failed THEN "error" ELSE "SZ_OK"
  /\ wpc' = "encoded"
  /\ enc' = NewEncoder
  /\ UNCHANGED <<inRing, outRing, noMoreInput, ev, timer, m, mt, rd, wr, history>>

\* The Progress callback (ProgressMade) makes the encoder fail once it is told
\* to end; out of memory, it fails by itself.
EncoderFails ==
  /\ wpc = "encode" /\ ~enc.failed
  /\ \/ MustEnd /\ UNCHANGED history
     \/ Fault
  /\ enc' = [enc EXCEPT !.failed = TRUE]
  /\ UNCHANGED <<shared, ev, timer, m, mt, wpc, rd, wr>>

ReadSide == EndOfInput \/ ReadRing \/ ReadDone \/ WaitForInput
WriteSide == WriteRing \/ WriteDone \/ WaitForOutput

-----------------------------------------------------------------------------
(***************************************************************************)
(* The environment.                                                        *)
(***************************************************************************)

\* The periodic waitable timer.
Tick ==
  /\ m.started /\ ~timer
  /\ timer' = TRUE
  /\ UNCHANGED <<shared, ev, m, worker, history>>

\* The worker process is killed (the thread ends by an unexpected exception).
WorkerDies ==
  /\ wpc # "exited"
  /\ Fault
  /\ wpc' = "exited" /\ rd' = NoRead /\ wr' = NoWrite /\ enc' = NewEncoder
  /\ UNCHANGED <<shared, ev, timer, m, mt>>

\* The compiler is killed.  A worker process outlives it; a worker thread is
\* gone with it.  The two kinds of worker differ in nothing else.
CompilerDies ==
  /\ m.pc \notin {"dead", "freed"}
  /\ Fault
  /\ m' = [m EXCEPT !.pc = "dead", !.started = FALSE]
  /\ \/ UNCHANGED worker
     \/ wpc' = "exited" /\ rd' = NoRead /\ wr' = NoWrite /\ enc' = NewEncoder /\ UNCHANGED mt
  /\ UNCHANGED <<shared, ev, timer>>

\* Nothing is left to do; not a step of the program.
Ended == m.pc \in {"freed", "dead"} /\ wpc = "exited" /\ UNCHANGED vars

-----------------------------------------------------------------------------

EmptyRing == [count |-> 0, w |-> 0, r |-> 0, buf |-> [i \in 0..(BufSize - 1) |-> EndMark]]

Init ==
  /\ inRing = EmptyRing /\ outRing = EmptyRing
  /\ noMoreInput = FALSE /\ encodeResult = "none"
  /\ ev = [e \in Events |-> FALSE]
  /\ timer = FALSE
  /\ m = [pc |-> "idle", call |-> "none", left |-> 0, wrote |-> 0, size |-> 0, bytes |-> 0,
          on |-> "Input", next |-> "idle", started |-> FALSE, finished |-> FALSE,
          tick |-> FALSE]
  /\ mt \in BOOLEAN
  /\ wpc = "await" /\ rd = NoRead /\ wr = NoWrite /\ enc = NewEncoder
  /\ supplied = 0 /\ accepted = 0 /\ written = <<>> /\ streams = 0 /\ faults = 0

Caller == Compress \/ Finish \/ (m.pc = "idle" /\ Free)

Next ==
  \/ Caller \/ MainThread
  \/ WorkerThreadProc \/ ReadSide \/ WriteSide
  \/ EncoderReads \/ EncoderWrites \/ EncoderReturns \/ EncoderFails
  \/ Tick \/ WorkerDies \/ CompilerDies \/ Ended

Spec == Init /\ [][Next]_vars

\* Every thread runs; the encoder goes on reading, writing and returning.  The
\* caller need not call, nor the timer fire, and nothing has to fail.
Fairness ==
  /\ WF_vars(MainThread) /\ WF_vars(WorkerThreadProc)
  /\ WF_vars(ReadSide) /\ WF_vars(WriteSide)
  /\ WF_vars(EncoderReads) /\ WF_vars(EncoderWrites) /\ WF_vars(EncoderReturns)

FairSpec == Spec /\ Fairness

-----------------------------------------------------------------------------
(***************************************************************************)
(* Properties.                                                             *)
(***************************************************************************)

RingType == [count : 0..BufSize, w : 0..(BufSize - 1), r : 0..(BufSize - 1),
             buf : [0..(BufSize - 1) -> Units]]

\* Types; the counts of both rings stay within the buffer, whatever one side
\* does between the other's load of Count and its update.
TypeOK ==
  /\ inRing \in RingType /\ outRing \in RingType
  /\ noMoreInput \in BOOLEAN /\ encodeResult \in {"none", "SZ_OK", "error"}
  /\ ev \in [Events -> BOOLEAN] /\ timer \in BOOLEAN
  /\ m.pc \in {"idle", "enter", "top", "satisfy", "wake", "progress", "flush", "call", "sub",
               "flushed", "write", "add", "wait", "check", "raised", "join", "freed", "dead"}
  /\ m.call \in {"none", "Compress", "Finish", "Drain", "DrainAll"}
  /\ m.left \in 0..MaxInput /\ m.wrote \in 0..m.left
  /\ m.size \in 0..OptimalFlushSize /\ m.bytes \in 0..BufSize
  /\ wpc \in {"await", "encode", "encoded", "exited"}
  /\ rd.pc \in {"none", "fill", "empty", "ring", "sub", "wake", "wait"}
  /\ wr.pc \in {"none", "ring", "add", "wake", "wait"}
  /\ supplied \in 0..MaxInput /\ accepted \in 0..MaxInput

\* The units in InputBuffer, with those a Read has taken and not yet given to
\* the encoder and those the encoder holds, are consecutive and end with the last
\* unit supplied: nothing is lost, repeated or overtaken at the wrap of a ring,
\* or when both sides move data at once.
Unread == [i \in 1..inRing.count |-> inRing.buf[(inRing.r + i - 1) % BufSize]]
InputInOrder ==
  wpc = "encode" /\ ~enc.failed =>
    LET taken == IF rd.pc = "sub" THEN SubSeq(rd.data, 1, Len(rd.data) - rd.bytes) ELSE rd.data
        all == enc.pending \o taken \o Unread
    IN all = [i \in 1..Len(all) |-> supplied - Len(all) + i]

\* The main thread signals EndWaitOn... only to a worker that is in that wait,
\* so that no later wait ends at once by a signal left over from an earlier one;
\* WorkerWaitingOn... likewise says so only of a worker that is waiting.
NoStaleWakeUp ==
  wpc # "exited" =>
    /\ \A e \in {"WorkerWaitingOnInput", "EndWaitOnInput"} :
         ev[e] => rd.pc = "wait" \/ MustEnd
    /\ \A e \in {"WorkerWaitingOnOutput", "EndWaitOnOutput"} :
         ev[e] => wr.pc = "wait" \/ MustEnd
    /\ ~(ev["WorkerWaitingOnInput"] /\ ev["EndWaitOnInput"])
    /\ ~(ev["WorkerWaitingOnOutput"] /\ ev["EndWaitOnOutput"])

\* Compress and Finish raise only after a callback raised, the encoder failed or
\* a process died: their own checks ("Input buffer is not empty", a result that
\* is not SZ_OK, an encoder that ended too early) never fire by a race.
RaisesForACause == m.pc = "raised" => faults > 0

\* What the caller sees is a compressor: all input, in order, when Finish returns.
StreamPhase ==
  CASE m.pc \in {"raised", "join", "freed", "dead"} -> "closed"
    [] m.pc = "idle" -> "ready"
    [] OTHER -> IF m.call = "Compress" THEN "compressing" ELSE "finishing"
Stream == INSTANCE CompressedStream WITH phase <- StreamPhase
StreamSpec == Stream!Spec

\* Compress, Finish and Free return, with the timer or without it: the two sides
\* never wait for each other ("Needed to avoid deadlock", FlushOutputBuffer), and
\* a worker that died is noticed.
InCall == m.pc \notin {"idle", "freed", "dead"}
CallsReturn == InCall ~> ~InCall

\* A worker process outlives neither its compressor nor the compiler.
WorkerEnds == m.pc \in {"join", "dead"} ~> wpc = "exited"
=============================================================================
