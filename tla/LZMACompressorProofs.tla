-------------------------- MODULE LZMACompressorProofs --------------------------
(***************************************************************************)
(* Proofs about LZMACompressor, for buffers, calls, streams and faults of  *)
(* any number: no wake-up is stale, the data move through the two rings in *)
(* their order and complete, a call raises only for a cause, and the       *)
(* compressor keeps the promise of module CompressedStream.                *)
(***************************************************************************)
EXTENDS LZMACompressor, TLAPS

(* The inductive invariant                                                 *)

Item    == Nat \union {EndMark}
MainPcs == {"idle", "enter", "top", "satisfy", "wake", "progress", "flush", "call", "sub",
            "flushed", "write", "add", "wait", "check", "raised", "join", "freed", "dead"}
Closed  == {"raised", "join", "freed", "dead"}
Ending  == {"Finish", "Drain", "DrainAll"}

RingTypes == [count : 0 .. BufSize, w : 0 .. BufSize - 1, r : 0 .. BufSize - 1,
              buf : [0 .. BufSize - 1 -> Item]]
MainType  == [pc : MainPcs, call : {"none", "Compress"} \union Ending, left : Nat, wrote : Nat,
              size : Nat, bytes : Nat, on : {"Input", "Output"},
              next : {"idle", "progress", "wait", "top", "flush", "flushed"},
              started : BOOLEAN, finished : BOOLEAN, tick : BOOLEAN]
ReadType  == [pc : {"none", "fill", "empty", "ring", "sub", "wake", "wait"}, size : Nat,
              data : Seq(Item), bytes : Nat, some : BOOLEAN]
WriteType == [pc : {"none", "ring", "add", "wake", "wait"}, data : Seq(Item), bytes : Nat,
              some : BOOLEAN]
EncType   == [pending : Seq(Item), eof : BOOLEAN, ended : BOOLEAN, failed : BOOLEAN]

TypeInv ==
  /\ inRing \in RingTypes /\ outRing \in RingTypes
  /\ noMoreInput \in BOOLEAN /\ encodeResult \in {"none", "SZ_OK", "error"}
  /\ ev \in [Events -> BOOLEAN] /\ timer \in BOOLEAN /\ mt \in BOOLEAN
  /\ m \in MainType /\ wpc \in {"await", "encode", "encoded", "exited"}
  /\ rd \in ReadType /\ wr \in WriteType /\ enc \in EncType
  /\ supplied \in Nat /\ accepted \in Nat /\ written \in Seq(Item) /\ faults \in Nat
  /\ streams \in Nat

\* Where the main thread is in its calls
FlowInv ==
  /\ m.pc = "idle" => m.call = "none"
  /\ m.pc \in {"enter", "top", "progress", "wait"} => m.call \in {"Compress", "Finish"}
  /\ m.pc \in {"satisfy", "wake"} =>
       \/ m.on = "Input" /\ m.next = "progress" /\ m.call = "Finish"
       \/ m.on = "Input" /\ m.next \in {"wait", "top"} /\ m.call = "Compress"
       \/ m.on = "Output" /\ m.next \in {"flush", "flushed"} /\ m.call # "none"
  /\ m.pc \in {"flush", "call", "sub", "flushed"} => m.call # "none"
  /\ m.pc \in {"write", "add"} => m.call = "Compress"
  /\ m.pc = "check" => m.call = "DrainAll"
  /\ m.call \in {"Drain", "DrainAll"} => m.finished
  /\ m.pc \notin Closed =>
       /\ m.pc # "idle" => m.started
       /\ m.started => (noMoreInput <=> m.call \in Ending /\ m.pc # "enter")
       /\ m.pc \notin {"write", "add"} => m.wrote = 0
       /\ m.wrote <= m.left
       /\ m.call # "Compress" => m.left = 0
       /\ IF m.started THEN accepted = supplied + m.left - m.wrote
                       ELSE accepted = 0 /\ written = <<>>

\* A stream goes to the worker and comes back
HandInv ==
  /\ ev["TerminateWorker"] => m.pc \in {"join", "freed", "dead"}
  /\ wpc # "encode" => rd = NoRead /\ wr = NoWrite /\ enc = NewEncoder
  /\ m.pc # "dead" /\ wpc # "exited" =>
       /\ ~m.started => wpc = "await" /\ ~ev["StartEncode"]
       /\ m.started => \/ wpc = "await" /\ (ev["StartEncode"] <=> ~ev["WorkerEncodeFinished"])
                       \/ /\ wpc \in {"encode", "encoded"}
                          /\ ~ev["StartEncode"] /\ ~ev["WorkerEncodeFinished"]
  /\ m.pc # "dead" /\ m.started /\ m.finished => ev["WorkerEncodeFinished"]

\* An event is signaled only to, or by, a call that waits
Stale(e, side) == ev[e] => \/ side = "wait"
                           \/ MustEnd /\ side = "none" /\ (wpc = "encode" => enc.failed)
WakeInv ==
  wpc # "exited" =>
    /\ Stale("WorkerWaitingOnInput", rd.pc) /\ Stale("EndWaitOnInput", rd.pc)
    /\ Stale("WorkerWaitingOnOutput", wr.pc) /\ Stale("EndWaitOnOutput", wr.pc)
    /\ ~(ev["WorkerWaitingOnInput"] /\ ev["EndWaitOnInput"])
    /\ ~(ev["WorkerWaitingOnOutput"] /\ ev["EndWaitOnOutput"])
    /\ m.pc = "wake" /\ m.on = "Input" =>
         rd.pc = "wait" /\ ~ev["WorkerWaitingOnInput"] /\ ~ev["EndWaitOnInput"]
    /\ m.pc = "wake" /\ m.on = "Output" =>
         wr.pc = "wait" /\ ~ev["WorkerWaitingOnOutput"] /\ ~ev["EndWaitOnOutput"]

\* What is between the offsets of a ring, and the moves that are not counted yet
Place(ring, i) == IF ring.r + i <= BufSize THEN ring.r + i - 1 ELSE ring.r + i - 1 - BufSize
Aligned(ring) ==
  ring.w = IF ring.r + ring.count < BufSize THEN ring.r + ring.count
           ELSE ring.r + ring.count - BufSize

MoveInv ==
  /\ Aligned(inRing) /\ Aligned(outRing)
  /\ m.pc = "add" => /\ m.bytes \in 1 .. m.left - m.wrote
                     /\ m.bytes <= BufSize - inRing.count /\ m.bytes <= BufSize - inRing.w
  /\ m.pc = "call" => m.size \in 1 .. outRing.count
  /\ m.pc = "sub" => /\ m.bytes \in 1 .. m.size /\ m.size <= outRing.count
                     /\ m.bytes <= BufSize - outRing.r
  /\ rd.pc = "sub" => /\ rd.bytes \in 1 .. rd.size /\ rd.bytes <= Len(rd.data)
                      /\ rd.bytes <= inRing.count /\ rd.bytes <= BufSize - inRing.r
  /\ wr.pc = "add" => /\ wr.bytes \in 1 .. Len(wr.data)
                      /\ wr.bytes <= BufSize - outRing.count /\ wr.bytes <= BufSize - outRing.w

\* The input: the units in the ring, before them those of the Read, before them
\* those the encoder holds
Taken == IF rd.pc = "sub" THEN Len(rd.data) - rd.bytes ELSE Len(rd.data)
Given == supplied - inRing.count - Taken       \* the encoder has got so many

InInv ==
  /\ inRing.count <= supplied
  /\ \A i \in 1 .. inRing.count :
        inRing.buf[Place(inRing, i)] = supplied - inRing.count + i
  /\ m.pc = "add" => \A i \in 1 .. m.bytes : inRing.buf[inRing.w + i - 1] = supplied + i
  /\ Taken + inRing.count <= supplied
  /\ \A i \in 1 .. Len(rd.data) : rd.data[i] = Given + i
  /\ wpc = "encode" /\ ~enc.failed =>
       /\ Len(enc.pending) <= Given
       /\ \A i \in 1 .. Len(enc.pending) : enc.pending[i] = Given - Len(enc.pending) + i

\* The end of the input is seen once, and is the end
EndInv ==
  /\ rd.pc = "empty" => noMoreInput
  /\ rd.pc = "fill" /\ rd.size = 0 => rd.data # <<>>
  /\ rd.pc \in {"empty", "ring", "sub", "wake", "wait"} => rd.size > 0
  /\ wpc = "encode" /\ enc.eof => noMoreInput /\ inRing.count = 0 /\ rd = NoRead
  /\ enc.ended => enc.eof /\ enc.pending = <<>>

\* The output: what WriteProc got, after it what is in the ring, after it what the
\* Write has left
Unit(i) == IF i <= supplied THEN i ELSE EndMark
Counted == Len(written) - (IF m.pc = "sub" THEN m.bytes ELSE 0)
Sent    == Counted + outRing.count + Len(wr.data)

Flushed == \/ m.pc = "flushed"
           \/ m.pc \in {"satisfy", "wake"} /\ m.next = "flushed"

Live == m.pc # "dead" /\ m.started

\* ...are the units in their order and the end mark
OutData ==
  /\ wr.pc = "add" => \A i \in 1 .. wr.bytes : outRing.buf[outRing.w + i - 1] = wr.data[i]
  /\ Live => /\ \A i \in 1 .. Len(written) : written[i] = Unit(i)
             /\ \A i \in 1 .. outRing.count :
                  outRing.buf[Place(outRing, i)] = Unit(Counted + i)
             /\ \A i \in 1 .. Len(wr.data) :
                  wr.data[i] = Unit(Counted + outRing.count + i)

\* ...and are as many as the encoder was given and no longer holds
OutCount ==
  Live =>
    /\ Counted >= 0
    /\ Sent <= supplied \/ (Sent = supplied + 1 /\ noMoreInput)
    /\ wpc = "await" /\ ev["StartEncode"] =>
         supplied = inRing.count /\ Sent = 0 /\ encodeResult = "none"
    /\ wpc = "encode" /\ ~enc.failed =>
         Sent = IF enc.ended THEN supplied + 1 ELSE Given - Len(enc.pending)
    /\ wpc = "encode" => encodeResult = "none"
    /\ encodeResult = "SZ_OK" =>
         noMoreInput /\ inRing.count = 0 /\ Sent = supplied + 1
    /\ wpc = "encoded" \/ ev["WorkerEncodeFinished"] => encodeResult # "none"
    /\ m.call = "DrainAll" /\ Flushed => outRing.count = 0
    /\ m.pc = "check" => outRing.count = 0

\* What goes wrong is counted
FaultInv ==
  faults = 0 =>
    /\ m.pc \notin {"raised", "dead"}
    /\ wpc = "exited" \/ enc.failed \/ encodeResult = "error" => ev["TerminateWorker"]

CompressorInv == /\ TypeInv /\ FlowInv /\ HandInv /\ WakeInv /\ MoveInv /\ InInv /\ EndInv
                 /\ OutData /\ OutCount /\ FaultInv

-----------------------------------------------------------------------------
(* The ring buffers                                                        *)

\* The lesser of two numbers is one of them.
LEMMA Least2 == ASSUME NEW a \in Int, NEW b \in Int
                PROVE  Least(a, b) \in {a, b} /\ Least(a, b) <= a /\ Least(a, b) <= b
  BY DEF Least

\* A write fits into the buffer and is not cut by its end; it moves nothing only
\* when there is nothing to move or no room.
LEMMA WriteBytesFit ==
    ASSUME NEW ring \in RingTypes, NEW size \in Nat
    PROVE  /\ WriteBytes(ring, size) \in 0 .. size
           /\ WriteBytes(ring, size) <= BufSize - ring.count
           /\ WriteBytes(ring, size) <= BufSize - ring.w
<1>1. ring.count \in 0 .. BufSize /\ ring.w \in 0 .. BufSize - 1
  BY DEF RingTypes
<1>. QED
  BY <1>1, BufferAssumption DEF WriteBytes, Least

\* A read takes no more than there is, and nothing only when there is nothing.
LEMMA ReadBytesFit ==
    ASSUME NEW ring \in RingTypes, NEW size \in Nat
    PROVE  /\ ReadBytes(ring, size) \in 0 .. size
           /\ ReadBytes(ring, size) \in 0 .. ring.count
           /\ ReadBytes(ring, size) <= ring.count
           /\ ReadBytes(ring, size) <= BufSize - ring.r
           /\ size > 0 /\ ring.count > 0 => ReadBytes(ring, size) > 0
<1>1. ring.count \in 0 .. BufSize /\ ring.r \in 0 .. BufSize - 1
  BY DEF RingTypes
<1>. QED
  BY <1>1, BufferAssumption DEF ReadBytes, Least

\* Moving data in changes only room that nothing uses.
LEMMA MovedIn ==
    ASSUME NEW ring \in RingTypes, NEW n \in Nat, NEW data, Aligned(ring),
           n <= BufSize - ring.count, n <= BufSize - ring.w,
           \A i \in 1 .. n : data[i] \in Item
    PROVE  /\ MoveIn(ring, data, n) \in RingTypes
           /\ MoveIn(ring, data, n).count = ring.count
           /\ MoveIn(ring, data, n).w = ring.w
           /\ MoveIn(ring, data, n).r = ring.r
           /\ \A i \in 1 .. n : MoveIn(ring, data, n).buf[ring.w + i - 1] = data[i]
           /\ \A i \in 1 .. ring.count :
                MoveIn(ring, data, n).buf[Place(ring, i)] = ring.buf[Place(ring, i)]
<1> DEFINE new == [i \in 0 .. BufSize - 1 |->
                     IF i \in ring.w .. (ring.w + n - 1) THEN data[i - ring.w + 1] ELSE ring.buf[i]]
<1>1. /\ ring.count \in 0 .. BufSize /\ ring.w \in 0 .. BufSize - 1
      /\ ring.r \in 0 .. BufSize - 1 /\ ring.buf \in [0 .. BufSize - 1 -> Item]
  BY DEF RingTypes
<1>2. DOMAIN ring.buf = 0 .. BufSize - 1
  BY <1>1
<1>3. MoveIn(ring, data, n) = [ring EXCEPT !.buf = new]
  BY <1>2 DEF MoveIn
<1>4. new \in [0 .. BufSize - 1 -> Item]
  <2>1. ASSUME NEW i \in 0 .. BufSize - 1, i \in ring.w .. (ring.w + n - 1)
        PROVE  data[i - ring.w + 1] \in Item
    <3>1. i - ring.w + 1 \in 1 .. n
      BY <1>1, <2>1, BufferAssumption
    <3>. QED
      BY <3>1
  <2>. QED
    BY <1>1, <2>1
<1>5. \A i \in 1 .. n : new[ring.w + i - 1] = data[i]
  <2>1. ASSUME NEW i \in 1 .. n
        PROVE  new[ring.w + i - 1] = data[i]
    <3>1. /\ ring.w + i - 1 \in 0 .. BufSize - 1
          /\ ring.w + i - 1 \in ring.w .. (ring.w + n - 1)
          /\ (ring.w + i - 1) - ring.w + 1 = i
      BY <1>1, BufferAssumption
    <3>. QED
      BY <3>1
  <2>. QED
    BY <2>1
<1>6. \A i \in 1 .. ring.count : new[Place(ring, i)] = ring.buf[Place(ring, i)]
  <2>1. ASSUME NEW i \in 1 .. ring.count
        PROVE  Place(ring, i) \in 0 .. BufSize - 1 /\ Place(ring, i) \notin ring.w .. (ring.w + n - 1)
    <3>1. BufSize \in Nat /\ i \in Int /\ 1 <= i /\ i <= ring.count
      BY <1>1, BufferAssumption
    <3>2. CASE ring.r + i <= BufSize
      <4>1. Place(ring, i) = ring.r + i - 1
        BY <3>2 DEF Place
      <4>2. CASE ring.r + ring.count < BufSize
        <5>1. ring.w = ring.r + ring.count
          BY <4>2 DEF Aligned
        <5>. QED
          BY <1>1, <3>1, <3>2, <4>1, <5>1
      <4>3. CASE ~(ring.r + ring.count < BufSize)
        <5>1. ring.w = ring.r + ring.count - BufSize
          BY <4>3 DEF Aligned
        <5>. HIDE DEF new
        <5>2. ring.count \in Nat /\ ring.r \in Nat
          BY <1>1, <3>1
        <5>3. ring.w + n - 1 <= ring.r - 1
          BY <3>1, <5>1, <5>2
        <5>4. ring.r + i - 1 \in 0 .. BufSize - 1
          BY <3>1, <3>2, <5>2
        <5>5. ring.w + n - 1 < ring.r + i - 1
          BY <3>1, <5>1, <5>2, <5>3
        <5>. QED
          BY <1>1, <4>1, <5>4, <5>5
      <4>. QED
        BY <4>2, <4>3
    <3>3. CASE ~(ring.r + i <= BufSize)
      <4>1. Place(ring, i) = ring.r + i - 1 - BufSize
        BY <3>3 DEF Place
      <4>2. ring.w = ring.r + ring.count - BufSize
        BY <1>1, <3>1, <3>3 DEF Aligned
      <4>. QED
        BY <1>1, <3>1, <3>3, <4>1, <4>2, SMTT(20)
    <3>. QED
      BY <3>2, <3>3
  <2>. QED
    BY <2>1
<1>7. /\ [ring EXCEPT !.buf = new] \in RingTypes
      /\ [ring EXCEPT !.buf = new].count = ring.count
      /\ [ring EXCEPT !.buf = new].w = ring.w
      /\ [ring EXCEPT !.buf = new].r = ring.r
      /\ [ring EXCEPT !.buf = new].buf = new
  <2> HIDE DEF new
  <2>. QED
    BY <1>4 DEF RingTypes
<1> HIDE DEF new
<1>. QED
  BY <1>3, <1>5, <1>6, <1>7

\* What is moved out is what was written first.
LEMMA MovedOut ==
    ASSUME NEW ring \in RingTypes, NEW n \in 0 .. ring.count, n <= BufSize - ring.r
    PROVE  /\ MoveOut(ring, n) \in Seq(Item)
           /\ Len(MoveOut(ring, n)) = n
           /\ \A i \in 1 .. n : MoveOut(ring, n)[i] = ring.buf[Place(ring, i)]
<1>1. /\ ring.count \in 0 .. BufSize /\ ring.r \in 0 .. BufSize - 1
      /\ ring.buf \in [0 .. BufSize - 1 -> Item] /\ n \in Nat
  BY BufferAssumption DEF RingTypes
<1>2. \A i \in 1 .. n : /\ ring.r + i - 1 \in 0 .. BufSize - 1
                        /\ Place(ring, i) = ring.r + i - 1
  BY <1>1, BufferAssumption DEF Place
<1>3. \A i \in 1 .. n : ring.buf[ring.r + i - 1] \in Item
  BY <1>1, <1>2
<1>4. MoveOut(ring, n) \in [1 .. n -> Item]
  BY <1>3 DEF MoveOut
<1>5. MoveOut(ring, n) \in Seq(Item) /\ Len(MoveOut(ring, n)) = n
  BY <1>1, <1>4
<1>6. \A i \in 1 .. n : MoveOut(ring, n)[i] = ring.buf[ring.r + i - 1]
  BY DEF MoveOut
<1>. QED
  BY <1>2, <1>5, <1>6

\* Publishing a write puts the data moved in after those that were there.
LEMMA CountAdded ==
    ASSUME NEW ring \in RingTypes, NEW n \in Nat, n > 0, Aligned(ring),
           n <= BufSize - ring.count, n <= BufSize - ring.w
    PROVE  /\ AddCount(ring, n) \in RingTypes
           /\ Aligned(AddCount(ring, n))
           /\ AddCount(ring, n).count = ring.count + n
           /\ AddCount(ring, n).r = ring.r
           /\ AddCount(ring, n).buf = ring.buf
           /\ \A i \in 1 .. ring.count : Place(AddCount(ring, n), i) = Place(ring, i)
           /\ \A i \in 1 .. n : Place(AddCount(ring, n), ring.count + i) = ring.w + i - 1
<1>1. /\ ring.count \in 0 .. BufSize /\ ring.w \in 0 .. BufSize - 1
      /\ ring.r \in 0 .. BufSize - 1 /\ ring.buf \in [0 .. BufSize - 1 -> Item]
  BY DEF RingTypes
<1>2. Advance(ring.w, n) \in 0 .. BufSize - 1
  <2>1. BufSize \in Nat /\ BufSize > 0 /\ ring.w \in Nat
    BY <1>1, BufferAssumption
  <2>2. CASE ring.w + n = BufSize
    BY <2>1, <2>2 DEF Advance
  <2>3. CASE ring.w + n # BufSize
    <3>1. ring.w + n \in 0 .. BufSize - 1
      BY <2>1, <2>3
    <3>. QED
      BY <2>3, <3>1 DEF Advance
  <2>. QED
    BY <2>2, <2>3
<1>3. /\ AddCount(ring, n) \in RingTypes
      /\ AddCount(ring, n).count = ring.count + n
      /\ AddCount(ring, n).w = Advance(ring.w, n)
      /\ AddCount(ring, n).r = ring.r
      /\ AddCount(ring, n).buf = ring.buf
  <2>1. ring.count + n \in 0 .. BufSize
    BY <1>1, BufferAssumption
  <2>. QED
    BY <1>2, <2>1 DEF AddCount, RingTypes
<1>. DEFINE new == AddCount(ring, n)
<1>4. Aligned(new)
  <2>1. new.w = IF ring.w + n = BufSize THEN 0 ELSE ring.w + n
    BY <1>3 DEF Advance
  <2>2. ring.w = IF ring.r + ring.count < BufSize THEN ring.r + ring.count
                 ELSE ring.r + ring.count - BufSize
    BY DEF Aligned
  <2>3. new.w = IF ring.r + ring.count + n < BufSize THEN ring.r + ring.count + n
                ELSE ring.r + ring.count + n - BufSize
    <3>1. CASE ring.r + ring.count < BufSize
      BY <1>1, <2>1, <2>2, <3>1, BufferAssumption
    <3>2. CASE ~(ring.r + ring.count < BufSize)
      <4>1. ring.w = ring.r + ring.count - BufSize
        BY <2>2, <3>2
      <4>2. ring.w + n < BufSize
        BY <1>1, <4>1, BufferAssumption, SMTT(20)
      <4>3. ~(ring.r + ring.count + n < BufSize)
        BY <1>1, <3>2, BufferAssumption
      <4>. QED
        BY <1>1, <2>1, <4>1, <4>2, <4>3, BufferAssumption
    <3>. QED
      BY <3>1, <3>2
  <2>4. new.r = ring.r /\ new.count = ring.count + n
    BY <1>3
  <2>. HIDE DEF new
  <2>. QED
    BY <1>1, <2>3, <2>4, BufferAssumption DEF Aligned
<1>5. \A i \in 1 .. ring.count : Place(AddCount(ring, n), i) = Place(ring, i)
  BY <1>3 DEF Place
<1>6. \A i \in 1 .. n : Place(AddCount(ring, n), ring.count + i) = ring.w + i - 1
  <2>1. ASSUME NEW i \in 1 .. n
        PROVE  Place(new, ring.count + i) = ring.w + i - 1
    <3>1. ring.w = IF ring.r + ring.count < BufSize THEN ring.r + ring.count
                   ELSE ring.r + ring.count - BufSize
      BY DEF Aligned
    <3>2. Place(new, ring.count + i) =
            IF ring.r + (ring.count + i) <= BufSize THEN ring.r + (ring.count + i) - 1
            ELSE ring.r + (ring.count + i) - 1 - BufSize
      BY <1>3 DEF Place
    <3>3. BufSize \in Nat /\ i \in Int /\ 1 <= i /\ i <= n
      BY BufferAssumption
    <3>. HIDE DEF new
    <3>4. CASE ring.r + ring.count < BufSize
      <4>1. ring.r + (ring.count + i) <= BufSize
        BY <1>1, <3>1, <3>3, <3>4
      <4>. QED
        BY <1>1, <3>1, <3>2, <3>3, <3>4, <4>1, SMTT(20)
    <3>5. CASE ~(ring.r + ring.count < BufSize)
      <4>1. ~(ring.r + (ring.count + i) <= BufSize)
        BY <1>1, <3>3, <3>5
      <4>2. ring.w = ring.r + ring.count - BufSize
        BY <3>1, <3>5
      <4>3. Place(new, ring.count + i) = ring.r + (ring.count + i) - 1 - BufSize
        BY <3>2, <4>1
      <4>4. ring.r \in Nat /\ ring.count \in Nat
        BY <1>1, <3>3
      <4>5. ring.r + (ring.count + i) - 1 - BufSize = (ring.r + ring.count - BufSize) + i - 1
        BY <3>3, <4>4
      <4>. QED
        BY <4>2, <4>3, <4>5
    <3>. QED
      BY <3>4, <3>5
  <2>. QED
    BY <2>1
<1>. QED
  BY <1>3, <1>4, <1>5, <1>6

\* Publishing a read leaves the data that follow those moved out.
LEMMA CountSubtracted ==
    ASSUME NEW ring \in RingTypes, NEW n \in 1 .. ring.count, Aligned(ring),
           n <= BufSize - ring.r
    PROVE  /\ SubCount(ring, n) \in RingTypes
           /\ Aligned(SubCount(ring, n))
           /\ SubCount(ring, n).count = ring.count - n
           /\ SubCount(ring, n).w = ring.w
           /\ SubCount(ring, n).buf = ring.buf
           /\ \A i \in 1 .. ring.count - n : Place(SubCount(ring, n), i) = Place(ring, n + i)
<1>1. /\ ring.count \in 0 .. BufSize /\ ring.w \in 0 .. BufSize - 1
      /\ ring.r \in 0 .. BufSize - 1 /\ ring.buf \in [0 .. BufSize - 1 -> Item]
  BY DEF RingTypes
<1>2. Advance(ring.r, n) \in 0 .. BufSize - 1
  BY <1>1, BufferAssumption DEF Advance
<1>3. /\ SubCount(ring, n) \in RingTypes
      /\ SubCount(ring, n).count = ring.count - n
      /\ SubCount(ring, n).r = Advance(ring.r, n)
      /\ SubCount(ring, n).w = ring.w
      /\ SubCount(ring, n).buf = ring.buf
  <2>1. ring.count - n \in 0 .. BufSize
    BY <1>1, BufferAssumption
  <2>. QED
    BY <1>2, <2>1 DEF SubCount, RingTypes
<1>. DEFINE new == SubCount(ring, n)
<1>4. Aligned(new)
  BY <1>1, <1>3, BufferAssumption, SMTT(20) DEF Aligned, Advance
<1>5. \A i \in 1 .. ring.count - n : Place(SubCount(ring, n), i) = Place(ring, n + i)
  <2>1. ASSUME NEW i \in 1 .. ring.count - n
        PROVE  Place(new, i) = Place(ring, n + i)
    <3>1. new.r = IF ring.r + n = BufSize THEN 0 ELSE ring.r + n
      BY <1>3 DEF Advance
    <3>2. BufSize \in Nat /\ i \in Int /\ 1 <= i /\ i <= ring.count - n /\ n \in 1 .. ring.count
      BY <1>1, BufferAssumption
    <3>. HIDE DEF new
    <3>3. (IF new.r + i <= BufSize THEN new.r + i - 1 ELSE new.r + i - 1 - BufSize)
          = IF ring.r + (n + i) <= BufSize THEN ring.r + (n + i) - 1
            ELSE ring.r + (n + i) - 1 - BufSize
      BY <1>1, <3>1, <3>2, SMTT(20)
    <3>. QED
      BY <3>3 DEF Place
  <2>. QED
    BY <2>1
<1>. QED
  BY <1>3, <1>4, <1>5

-----------------------------------------------------------------------------
(* What each step does                                                     *)

\* The callbacks and the encoder when they do nothing have their types.
LEMMA NoneTypes ==
    /\ NoRead \in ReadType /\ NoRead.pc = "none" /\ NoRead.data = <<>>
    /\ NoRead.size = 0 /\ NoRead.bytes = 0
    /\ NoWrite \in WriteType /\ NoWrite.pc = "none" /\ NoWrite.data = <<>>
    /\ NoWrite.bytes = 0
    /\ NewEncoder \in EncType /\ NewEncoder.pending = <<>>
    /\ ~NewEncoder.eof /\ ~NewEncoder.ended /\ ~NewEncoder.failed
  BY DEF NoRead, NoWrite, NewEncoder, ReadType, WriteType, EncType

\* The length and the elements of a part of a sequence.
LEMMA SubSeqIs ==
    ASSUME NEW s \in Seq(Item), NEW a \in 1 .. Len(s) + 1, NEW b \in a - 1 .. Len(s)
    PROVE  /\ SubSeq(s, a, b) \in Seq(Item)
           /\ Len(SubSeq(s, a, b)) = b - a + 1
           /\ \A i \in 1 .. Len(SubSeq(s, a, b)) : SubSeq(s, a, b)[i] = s[a - 1 + i]
<1>1. a \in Int /\ b \in Int /\ Len(s) \in Nat
  OBVIOUS
<1>2. SubSeq(s, a, b) = [i \in 1 .. b - a + 1 |-> s[i + a - 1]]
  OBVIOUS
<1>3. ASSUME NEW i \in 1 .. b - a + 1
      PROVE  s[i + a - 1] \in Item /\ i + a - 1 = a - 1 + i
  BY <1>1
<1>. DEFINE t == [i \in 1 .. b - a + 1 |-> s[i + a - 1]]
<1>4. t \in [1 .. b - a + 1 -> Item] /\ b - a + 1 \in Nat
  BY <1>1, <1>3
<1>5. \A i \in 1 .. b - a + 1 : t[i] = s[a - 1 + i]
  BY <1>3
<1>. HIDE DEF t
<1>6. t \in Seq(Item) /\ Len(t) = b - a + 1
  BY <1>4
<1>7. SubSeq(s, a, b) = t
  BY <1>2 DEF t
<1>. QED
  BY <1>5, <1>6, <1>7

\* The length and the elements of two sequences put together.
LEMMA ConcatIs ==
    ASSUME NEW s \in Seq(Item), NEW t \in Seq(Item)
    PROVE  /\ s \o t \in Seq(Item)
           /\ Len(s \o t) = Len(s) + Len(t)
           /\ Len(s) \in Nat /\ Len(t) \in Nat
           /\ \A i \in 1 .. Len(s) + Len(t) :
                (s \o t)[i] = IF i <= Len(s) THEN s[i] ELSE t[i - Len(s)]
  OBVIOUS

\* Compress and Finish differ in what they are given only.
Begin(call, count) ==
  /\ StartEncode(call, count)
  /\ accepted' = accepted + count
  /\ UNCHANGED <<worker, written, streams, faults>>

\* What Begin does to each variable.
LEMMA BeginDoes ==
    ASSUME CompressorInv, NEW call \in {"Compress", "Finish"}, NEW count \in Nat, Begin(call, count)
    PROVE  /\ m.pc = "idle"
           /\ accepted' = accepted + count
           /\ UNCHANGED <<mt, wpc, rd, wr, enc, written, streams, faults>>
           /\ \/ /\ m.started
                 /\ m' \in MainType
                 /\ m'.pc = "enter" /\ m'.call = call /\ m'.left = count /\ m'.wrote = m.wrote
                 /\ m'.size = m.size /\ m'.bytes = m.bytes /\ m'.on = m.on /\ m'.next = m.next
                 /\ m'.started = m.started /\ m'.finished = m.finished
                 /\ UNCHANGED <<inRing, outRing, noMoreInput, encodeResult, ev, timer,
                                supplied>>
              \/ /\ ~m.started
                 /\ m' \in MainType
                 /\ m'.pc = "enter" /\ m'.call = call /\ m'.left = count /\ m'.started = TRUE
                 /\ m'.finished = FALSE /\ m'.tick = FALSE /\ m'.wrote = m.wrote
                 /\ m'.size = m.size /\ m'.bytes = m.bytes /\ m'.on = m.on /\ m'.next = m.next
                 /\ noMoreInput' = FALSE
                 /\ encodeResult' = "none"
                 /\ inRing' \in RingTypes
                 /\ inRing'.count = 0 /\ inRing'.w = 0 /\ inRing'.r = 0
                 /\ inRing'.buf = inRing.buf
                 /\ outRing' \in RingTypes
                 /\ outRing'.count = 0 /\ outRing'.w = 0 /\ outRing'.r = 0
                 /\ outRing'.buf = outRing.buf
                 /\ supplied' = 0
                 /\ timer' = FALSE
                 /\ ev' \in [Events -> BOOLEAN]
                 /\ ~ev'["WorkerEncodeFinished"] /\ ev'["StartEncode"]
                 /\ \A e \in Events \ {"WorkerEncodeFinished", "StartEncode"} : ev'[e] = ev[e]
<1>1. /\ m.pc = "idle"
      /\ accepted' = accepted + count
      /\ UNCHANGED <<mt, wpc, rd, wr, enc, written, streams, faults>>
  BY DEF Begin, StartEncode, RingBufferReset, shared, worker
<1>2. /\ 0 \in 0 .. BufSize /\ 0 \in 0 .. BufSize - 1
  BY BufferAssumption
<1>3. \/ /\ m.started
         /\ m' = [m EXCEPT !.pc = "enter", !.call = call, !.left = count]
         /\ UNCHANGED <<inRing, outRing, noMoreInput, encodeResult, ev, timer,
                        supplied>>
      \/ /\ ~m.started
         /\ m' = [m EXCEPT !.pc = "enter", !.call = call, !.left = count, !.started = TRUE,
                           !.finished = FALSE, !.tick = FALSE]
         /\ noMoreInput' = FALSE
         /\ encodeResult' = "none"
         /\ inRing' = [inRing EXCEPT !.count = 0, !.w = 0, !.r = 0]
         /\ outRing' = [outRing EXCEPT !.count = 0, !.w = 0, !.r = 0]
         /\ supplied' = 0
         /\ timer' = FALSE
         /\ ev' = [ev EXCEPT !["WorkerEncodeFinished"] = FALSE, !["StartEncode"] = TRUE]
  BY DEF Begin, StartEncode, RingBufferReset, shared, worker
<1>4. CASE /\ m.started
           /\ m' = [m EXCEPT !.pc = "enter", !.call = call, !.left = count]
           /\ UNCHANGED <<inRing, outRing, noMoreInput, encodeResult, ev, timer,
                          supplied>>
  <2>1. /\ m' \in MainType
        /\ m'.pc = "enter" /\ m'.call = call /\ m'.left = count /\ m'.wrote = m.wrote
        /\ m'.size = m.size /\ m'.bytes = m.bytes /\ m'.on = m.on /\ m'.next = m.next
        /\ m'.started = m.started /\ m'.finished = m.finished
    BY <1>4, <1>2, CompressorInv DEF CompressorInv, TypeInv, MainType, MainPcs, Ending
  <2>. QED
    BY <1>1, <1>4, <2>1
<1>5. CASE /\ ~m.started
           /\ m' = [m EXCEPT !.pc = "enter", !.call = call, !.left = count, !.started = TRUE,
                             !.finished = FALSE, !.tick = FALSE]
           /\ noMoreInput' = FALSE
           /\ encodeResult' = "none"
           /\ inRing' = [inRing EXCEPT !.count = 0, !.w = 0, !.r = 0]
           /\ outRing' = [outRing EXCEPT !.count = 0, !.w = 0, !.r = 0]
           /\ supplied' = 0
           /\ timer' = FALSE
           /\ ev' = [ev EXCEPT !["WorkerEncodeFinished"] = FALSE, !["StartEncode"] = TRUE]
  <2>1. /\ m' \in MainType
        /\ m'.pc = "enter" /\ m'.call = call /\ m'.left = count /\ m'.started = TRUE
        /\ m'.finished = FALSE /\ m'.tick = FALSE /\ m'.wrote = m.wrote
        /\ m'.size = m.size /\ m'.bytes = m.bytes /\ m'.on = m.on /\ m'.next = m.next
    BY <1>5, <1>2, CompressorInv DEF CompressorInv, TypeInv, MainType, MainPcs, Ending
  <2>2. /\ inRing' \in RingTypes
        /\ inRing'.count = 0 /\ inRing'.w = 0 /\ inRing'.r = 0
        /\ inRing'.buf = inRing.buf
    BY <1>5, <1>2, BufferAssumption, CompressorInv DEF CompressorInv, TypeInv, RingTypes
  <2>3. /\ outRing' \in RingTypes
        /\ outRing'.count = 0 /\ outRing'.w = 0 /\ outRing'.r = 0
        /\ outRing'.buf = outRing.buf
    BY <1>5, <1>2, BufferAssumption, CompressorInv DEF CompressorInv, TypeInv, RingTypes
  <2>4. /\ ev' \in [Events -> BOOLEAN]
        /\ ~ev'["WorkerEncodeFinished"] /\ ev'["StartEncode"]
        /\ \A e \in Events \ {"WorkerEncodeFinished", "StartEncode"} : ev'[e] = ev[e]
    BY <1>5, CompressorInv DEF CompressorInv, TypeInv, Events
  <2>. QED
    BY <1>1, <1>5, <2>1, <2>2, <2>3, <2>4
<1>. QED
  BY <1>1, <1>3, <1>4, <1>5

\* What SetNoMoreInput does to each variable.
LEMMA SetNoMoreInputDoes ==
    ASSUME CompressorInv, SetNoMoreInput
    PROVE  /\ m.pc = "enter"
           /\ m.call = "Finish"
           /\ UNCHANGED <<inRing, outRing, encodeResult, ev, timer, mt, wpc, rd, wr,
                          enc, supplied, accepted, written, streams, faults>>
           /\ m' \in MainType
           /\ m'.pc = "top" /\ m'.call = m.call /\ m'.left = m.left /\ m'.wrote = m.wrote
           /\ m'.size = m.size /\ m'.bytes = m.bytes /\ m'.on = m.on /\ m'.next = m.next
           /\ m'.started = m.started /\ m'.finished = m.finished
           /\ noMoreInput' = TRUE
<1>1. /\ m.pc = "enter"
      /\ m.call = "Finish"
      /\ UNCHANGED <<inRing, outRing, encodeResult, ev, timer, mt, wpc, rd, wr, enc,
                     supplied, accepted, written, streams, faults>>
  BY DEF SetNoMoreInput, Goto, worker, history
<1>2. /\ m' = [m EXCEPT !.pc = "top"]
      /\ noMoreInput' = TRUE
  BY DEF SetNoMoreInput, Goto, worker, history
<1>3. /\ m' \in MainType
      /\ m'.pc = "top" /\ m'.call = m.call /\ m'.left = m.left /\ m'.wrote = m.wrote
      /\ m'.size = m.size /\ m'.bytes = m.bytes /\ m'.on = m.on /\ m'.next = m.next
      /\ m'.started = m.started /\ m'.finished = m.finished
  BY <1>2, CompressorInv DEF CompressorInv, TypeInv, MainType, MainPcs, Ending
<1>. QED
  BY <1>1, <1>2, <1>3

\* What EnterCompress does to each variable.
LEMMA EnterCompressDoes ==
    ASSUME CompressorInv, EnterCompress
    PROVE  /\ m.pc = "enter"
           /\ m.call = "Compress"
           /\ UNCHANGED <<inRing, outRing, noMoreInput, encodeResult, ev, timer, mt,
                          wpc, rd, wr, enc, supplied, accepted, written, streams,
                          faults>>
           /\ m' \in MainType
           /\ m'.pc = "top" /\ m'.call = m.call /\ m'.left = m.left /\ m'.wrote = m.wrote
           /\ m'.size = m.size /\ m'.bytes = m.bytes /\ m'.on = m.on /\ m'.next = m.next
           /\ m'.started = m.started /\ m'.finished = m.finished
<1>1. /\ m.pc = "enter"
      /\ m.call = "Compress"
      /\ UNCHANGED <<inRing, outRing, noMoreInput, encodeResult, ev, timer, mt, wpc,
                     rd, wr, enc, supplied, accepted, written, streams, faults>>
  BY DEF EnterCompress, Goto, shared, worker, history
<1>2. /\ m' = [m EXCEPT !.pc = "top"]
  BY DEF EnterCompress, Goto, shared, worker, history
<1>3. /\ m' \in MainType
      /\ m'.pc = "top" /\ m'.call = m.call /\ m'.left = m.left /\ m'.wrote = m.wrote
      /\ m'.size = m.size /\ m'.bytes = m.bytes /\ m'.on = m.on /\ m'.next = m.next
      /\ m'.started = m.started /\ m'.finished = m.finished
  BY <1>2, CompressorInv DEF CompressorInv, TypeInv, MainType, MainPcs, Ending
<1>. QED
  BY <1>1, <1>2, <1>3

\* What CompressLoop does to each variable.
LEMMA CompressLoopDoes ==
    ASSUME CompressorInv, CompressLoop
    PROVE  /\ m.pc = "top"
           /\ m.call = "Compress"
           /\ UNCHANGED <<inRing, outRing, noMoreInput, encodeResult, ev, timer, mt,
                          wpc, rd, wr, enc, supplied, accepted, written, streams,
                          faults>>
           /\ \/ /\ m.left = 0
                 /\ m' \in MainType
                 /\ m'.pc = "idle" /\ m'.call = "none" /\ m'.left = m.left /\ m'.wrote = m.wrote
                 /\ m'.size = m.size /\ m'.bytes = m.bytes /\ m'.on = m.on /\ m'.next = m.next
                 /\ m'.started = m.started /\ m'.finished = m.finished
              \/ /\ m.left # 0
                 /\ m.finished
                 /\ m' \in MainType
                 /\ m'.pc = "raised" /\ m'.call = m.call /\ m'.left = m.left /\ m'.wrote = m.wrote
                 /\ m'.size = m.size /\ m'.bytes = m.bytes /\ m'.on = m.on /\ m'.next = m.next
                 /\ m'.started = m.started /\ m'.finished = m.finished
              \/ /\ m.left # 0
                 /\ ~m.finished
                 /\ m' \in MainType
                 /\ m'.pc = "progress" /\ m'.call = m.call /\ m'.left = m.left
                 /\ m'.wrote = m.wrote /\ m'.size = m.size /\ m'.bytes = m.bytes /\ m'.on = m.on
                 /\ m'.next = m.next /\ m'.started = m.started /\ m'.finished = m.finished
<1>1. /\ m.pc = "top"
      /\ m.call = "Compress"
      /\ UNCHANGED <<inRing, outRing, noMoreInput, encodeResult, ev, timer, mt, wpc,
                     rd, wr, enc, supplied, accepted, written, streams, faults>>
  BY DEF CompressLoop, Raise, Goto, shared, worker, history
<1>2. \/ /\ m.left = 0
         /\ m' = [m EXCEPT !.pc = "idle", !.call = "none"]
      \/ /\ m.left # 0
         /\ m.finished
         /\ m' = [m EXCEPT !.pc = "raised"]
      \/ /\ m.left # 0
         /\ ~m.finished
         /\ m' = [m EXCEPT !.pc = "progress"]
  BY DEF CompressLoop, Raise, Goto, shared, worker, history
<1>3. CASE /\ m.left = 0
           /\ m' = [m EXCEPT !.pc = "idle", !.call = "none"]
  <2>1. /\ m' \in MainType
        /\ m'.pc = "idle" /\ m'.call = "none" /\ m'.left = m.left /\ m'.wrote = m.wrote
        /\ m'.size = m.size /\ m'.bytes = m.bytes /\ m'.on = m.on /\ m'.next = m.next
        /\ m'.started = m.started /\ m'.finished = m.finished
    BY <1>3, CompressorInv DEF CompressorInv, TypeInv, MainType, MainPcs, Ending
  <2>. QED
    BY <1>1, <1>3, <2>1
<1>4. CASE /\ m.left # 0
           /\ m.finished
           /\ m' = [m EXCEPT !.pc = "raised"]
  <2>1. /\ m' \in MainType
        /\ m'.pc = "raised" /\ m'.call = m.call /\ m'.left = m.left /\ m'.wrote = m.wrote
        /\ m'.size = m.size /\ m'.bytes = m.bytes /\ m'.on = m.on /\ m'.next = m.next
        /\ m'.started = m.started /\ m'.finished = m.finished
    BY <1>4, CompressorInv DEF CompressorInv, TypeInv, MainType, MainPcs, Ending
  <2>. QED
    BY <1>1, <1>4, <2>1
<1>5. CASE /\ m.left # 0
           /\ ~m.finished
           /\ m' = [m EXCEPT !.pc = "progress"]
  <2>1. /\ m' \in MainType
        /\ m'.pc = "progress" /\ m'.call = m.call /\ m'.left = m.left
        /\ m'.wrote = m.wrote /\ m'.size = m.size /\ m'.bytes = m.bytes /\ m'.on = m.on
        /\ m'.next = m.next /\ m'.started = m.started /\ m'.finished = m.finished
    BY <1>5, CompressorInv DEF CompressorInv, TypeInv, MainType, MainPcs, Ending
  <2>. QED
    BY <1>1, <1>5, <2>1
<1>. QED
  BY <1>1, <1>2, <1>3, <1>4, <1>5

\* What FinishLoop does to each variable.
LEMMA FinishLoopDoes ==
    ASSUME CompressorInv, FinishLoop
    PROVE  /\ m.pc = "top"
           /\ m.call = "Finish"
           /\ UNCHANGED <<inRing, outRing, noMoreInput, encodeResult, ev, timer, mt,
                          wpc, rd, wr, enc, supplied, accepted, written, streams,
                          faults>>
           /\ \/ /\ m.finished
                 /\ m' \in MainType
                 /\ m'.pc = "flush" /\ m'.call = "Drain" /\ m'.left = m.left /\ m'.wrote = m.wrote
                 /\ m'.size = m.size /\ m'.bytes = m.bytes /\ m'.on = m.on /\ m'.next = m.next
                 /\ m'.started = m.started /\ m'.finished = m.finished
              \/ /\ ~m.finished
                 /\ m' \in MainType
                 /\ m'.pc = "satisfy" /\ m'.on = "Input" /\ m'.next = "progress"
                 /\ m'.call = m.call /\ m'.left = m.left /\ m'.wrote = m.wrote /\ m'.size = m.size
                 /\ m'.bytes = m.bytes /\ m'.started = m.started /\ m'.finished = m.finished
<1>1. /\ m.pc = "top"
      /\ m.call = "Finish"
      /\ UNCHANGED <<inRing, outRing, noMoreInput, encodeResult, ev, timer, mt, wpc,
                     rd, wr, enc, supplied, accepted, written, streams, faults>>
  BY DEF FinishLoop, Satisfy, shared, worker, history
<1>2. \/ /\ m.finished
         /\ m' = [m EXCEPT !.pc = "flush", !.call = "Drain"]
      \/ /\ ~m.finished
         /\ m' = [m EXCEPT !.pc = "satisfy", !.on = "Input", !.next = "progress"]
  BY DEF FinishLoop, Satisfy, shared, worker, history
<1>3. CASE /\ m.finished
           /\ m' = [m EXCEPT !.pc = "flush", !.call = "Drain"]
  <2>1. /\ m' \in MainType
        /\ m'.pc = "flush" /\ m'.call = "Drain" /\ m'.left = m.left /\ m'.wrote = m.wrote
        /\ m'.size = m.size /\ m'.bytes = m.bytes /\ m'.on = m.on /\ m'.next = m.next
        /\ m'.started = m.started /\ m'.finished = m.finished
    BY <1>3, CompressorInv DEF CompressorInv, TypeInv, MainType, MainPcs, Ending
  <2>. QED
    BY <1>1, <1>3, <2>1
<1>4. CASE /\ ~m.finished
           /\ m' = [m EXCEPT !.pc = "satisfy", !.on = "Input", !.next = "progress"]
  <2>1. /\ m' \in MainType
        /\ m'.pc = "satisfy" /\ m'.on = "Input" /\ m'.next = "progress"
        /\ m'.call = m.call /\ m'.left = m.left /\ m'.wrote = m.wrote /\ m'.size = m.size
        /\ m'.bytes = m.bytes /\ m'.started = m.started /\ m'.finished = m.finished
    BY <1>4, CompressorInv DEF CompressorInv, TypeInv, MainType, MainPcs, Ending
  <2>. QED
    BY <1>1, <1>4, <2>1
<1>. QED
  BY <1>1, <1>2, <1>3, <1>4

\* What SatisfyWorkerWait does to each variable.
LEMMA SatisfyWorkerWaitDoes ==
    ASSUME CompressorInv, SatisfyWorkerWait
    PROVE  /\ m.pc \in {"satisfy", "wake"}
           /\ UNCHANGED <<inRing, outRing, noMoreInput, encodeResult, timer, mt, wpc,
                          rd, wr, enc, supplied, accepted, written, streams, faults>>
           /\ \/ /\ m.pc = "satisfy"
                 /\ m.on = "Input"
                 /\ ev["WorkerWaitingOnInput"]
                 /\ m' \in MainType
                 /\ m'.pc = "wake" /\ m'.call = m.call /\ m'.left = m.left /\ m'.wrote = m.wrote
                 /\ m'.size = m.size /\ m'.bytes = m.bytes /\ m'.on = m.on /\ m'.next = m.next
                 /\ m'.started = m.started /\ m'.finished = m.finished
                 /\ ev' \in [Events -> BOOLEAN]
                 /\ ~ev'["WorkerWaitingOnInput"]
                 /\ \A e \in Events \ {"WorkerWaitingOnInput"} : ev'[e] = ev[e]
              \/ /\ m.pc = "satisfy"
                 /\ m.on = "Output"
                 /\ ev["WorkerWaitingOnOutput"]
                 /\ m' \in MainType
                 /\ m'.pc = "wake" /\ m'.call = m.call /\ m'.left = m.left /\ m'.wrote = m.wrote
                 /\ m'.size = m.size /\ m'.bytes = m.bytes /\ m'.on = m.on /\ m'.next = m.next
                 /\ m'.started = m.started /\ m'.finished = m.finished
                 /\ ev' \in [Events -> BOOLEAN]
                 /\ ~ev'["WorkerWaitingOnOutput"]
                 /\ \A e \in Events \ {"WorkerWaitingOnOutput"} : ev'[e] = ev[e]
              \/ /\ m.pc = "satisfy"
                 /\ ~ev[WorkerWaitingOn[m.on]]
                 /\ m' \in MainType
                 /\ m'.pc = m.next /\ m'.call = m.call /\ m'.left = m.left /\ m'.wrote = m.wrote
                 /\ m'.size = m.size /\ m'.bytes = m.bytes /\ m'.on = m.on /\ m'.next = m.next
                 /\ m'.started = m.started /\ m'.finished = m.finished
                 /\ UNCHANGED <<ev>>
              \/ /\ m.pc = "wake"
                 /\ m.on = "Input"
                 /\ m' \in MainType
                 /\ m'.pc = m.next /\ m'.call = m.call /\ m'.left = m.left /\ m'.wrote = m.wrote
                 /\ m'.size = m.size /\ m'.bytes = m.bytes /\ m'.on = m.on /\ m'.next = m.next
                 /\ m'.started = m.started /\ m'.finished = m.finished
                 /\ ev' \in [Events -> BOOLEAN]
                 /\ ev'["EndWaitOnInput"]
                 /\ \A e \in Events \ {"EndWaitOnInput"} : ev'[e] = ev[e]
              \/ /\ m.pc = "wake"
                 /\ m.on = "Output"
                 /\ m' \in MainType
                 /\ m'.pc = m.next /\ m'.call = m.call /\ m'.left = m.left /\ m'.wrote = m.wrote
                 /\ m'.size = m.size /\ m'.bytes = m.bytes /\ m'.on = m.on /\ m'.next = m.next
                 /\ m'.started = m.started /\ m'.finished = m.finished
                 /\ ev' \in [Events -> BOOLEAN]
                 /\ ev'["EndWaitOnOutput"]
                 /\ \A e \in Events \ {"EndWaitOnOutput"} : ev'[e] = ev[e]
<1>1. /\ m.pc \in {"satisfy", "wake"}
      /\ UNCHANGED <<inRing, outRing, noMoreInput, encodeResult, timer, mt, wpc, rd,
                     wr, enc, supplied, accepted, written, streams, faults>>
  BY DEF SatisfyWorkerWait, Goto, WorkerWaitingOn, EndWaitOn, shared, worker, history
<1>2. /\ m.on \in {"Input", "Output"}
  BY CompressorInv DEF CompressorInv, TypeInv, MainType
<1>3. \/ /\ m.pc = "satisfy"
         /\ m.on = "Input"
         /\ ev["WorkerWaitingOnInput"]
         /\ m' = [m EXCEPT !.pc = "wake"]
         /\ ev' = [ev EXCEPT !["WorkerWaitingOnInput"] = FALSE]
      \/ /\ m.pc = "satisfy"
         /\ m.on = "Output"
         /\ ev["WorkerWaitingOnOutput"]
         /\ m' = [m EXCEPT !.pc = "wake"]
         /\ ev' = [ev EXCEPT !["WorkerWaitingOnOutput"] = FALSE]
      \/ /\ m.pc = "satisfy"
         /\ ~ev[WorkerWaitingOn[m.on]]
         /\ m' = [m EXCEPT !.pc = m.next]
         /\ UNCHANGED <<ev>>
      \/ /\ m.pc = "wake"
         /\ m.on = "Input"
         /\ m' = [m EXCEPT !.pc = m.next]
         /\ ev' = [ev EXCEPT !["EndWaitOnInput"] = TRUE]
      \/ /\ m.pc = "wake"
         /\ m.on = "Output"
         /\ m' = [m EXCEPT !.pc = m.next]
         /\ ev' = [ev EXCEPT !["EndWaitOnOutput"] = TRUE]
  BY <1>2
     DEF SatisfyWorkerWait, Goto, WorkerWaitingOn, EndWaitOn, shared, worker, history
<1>4. CASE /\ m.pc = "satisfy"
           /\ m.on = "Input"
           /\ ev["WorkerWaitingOnInput"]
           /\ m' = [m EXCEPT !.pc = "wake"]
           /\ ev' = [ev EXCEPT !["WorkerWaitingOnInput"] = FALSE]
  <2>1. /\ m' \in MainType
        /\ m'.pc = "wake" /\ m'.call = m.call /\ m'.left = m.left /\ m'.wrote = m.wrote
        /\ m'.size = m.size /\ m'.bytes = m.bytes /\ m'.on = m.on /\ m'.next = m.next
        /\ m'.started = m.started /\ m'.finished = m.finished
    BY <1>4, <1>2, CompressorInv DEF CompressorInv, TypeInv, MainType, MainPcs, Ending
  <2>2. /\ ev' \in [Events -> BOOLEAN]
        /\ ~ev'["WorkerWaitingOnInput"]
        /\ \A e \in Events \ {"WorkerWaitingOnInput"} : ev'[e] = ev[e]
    BY <1>4, CompressorInv DEF CompressorInv, TypeInv, Events
  <2>. QED
    BY <1>1, <1>4, <2>1, <2>2
<1>5. CASE /\ m.pc = "satisfy"
           /\ m.on = "Output"
           /\ ev["WorkerWaitingOnOutput"]
           /\ m' = [m EXCEPT !.pc = "wake"]
           /\ ev' = [ev EXCEPT !["WorkerWaitingOnOutput"] = FALSE]
  <2>1. /\ m' \in MainType
        /\ m'.pc = "wake" /\ m'.call = m.call /\ m'.left = m.left /\ m'.wrote = m.wrote
        /\ m'.size = m.size /\ m'.bytes = m.bytes /\ m'.on = m.on /\ m'.next = m.next
        /\ m'.started = m.started /\ m'.finished = m.finished
    BY <1>5, <1>2, CompressorInv DEF CompressorInv, TypeInv, MainType, MainPcs, Ending
  <2>2. /\ ev' \in [Events -> BOOLEAN]
        /\ ~ev'["WorkerWaitingOnOutput"]
        /\ \A e \in Events \ {"WorkerWaitingOnOutput"} : ev'[e] = ev[e]
    BY <1>5, CompressorInv DEF CompressorInv, TypeInv, Events
  <2>. QED
    BY <1>1, <1>5, <2>1, <2>2
<1>6. CASE /\ m.pc = "satisfy"
           /\ ~ev[WorkerWaitingOn[m.on]]
           /\ m' = [m EXCEPT !.pc = m.next]
           /\ UNCHANGED <<ev>>
  <2>1. /\ m' \in MainType
        /\ m'.pc = m.next /\ m'.call = m.call /\ m'.left = m.left /\ m'.wrote = m.wrote
        /\ m'.size = m.size /\ m'.bytes = m.bytes /\ m'.on = m.on /\ m'.next = m.next
        /\ m'.started = m.started /\ m'.finished = m.finished
    BY <1>6, <1>2, CompressorInv DEF CompressorInv, TypeInv, MainType, MainPcs, Ending
  <2>. QED
    BY <1>1, <1>6, <2>1
<1>7. CASE /\ m.pc = "wake"
           /\ m.on = "Input"
           /\ m' = [m EXCEPT !.pc = m.next]
           /\ ev' = [ev EXCEPT !["EndWaitOnInput"] = TRUE]
  <2>1. /\ m' \in MainType
        /\ m'.pc = m.next /\ m'.call = m.call /\ m'.left = m.left /\ m'.wrote = m.wrote
        /\ m'.size = m.size /\ m'.bytes = m.bytes /\ m'.on = m.on /\ m'.next = m.next
        /\ m'.started = m.started /\ m'.finished = m.finished
    BY <1>7, <1>2, CompressorInv DEF CompressorInv, TypeInv, MainType, MainPcs, Ending
  <2>2. /\ ev' \in [Events -> BOOLEAN]
        /\ ev'["EndWaitOnInput"]
        /\ \A e \in Events \ {"EndWaitOnInput"} : ev'[e] = ev[e]
    BY <1>7, CompressorInv DEF CompressorInv, TypeInv, Events
  <2>. QED
    BY <1>1, <1>7, <2>1, <2>2
<1>8. CASE /\ m.pc = "wake"
           /\ m.on = "Output"
           /\ m' = [m EXCEPT !.pc = m.next]
           /\ ev' = [ev EXCEPT !["EndWaitOnOutput"] = TRUE]
  <2>1. /\ m' \in MainType
        /\ m'.pc = m.next /\ m'.call = m.call /\ m'.left = m.left /\ m'.wrote = m.wrote
        /\ m'.size = m.size /\ m'.bytes = m.bytes /\ m'.on = m.on /\ m'.next = m.next
        /\ m'.started = m.started /\ m'.finished = m.finished
    BY <1>8, <1>2, CompressorInv DEF CompressorInv, TypeInv, MainType, MainPcs, Ending
  <2>2. /\ ev' \in [Events -> BOOLEAN]
        /\ ev'["EndWaitOnOutput"]
        /\ \A e \in Events \ {"EndWaitOnOutput"} : ev'[e] = ev[e]
    BY <1>8, CompressorInv DEF CompressorInv, TypeInv, Events
  <2>. QED
    BY <1>1, <1>8, <2>1, <2>2
<1>. QED
  BY <1>1, <1>3, <1>4, <1>5, <1>6, <1>7, <1>8

\* What UpdateProgress does to each variable.
LEMMA UpdateProgressDoes ==
    ASSUME CompressorInv, UpdateProgress
    PROVE  /\ m.pc = "progress"
           /\ timer' = FALSE
           /\ UNCHANGED <<inRing, outRing, noMoreInput, encodeResult, ev, mt, wpc, rd,
                          wr, enc, supplied, accepted, written, streams>>
           /\ \/ /\ m' \in MainType
                 /\ m'.pc = "flush" /\ m'.tick = FALSE /\ m'.call = m.call /\ m'.left = m.left
                 /\ m'.wrote = m.wrote /\ m'.size = m.size /\ m'.bytes = m.bytes /\ m'.on = m.on
                 /\ m'.next = m.next /\ m'.started = m.started /\ m'.finished = m.finished
                 /\ UNCHANGED <<faults>>
              \/ /\ m' \in MainType
                 /\ m'.pc = "raised" /\ m'.call = m.call /\ m'.left = m.left /\ m'.wrote = m.wrote
                 /\ m'.size = m.size /\ m'.bytes = m.bytes /\ m'.on = m.on /\ m'.next = m.next
                 /\ m'.started = m.started /\ m'.finished = m.finished
                 /\ faults' = faults + 1
<1>1. /\ m.pc = "progress"
      /\ timer' = FALSE
      /\ UNCHANGED <<inRing, outRing, noMoreInput, encodeResult, ev, mt, wpc, rd, wr,
                     enc, supplied, accepted, written, streams>>
  BY DEF UpdateProgress, Fault, Raise, Goto, shared, worker, history
<1>2. \/ /\ m' = [m EXCEPT !.pc = "flush", !.tick = FALSE]
         /\ UNCHANGED <<faults>>
      \/ /\ m' = [m EXCEPT !.pc = "raised"]
         /\ faults' = faults + 1
  BY DEF UpdateProgress, Fault, Raise, Goto, shared, worker, history
<1>3. CASE /\ m' = [m EXCEPT !.pc = "flush", !.tick = FALSE]
           /\ UNCHANGED <<faults>>
  <2>1. /\ m' \in MainType
        /\ m'.pc = "flush" /\ m'.tick = FALSE /\ m'.call = m.call /\ m'.left = m.left
        /\ m'.wrote = m.wrote /\ m'.size = m.size /\ m'.bytes = m.bytes /\ m'.on = m.on
        /\ m'.next = m.next /\ m'.started = m.started /\ m'.finished = m.finished
    BY <1>3, CompressorInv DEF CompressorInv, TypeInv, MainType, MainPcs, Ending
  <2>. QED
    BY <1>1, <1>3, <2>1
<1>4. CASE /\ m' = [m EXCEPT !.pc = "raised"]
           /\ faults' = faults + 1
  <2>1. /\ m' \in MainType
        /\ m'.pc = "raised" /\ m'.call = m.call /\ m'.left = m.left /\ m'.wrote = m.wrote
        /\ m'.size = m.size /\ m'.bytes = m.bytes /\ m'.on = m.on /\ m'.next = m.next
        /\ m'.started = m.started /\ m'.finished = m.finished
    BY <1>4, CompressorInv DEF CompressorInv, TypeInv, MainType, MainPcs, Ending
  <2>. QED
    BY <1>1, <1>4, <2>1
<1>. QED
  BY <1>1, <1>2, <1>3, <1>4

\* What FlushOutputBuffer does to each variable.
LEMMA FlushOutputBufferDoes ==
    ASSUME CompressorInv, FlushOutputBuffer
    PROVE  /\ m.pc = "flush"
           /\ UNCHANGED <<inRing, outRing, noMoreInput, encodeResult, ev, timer, mt,
                          wpc, rd, wr, enc, supplied, accepted, written, streams,
                          faults>>
           /\ \/ /\ outRing.count = 0 \/ m.call # "DrainAll"
                 /\ m' \in MainType
                 /\ m'.pc = "satisfy" /\ m'.on = "Output" /\ m'.next = "flushed"
                 /\ m'.call = m.call /\ m'.left = m.left /\ m'.wrote = m.wrote /\ m'.size = m.size
                 /\ m'.bytes = m.bytes /\ m'.started = m.started /\ m'.finished = m.finished
              \/ /\ outRing.count # 0
                 /\ m' \in MainType
                 /\ m'.pc = "call" /\ m'.size = Least(outRing.count, OptimalFlushSize)
                 /\ m'.call = m.call /\ m'.left = m.left /\ m'.wrote = m.wrote
                 /\ m'.bytes = m.bytes /\ m'.on = m.on /\ m'.next = m.next
                 /\ m'.started = m.started /\ m'.finished = m.finished
<1>1. /\ m.pc = "flush"
      /\ UNCHANGED <<inRing, outRing, noMoreInput, encodeResult, ev, timer, mt, wpc,
                     rd, wr, enc, supplied, accepted, written, streams, faults>>
  BY DEF FlushOutputBuffer, Satisfy, shared, worker, history
<1>2. /\ Least(outRing.count, OptimalFlushSize) \in Nat
  BY CompressorInv, BufferAssumption DEF CompressorInv, TypeInv, RingTypes, Least
<1>3. \/ /\ outRing.count = 0 \/ m.call # "DrainAll"
         /\ m' = [m EXCEPT !.pc = "satisfy", !.on = "Output", !.next = "flushed"]
      \/ /\ outRing.count # 0
         /\ m' = [m EXCEPT !.pc = "call", !.size = Least(outRing.count, OptimalFlushSize)]
  BY DEF FlushOutputBuffer, Satisfy, shared, worker, history
<1>4. CASE /\ outRing.count = 0 \/ m.call # "DrainAll"
           /\ m' = [m EXCEPT !.pc = "satisfy", !.on = "Output", !.next = "flushed"]
  <2>1. /\ m' \in MainType
        /\ m'.pc = "satisfy" /\ m'.on = "Output" /\ m'.next = "flushed"
        /\ m'.call = m.call /\ m'.left = m.left /\ m'.wrote = m.wrote /\ m'.size = m.size
        /\ m'.bytes = m.bytes /\ m'.started = m.started /\ m'.finished = m.finished
    BY <1>4, <1>2, CompressorInv DEF CompressorInv, TypeInv, MainType, MainPcs, Ending
  <2>. QED
    BY <1>1, <1>4, <2>1
<1>5. CASE /\ outRing.count # 0
           /\ m' = [m EXCEPT !.pc = "call", !.size = Least(outRing.count, OptimalFlushSize)]
  <2>1. /\ m' \in MainType
        /\ m'.pc = "call" /\ m'.size = Least(outRing.count, OptimalFlushSize)
        /\ m'.call = m.call /\ m'.left = m.left /\ m'.wrote = m.wrote
        /\ m'.bytes = m.bytes /\ m'.on = m.on /\ m'.next = m.next
        /\ m'.started = m.started /\ m'.finished = m.finished
    BY <1>5, <1>2, CompressorInv DEF CompressorInv, TypeInv, MainType, MainPcs, Ending
  <2>. QED
    BY <1>1, <1>5, <2>1
<1>. QED
  BY <1>1, <1>3, <1>4, <1>5

\* What CallWriteProc does to each variable.
LEMMA CallWriteProcDoes ==
    ASSUME CompressorInv, CallWriteProc
    PROVE  /\ m.pc = "call"
           /\ UNCHANGED <<inRing, outRing, noMoreInput, encodeResult, ev, timer, mt,
                          wpc, rd, wr, enc, supplied, accepted, streams>>
           /\ \/ /\ m' \in MainType
                 /\ m'.pc = "sub" /\ m'.bytes = ReadBytes(outRing, m.size) /\ m'.call = m.call
                 /\ m'.left = m.left /\ m'.wrote = m.wrote /\ m'.size = m.size /\ m'.on = m.on
                 /\ m'.next = m.next /\ m'.started = m.started /\ m'.finished = m.finished
                 /\ written' = written \o MoveOut(outRing, ReadBytes(outRing, m.size))
                 /\ UNCHANGED <<faults>>
              \/ /\ m' \in MainType
                 /\ m'.pc = "raised" /\ m'.call = m.call /\ m'.left = m.left /\ m'.wrote = m.wrote
                 /\ m'.size = m.size /\ m'.bytes = m.bytes /\ m'.on = m.on /\ m'.next = m.next
                 /\ m'.started = m.started /\ m'.finished = m.finished
                 /\ faults' = faults + 1
                 /\ UNCHANGED <<written>>
<1>1. /\ m.pc = "call"
      /\ UNCHANGED <<inRing, outRing, noMoreInput, encodeResult, ev, timer, mt, wpc,
                     rd, wr, enc, supplied, accepted, streams>>
  BY DEF CallWriteProc, Fault, Raise, Goto, shared, worker, history
<1>2. /\ ReadBytes(outRing, m.size) \in Nat
  BY CompressorInv, ReadBytesFit DEF CompressorInv, TypeInv, MainType
<1>3. \/ /\ m' = [m EXCEPT !.pc = "sub", !.bytes = ReadBytes(outRing, m.size)]
         /\ written' = written \o MoveOut(outRing, ReadBytes(outRing, m.size))
         /\ UNCHANGED <<faults>>
      \/ /\ m' = [m EXCEPT !.pc = "raised"]
         /\ faults' = faults + 1
         /\ UNCHANGED <<written>>
  BY DEF CallWriteProc, Fault, Raise, Goto, shared, worker, history
<1>4. CASE /\ m' = [m EXCEPT !.pc = "sub", !.bytes = ReadBytes(outRing, m.size)]
           /\ written' = written \o MoveOut(outRing, ReadBytes(outRing, m.size))
           /\ UNCHANGED <<faults>>
  <2>1. /\ m' \in MainType
        /\ m'.pc = "sub" /\ m'.bytes = ReadBytes(outRing, m.size) /\ m'.call = m.call
        /\ m'.left = m.left /\ m'.wrote = m.wrote /\ m'.size = m.size /\ m'.on = m.on
        /\ m'.next = m.next /\ m'.started = m.started /\ m'.finished = m.finished
    BY <1>4, <1>2, CompressorInv DEF CompressorInv, TypeInv, MainType, MainPcs, Ending
  <2>. QED
    BY <1>1, <1>4, <2>1
<1>5. CASE /\ m' = [m EXCEPT !.pc = "raised"]
           /\ faults' = faults + 1
           /\ UNCHANGED <<written>>
  <2>1. /\ m' \in MainType
        /\ m'.pc = "raised" /\ m'.call = m.call /\ m'.left = m.left /\ m'.wrote = m.wrote
        /\ m'.size = m.size /\ m'.bytes = m.bytes /\ m'.on = m.on /\ m'.next = m.next
        /\ m'.started = m.started /\ m'.finished = m.finished
    BY <1>5, <1>2, CompressorInv DEF CompressorInv, TypeInv, MainType, MainPcs, Ending
  <2>. QED
    BY <1>1, <1>5, <2>1
<1>. QED
  BY <1>1, <1>3, <1>4, <1>5

\* What ReadToCallbackDone does to each variable.
LEMMA ReadToCallbackDoneDoes ==
    ASSUME CompressorInv, ReadToCallbackDone
    PROVE  /\ m.pc = "sub"
           /\ outRing' = SubCount(outRing, m.bytes)
           /\ UNCHANGED <<inRing, noMoreInput, encodeResult, ev, timer, mt, wpc, rd,
                          wr, enc, supplied, accepted, written, streams, faults>>
           /\ \/ /\ m.size - m.bytes > 0
                 /\ m' \in MainType
                 /\ m'.pc = "call" /\ m'.size = m.size - m.bytes /\ m'.bytes = 0
                 /\ m'.call = m.call /\ m'.left = m.left /\ m'.wrote = m.wrote /\ m'.on = m.on
                 /\ m'.next = m.next /\ m'.started = m.started /\ m'.finished = m.finished
              \/ /\ ~(m.size - m.bytes > 0)
                 /\ m' \in MainType
                 /\ m'.pc = "satisfy" /\ m'.size = 0 /\ m'.bytes = 0 /\ m'.on = "Output"
                 /\ m'.next = "flush" /\ m'.call = m.call /\ m'.left = m.left
                 /\ m'.wrote = m.wrote /\ m'.started = m.started /\ m'.finished = m.finished
<1>1. /\ m.pc = "sub"
      /\ outRing' = SubCount(outRing, m.bytes)
      /\ UNCHANGED <<inRing, noMoreInput, encodeResult, ev, timer, mt, wpc, rd, wr,
                     enc, supplied, accepted, written, streams, faults>>
  BY DEF ReadToCallbackDone, worker, history
<1>2. /\ m.size - m.bytes \in Nat
  BY <1>1, CompressorInv DEF CompressorInv, MoveInv, TypeInv, MainType
<1>3. \/ /\ m.size - m.bytes > 0
         /\ m' = [m EXCEPT !.pc = "call", !.size = m.size - m.bytes, !.bytes = 0]
      \/ /\ ~(m.size - m.bytes > 0)
         /\ m' = [m EXCEPT !.pc = "satisfy", !.on = "Output", !.next = "flush", !.size = 0, !.bytes = 0]
  BY DEF ReadToCallbackDone, worker, history
<1>4. CASE /\ m.size - m.bytes > 0
           /\ m' = [m EXCEPT !.pc = "call", !.size = m.size - m.bytes, !.bytes = 0]
  <2>1. /\ m' \in MainType
        /\ m'.pc = "call" /\ m'.size = m.size - m.bytes /\ m'.bytes = 0
        /\ m'.call = m.call /\ m'.left = m.left /\ m'.wrote = m.wrote /\ m'.on = m.on
        /\ m'.next = m.next /\ m'.started = m.started /\ m'.finished = m.finished
    BY <1>4, <1>2, CompressorInv DEF CompressorInv, TypeInv, MainType, MainPcs, Ending
  <2>. QED
    BY <1>1, <1>4, <2>1
<1>5. CASE /\ ~(m.size - m.bytes > 0)
           /\ m' = [m EXCEPT !.pc = "satisfy", !.on = "Output", !.next = "flush", !.size = 0, !.bytes = 0]
  <2>1. /\ m' \in MainType
        /\ m'.pc = "satisfy" /\ m'.size = 0 /\ m'.bytes = 0 /\ m'.on = "Output"
        /\ m'.next = "flush" /\ m'.call = m.call /\ m'.left = m.left
        /\ m'.wrote = m.wrote /\ m'.started = m.started /\ m'.finished = m.finished
    BY <1>5, <1>2, CompressorInv DEF CompressorInv, TypeInv, MainType, MainPcs, Ending
  <2>. QED
    BY <1>1, <1>5, <2>1
<1>. QED
  BY <1>1, <1>3, <1>4, <1>5

\* What FlushReturns does to each variable.
LEMMA FlushReturnsDoes ==
    ASSUME CompressorInv, FlushReturns
    PROVE  /\ m.pc = "flushed"
           /\ UNCHANGED <<inRing, outRing, noMoreInput, encodeResult, ev, timer, mt,
                          wpc, rd, wr, enc, supplied, accepted, written, streams,
                          faults>>
           /\ \/ /\ m.call = "Compress"
                 /\ m' \in MainType
                 /\ m'.pc = "write" /\ m'.call = m.call /\ m'.left = m.left /\ m'.wrote = m.wrote
                 /\ m'.size = m.size /\ m'.bytes = m.bytes /\ m'.on = m.on /\ m'.next = m.next
                 /\ m'.started = m.started /\ m'.finished = m.finished
              \/ /\ m.call = "Finish"
                 /\ m' \in MainType
                 /\ m'.pc = "wait" /\ m'.call = m.call /\ m'.left = m.left /\ m'.wrote = m.wrote
                 /\ m'.size = m.size /\ m'.bytes = m.bytes /\ m'.on = m.on /\ m'.next = m.next
                 /\ m'.started = m.started /\ m'.finished = m.finished
              \/ /\ m.call = "Drain"
                 /\ m' \in MainType
                 /\ m'.pc = "flush" /\ m'.call = "DrainAll" /\ m'.left = m.left
                 /\ m'.wrote = m.wrote /\ m'.size = m.size /\ m'.bytes = m.bytes /\ m'.on = m.on
                 /\ m'.next = m.next /\ m'.started = m.started /\ m'.finished = m.finished
              \/ /\ m.call = "DrainAll"
                 /\ m' \in MainType
                 /\ m'.pc = "check" /\ m'.call = m.call /\ m'.left = m.left /\ m'.wrote = m.wrote
                 /\ m'.size = m.size /\ m'.bytes = m.bytes /\ m'.on = m.on /\ m'.next = m.next
                 /\ m'.started = m.started /\ m'.finished = m.finished
<1>1. /\ m.pc = "flushed"
      /\ UNCHANGED <<inRing, outRing, noMoreInput, encodeResult, ev, timer, mt, wpc,
                     rd, wr, enc, supplied, accepted, written, streams, faults>>
  BY DEF FlushReturns, Goto, Ending, shared, worker, history
<1>2. /\ m.call \in {"Compress"} \union Ending
  BY <1>1, CompressorInv DEF CompressorInv, FlowInv, TypeInv, MainType
<1>3. \/ /\ m.call = "Compress"
         /\ m' = [m EXCEPT !.pc = "write"]
      \/ /\ m.call = "Finish"
         /\ m' = [m EXCEPT !.pc = "wait"]
      \/ /\ m.call = "Drain"
         /\ m' = [m EXCEPT !.pc = "flush", !.call = "DrainAll"]
      \/ /\ m.call = "DrainAll"
         /\ m' = [m EXCEPT !.pc = "check"]
  BY <1>2 DEF FlushReturns, Goto, Ending, shared, worker, history
<1>4. CASE /\ m.call = "Compress"
           /\ m' = [m EXCEPT !.pc = "write"]
  <2>1. /\ m' \in MainType
        /\ m'.pc = "write" /\ m'.call = m.call /\ m'.left = m.left /\ m'.wrote = m.wrote
        /\ m'.size = m.size /\ m'.bytes = m.bytes /\ m'.on = m.on /\ m'.next = m.next
        /\ m'.started = m.started /\ m'.finished = m.finished
    BY <1>4, <1>2, CompressorInv DEF CompressorInv, TypeInv, MainType, MainPcs, Ending
  <2>. QED
    BY <1>1, <1>4, <2>1
<1>5. CASE /\ m.call = "Finish"
           /\ m' = [m EXCEPT !.pc = "wait"]
  <2>1. /\ m' \in MainType
        /\ m'.pc = "wait" /\ m'.call = m.call /\ m'.left = m.left /\ m'.wrote = m.wrote
        /\ m'.size = m.size /\ m'.bytes = m.bytes /\ m'.on = m.on /\ m'.next = m.next
        /\ m'.started = m.started /\ m'.finished = m.finished
    BY <1>5, <1>2, CompressorInv DEF CompressorInv, TypeInv, MainType, MainPcs, Ending
  <2>. QED
    BY <1>1, <1>5, <2>1
<1>6. CASE /\ m.call = "Drain"
           /\ m' = [m EXCEPT !.pc = "flush", !.call = "DrainAll"]
  <2>1. /\ m' \in MainType
        /\ m'.pc = "flush" /\ m'.call = "DrainAll" /\ m'.left = m.left
        /\ m'.wrote = m.wrote /\ m'.size = m.size /\ m'.bytes = m.bytes /\ m'.on = m.on
        /\ m'.next = m.next /\ m'.started = m.started /\ m'.finished = m.finished
    BY <1>6, <1>2, CompressorInv DEF CompressorInv, TypeInv, MainType, MainPcs, Ending
  <2>. QED
    BY <1>1, <1>6, <2>1
<1>7. CASE /\ m.call = "DrainAll"
           /\ m' = [m EXCEPT !.pc = "check"]
  <2>1. /\ m' \in MainType
        /\ m'.pc = "check" /\ m'.call = m.call /\ m'.left = m.left /\ m'.wrote = m.wrote
        /\ m'.size = m.size /\ m'.bytes = m.bytes /\ m'.on = m.on /\ m'.next = m.next
        /\ m'.started = m.started /\ m'.finished = m.finished
    BY <1>7, <1>2, CompressorInv DEF CompressorInv, TypeInv, MainType, MainPcs, Ending
  <2>. QED
    BY <1>1, <1>7, <2>1
<1>. QED
  BY <1>1, <1>3, <1>4, <1>5, <1>6, <1>7

\* What WriteInput does to each variable.
LEMMA WriteInputDoes ==
    ASSUME CompressorInv, WriteInput
    PROVE  /\ m.pc = "write"
           /\ UNCHANGED <<outRing, noMoreInput, encodeResult, ev, timer, mt, wpc, rd,
                          wr, enc, supplied, accepted, written, streams, faults>>
           /\ \/ /\ WriteBytes(inRing, m.left - m.wrote) > 0
                 /\ inRing' = MoveIn(inRing, [i \in 1 .. WriteBytes(inRing, m.left - m.wrote) |-> supplied + i],
                                                    WriteBytes(inRing, m.left - m.wrote))
                 /\ m' \in MainType
                 /\ m'.pc = "add" /\ m'.bytes = WriteBytes(inRing, m.left - m.wrote)
                 /\ m'.call = m.call /\ m'.left = m.left /\ m'.wrote = m.wrote /\ m'.size = m.size
                 /\ m'.on = m.on /\ m'.next = m.next /\ m'.started = m.started
                 /\ m'.finished = m.finished
              \/ /\ m.wrote = 0
                 /\ m' \in MainType
                 /\ m'.pc = "satisfy" /\ m'.on = "Input" /\ m'.next = "wait" /\ m'.call = m.call
                 /\ m'.left = m.left /\ m'.wrote = m.wrote /\ m'.size = m.size
                 /\ m'.bytes = m.bytes /\ m'.started = m.started /\ m'.finished = m.finished
                 /\ UNCHANGED <<inRing>>
              \/ /\ m' \in MainType
                 /\ m'.pc = "satisfy" /\ m'.left = m.left - m.wrote /\ m'.wrote = 0
                 /\ m'.on = "Input" /\ m'.next = "top" /\ m'.call = m.call /\ m'.size = m.size
                 /\ m'.bytes = m.bytes /\ m'.started = m.started /\ m'.finished = m.finished
                 /\ UNCHANGED <<inRing>>
              \/ /\ m' \in MainType
                 /\ m'.pc = "top" /\ m'.left = m.left - m.wrote /\ m'.wrote = 0 /\ m'.on = "Input"
                 /\ m'.next = "top" /\ m'.call = m.call /\ m'.size = m.size /\ m'.bytes = m.bytes
                 /\ m'.started = m.started /\ m'.finished = m.finished
                 /\ UNCHANGED <<inRing>>
<1>1. /\ m.pc = "write"
      /\ UNCHANGED <<outRing, noMoreInput, encodeResult, ev, timer, mt, wpc, rd, wr,
                     enc, supplied, accepted, written, streams, faults>>
  BY DEF WriteInput, Satisfy, worker, history
<1>2. /\ m.left - m.wrote \in Nat
      /\ WriteBytes(inRing, m.left - m.wrote) \in Nat
  <2>1. m.left - m.wrote \in Nat
    BY <1>1, CompressorInv DEF CompressorInv, FlowInv, Closed, TypeInv, MainType
  <2>. QED
    BY <2>1, CompressorInv, WriteBytesFit DEF CompressorInv, TypeInv
<1>3. \/ /\ WriteBytes(inRing, m.left - m.wrote) > 0
         /\ inRing' = MoveIn(inRing, [i \in 1 .. WriteBytes(inRing, m.left - m.wrote) |-> supplied + i],
                                            WriteBytes(inRing, m.left - m.wrote))
         /\ m' = [m EXCEPT !.pc = "add", !.bytes = WriteBytes(inRing, m.left - m.wrote)]
      \/ /\ m.wrote = 0
         /\ m' = [m EXCEPT !.pc = "satisfy", !.on = "Input", !.next = "wait"]
         /\ UNCHANGED <<inRing>>
      \/ /\ m' = [m EXCEPT !.pc = "satisfy", !.on = "Input", !.next = "top",
                           !.left = m.left - m.wrote, !.wrote = 0]
         /\ UNCHANGED <<inRing>>
      \/ /\ m' = [m EXCEPT !.pc = "top", !.on = "Input", !.next = "top", !.left = m.left - m.wrote, !.wrote = 0]
         /\ UNCHANGED <<inRing>>
  BY DEF WriteInput, Satisfy, worker, history
<1>4. CASE /\ WriteBytes(inRing, m.left - m.wrote) > 0
           /\ inRing' = MoveIn(inRing, [i \in 1 .. WriteBytes(inRing, m.left - m.wrote) |-> supplied + i],
                                              WriteBytes(inRing, m.left - m.wrote))
           /\ m' = [m EXCEPT !.pc = "add", !.bytes = WriteBytes(inRing, m.left - m.wrote)]
  <2>1. /\ m' \in MainType
        /\ m'.pc = "add" /\ m'.bytes = WriteBytes(inRing, m.left - m.wrote)
        /\ m'.call = m.call /\ m'.left = m.left /\ m'.wrote = m.wrote /\ m'.size = m.size
        /\ m'.on = m.on /\ m'.next = m.next /\ m'.started = m.started
        /\ m'.finished = m.finished
    BY <1>4, <1>2, CompressorInv DEF CompressorInv, TypeInv, MainType, MainPcs, Ending
  <2>. QED
    BY <1>1, <1>4, <2>1
<1>5. CASE /\ m.wrote = 0
           /\ m' = [m EXCEPT !.pc = "satisfy", !.on = "Input", !.next = "wait"]
           /\ UNCHANGED <<inRing>>
  <2>1. /\ m' \in MainType
        /\ m'.pc = "satisfy" /\ m'.on = "Input" /\ m'.next = "wait" /\ m'.call = m.call
        /\ m'.left = m.left /\ m'.wrote = m.wrote /\ m'.size = m.size
        /\ m'.bytes = m.bytes /\ m'.started = m.started /\ m'.finished = m.finished
    BY <1>5, <1>2, CompressorInv DEF CompressorInv, TypeInv, MainType, MainPcs, Ending
  <2>. QED
    BY <1>1, <1>5, <2>1
<1>6. CASE /\ m' = [m EXCEPT !.pc = "satisfy", !.on = "Input", !.next = "top",
                             !.left = m.left - m.wrote, !.wrote = 0]
           /\ UNCHANGED <<inRing>>
  <2>1. /\ m' \in MainType
        /\ m'.pc = "satisfy" /\ m'.left = m.left - m.wrote /\ m'.wrote = 0
        /\ m'.on = "Input" /\ m'.next = "top" /\ m'.call = m.call /\ m'.size = m.size
        /\ m'.bytes = m.bytes /\ m'.started = m.started /\ m'.finished = m.finished
    BY <1>6, <1>2, CompressorInv DEF CompressorInv, TypeInv, MainType, MainPcs, Ending
  <2>. QED
    BY <1>1, <1>6, <2>1
<1>7. CASE /\ m' = [m EXCEPT !.pc = "top", !.on = "Input", !.next = "top",
                             !.left = m.left - m.wrote, !.wrote = 0]
           /\ UNCHANGED <<inRing>>
  <2>1. /\ m' \in MainType
        /\ m'.pc = "top" /\ m'.left = m.left - m.wrote /\ m'.wrote = 0 /\ m'.on = "Input"
        /\ m'.next = "top" /\ m'.call = m.call /\ m'.size = m.size /\ m'.bytes = m.bytes
        /\ m'.started = m.started /\ m'.finished = m.finished
    BY <1>7, <1>2, CompressorInv DEF CompressorInv, TypeInv, MainType, MainPcs, Ending
  <2>. QED
    BY <1>1, <1>7, <2>1
<1>. QED
  BY <1>1, <1>3, <1>4, <1>5, <1>6, <1>7

\* What PublishInput does to each variable.
LEMMA PublishInputDoes ==
    ASSUME CompressorInv, PublishInput
    PROVE  /\ m.pc = "add"
           /\ UNCHANGED <<outRing, noMoreInput, encodeResult, ev, timer, mt, wpc, rd,
                          wr, enc, accepted, written, streams, faults>>
           /\ m' \in MainType
           /\ m'.pc = "write" /\ m'.wrote = m.wrote + m.bytes /\ m'.bytes = 0
           /\ m'.call = m.call /\ m'.left = m.left /\ m'.size = m.size /\ m'.on = m.on
           /\ m'.next = m.next /\ m'.started = m.started /\ m'.finished = m.finished
           /\ inRing' = AddCount(inRing, m.bytes)
           /\ supplied' = supplied + m.bytes
<1>1. /\ m.pc = "add"
      /\ UNCHANGED <<outRing, noMoreInput, encodeResult, ev, timer, mt, wpc, rd, wr,
                     enc, accepted, written, streams, faults>>
  BY DEF PublishInput, worker
<1>2. /\ m.wrote + m.bytes \in Nat /\ 0 \in Nat
  BY CompressorInv DEF CompressorInv, TypeInv, MainType
<1>3. /\ m' = [m EXCEPT !.pc = "write", !.wrote = m.wrote + m.bytes, !.bytes = 0]
      /\ inRing' = AddCount(inRing, m.bytes)
      /\ supplied' = supplied + m.bytes
  BY DEF PublishInput, worker
<1>4. /\ m' \in MainType
      /\ m'.pc = "write" /\ m'.wrote = m.wrote + m.bytes /\ m'.bytes = 0
      /\ m'.call = m.call /\ m'.left = m.left /\ m'.size = m.size /\ m'.on = m.on
      /\ m'.next = m.next /\ m'.started = m.started /\ m'.finished = m.finished
  BY <1>3, <1>2, CompressorInv DEF CompressorInv, TypeInv, MainType, MainPcs, Ending
<1>. QED
  BY <1>1, <1>3, <1>4

\* What WaitForWorkerEvent does to each variable.
LEMMA WaitForWorkerEventDoes ==
    ASSUME CompressorInv, WaitForWorkerEvent
    PROVE  /\ m.pc = "wait"
           /\ UNCHANGED <<inRing, outRing, noMoreInput, encodeResult, ev, mt, wpc, rd,
                          wr, enc, supplied, accepted, written, streams, faults>>
           /\ \/ /\ wpc = "exited"
                 /\ m' \in MainType
                 /\ m'.pc = "raised" /\ m'.call = m.call /\ m'.left = m.left /\ m'.wrote = m.wrote
                 /\ m'.size = m.size /\ m'.bytes = m.bytes /\ m'.on = m.on /\ m'.next = m.next
                 /\ m'.started = m.started /\ m'.finished = m.finished
                 /\ UNCHANGED <<timer>>
              \/ /\ ev["WorkerEncodeFinished"]
                 /\ m' \in MainType
                 /\ m'.pc = "top" /\ m'.finished = TRUE /\ m'.call = m.call /\ m'.left = m.left
                 /\ m'.wrote = m.wrote /\ m'.size = m.size /\ m'.bytes = m.bytes /\ m'.on = m.on
                 /\ m'.next = m.next /\ m'.started = m.started
                 /\ UNCHANGED <<timer>>
              \/ /\ m' \in MainType
                 /\ m'.pc = "top" /\ m'.tick = TRUE /\ m'.call = m.call /\ m'.left = m.left
                 /\ m'.wrote = m.wrote /\ m'.size = m.size /\ m'.bytes = m.bytes /\ m'.on = m.on
                 /\ m'.next = m.next /\ m'.started = m.started /\ m'.finished = m.finished
                 /\ timer' = FALSE
              \/ /\ m' \in MainType
                 /\ m'.pc = "top" /\ m'.call = m.call /\ m'.left = m.left /\ m'.wrote = m.wrote
                 /\ m'.size = m.size /\ m'.bytes = m.bytes /\ m'.on = m.on /\ m'.next = m.next
                 /\ m'.started = m.started /\ m'.finished = m.finished
                 /\ UNCHANGED <<timer>>
<1>1. /\ m.pc = "wait"
      /\ UNCHANGED <<inRing, outRing, noMoreInput, encodeResult, ev, mt, wpc, rd, wr,
                     enc, supplied, accepted, written, streams, faults>>
  BY DEF WaitForWorkerEvent, Raise, Goto, shared, worker, history
<1>2. \/ /\ wpc = "exited"
         /\ m' = [m EXCEPT !.pc = "raised"]
         /\ UNCHANGED <<timer>>
      \/ /\ ev["WorkerEncodeFinished"]
         /\ m' = [m EXCEPT !.pc = "top", !.finished = TRUE]
         /\ UNCHANGED <<timer>>
      \/ /\ m' = [m EXCEPT !.pc = "top", !.tick = TRUE]
         /\ timer' = FALSE
      \/ /\ m' = [m EXCEPT !.pc = "top"]
         /\ UNCHANGED <<timer>>
  BY DEF WaitForWorkerEvent, Raise, Goto, shared, worker, history
<1>3. CASE /\ wpc = "exited"
           /\ m' = [m EXCEPT !.pc = "raised"]
           /\ UNCHANGED <<timer>>
  <2>1. /\ m' \in MainType
        /\ m'.pc = "raised" /\ m'.call = m.call /\ m'.left = m.left /\ m'.wrote = m.wrote
        /\ m'.size = m.size /\ m'.bytes = m.bytes /\ m'.on = m.on /\ m'.next = m.next
        /\ m'.started = m.started /\ m'.finished = m.finished
    BY <1>3, CompressorInv DEF CompressorInv, TypeInv, MainType, MainPcs, Ending
  <2>. QED
    BY <1>1, <1>3, <2>1
<1>4. CASE /\ ev["WorkerEncodeFinished"]
           /\ m' = [m EXCEPT !.pc = "top", !.finished = TRUE]
           /\ UNCHANGED <<timer>>
  <2>1. /\ m' \in MainType
        /\ m'.pc = "top" /\ m'.finished = TRUE /\ m'.call = m.call /\ m'.left = m.left
        /\ m'.wrote = m.wrote /\ m'.size = m.size /\ m'.bytes = m.bytes /\ m'.on = m.on
        /\ m'.next = m.next /\ m'.started = m.started
    BY <1>4, CompressorInv DEF CompressorInv, TypeInv, MainType, MainPcs, Ending
  <2>. QED
    BY <1>1, <1>4, <2>1
<1>5. CASE /\ m' = [m EXCEPT !.pc = "top", !.tick = TRUE]
           /\ timer' = FALSE
  <2>1. /\ m' \in MainType
        /\ m'.pc = "top" /\ m'.tick = TRUE /\ m'.call = m.call /\ m'.left = m.left
        /\ m'.wrote = m.wrote /\ m'.size = m.size /\ m'.bytes = m.bytes /\ m'.on = m.on
        /\ m'.next = m.next /\ m'.started = m.started /\ m'.finished = m.finished
    BY <1>5, CompressorInv DEF CompressorInv, TypeInv, MainType, MainPcs, Ending
  <2>. QED
    BY <1>1, <1>5, <2>1
<1>6. CASE /\ m' = [m EXCEPT !.pc = "top"]
           /\ UNCHANGED <<timer>>
  <2>1. /\ m' \in MainType
        /\ m'.pc = "top" /\ m'.call = m.call /\ m'.left = m.left /\ m'.wrote = m.wrote
        /\ m'.size = m.size /\ m'.bytes = m.bytes /\ m'.on = m.on /\ m'.next = m.next
        /\ m'.started = m.started /\ m'.finished = m.finished
    BY <1>6, CompressorInv DEF CompressorInv, TypeInv, MainType, MainPcs, Ending
  <2>. QED
    BY <1>1, <1>6, <2>1
<1>. QED
  BY <1>1, <1>2, <1>3, <1>4, <1>5, <1>6

\* What CheckResult does to each variable.
LEMMA CheckResultDoes ==
    ASSUME CompressorInv, CheckResult
    PROVE  /\ m.pc = "check"
           /\ UNCHANGED <<inRing, outRing, noMoreInput, encodeResult, ev, timer, mt,
                          wpc, rd, wr, enc, supplied, faults>>
           /\ \/ /\ encodeResult # "SZ_OK" \/ inRing.count # 0
                 /\ m' \in MainType
                 /\ m'.pc = "raised" /\ m'.call = m.call /\ m'.left = m.left /\ m'.wrote = m.wrote
                 /\ m'.size = m.size /\ m'.bytes = m.bytes /\ m'.on = m.on /\ m'.next = m.next
                 /\ m'.started = m.started /\ m'.finished = m.finished
                 /\ UNCHANGED <<accepted, written, streams>>
              \/ /\ encodeResult = "SZ_OK"
                 /\ m' \in MainType
                 /\ m'.pc = "idle" /\ m'.call = "none" /\ m'.started = FALSE /\ m'.left = m.left
                 /\ m'.wrote = m.wrote /\ m'.size = m.size /\ m'.bytes = m.bytes /\ m'.on = m.on
                 /\ m'.next = m.next /\ m'.finished = m.finished
                 /\ accepted' = 0
                 /\ written' = <<>>
                 /\ streams' = streams + 1
<1>1. /\ m.pc = "check"
      /\ UNCHANGED <<inRing, outRing, noMoreInput, encodeResult, ev, timer, mt, wpc,
                     rd, wr, enc, supplied, faults>>
  BY DEF CheckResult, Raise, Goto, shared, worker, history
<1>2. \/ /\ encodeResult # "SZ_OK" \/ inRing.count # 0
         /\ m' = [m EXCEPT !.pc = "raised"]
         /\ UNCHANGED <<accepted, written, streams>>
      \/ /\ encodeResult = "SZ_OK"
         /\ m' = [m EXCEPT !.pc = "idle", !.call = "none", !.started = FALSE]
         /\ accepted' = 0
         /\ written' = <<>>
         /\ streams' = streams + 1
  BY DEF CheckResult, Raise, Goto, shared, worker, history
<1>3. CASE /\ encodeResult # "SZ_OK" \/ inRing.count # 0
           /\ m' = [m EXCEPT !.pc = "raised"]
           /\ UNCHANGED <<accepted, written, streams>>
  <2>1. /\ m' \in MainType
        /\ m'.pc = "raised" /\ m'.call = m.call /\ m'.left = m.left /\ m'.wrote = m.wrote
        /\ m'.size = m.size /\ m'.bytes = m.bytes /\ m'.on = m.on /\ m'.next = m.next
        /\ m'.started = m.started /\ m'.finished = m.finished
    BY <1>3, CompressorInv DEF CompressorInv, TypeInv, MainType, MainPcs, Ending
  <2>. QED
    BY <1>1, <1>3, <2>1
<1>4. CASE /\ encodeResult = "SZ_OK"
           /\ m' = [m EXCEPT !.pc = "idle", !.call = "none", !.started = FALSE]
           /\ accepted' = 0
           /\ written' = <<>>
           /\ streams' = streams + 1
  <2>1. /\ m' \in MainType
        /\ m'.pc = "idle" /\ m'.call = "none" /\ m'.started = FALSE /\ m'.left = m.left
        /\ m'.wrote = m.wrote /\ m'.size = m.size /\ m'.bytes = m.bytes /\ m'.on = m.on
        /\ m'.next = m.next /\ m'.finished = m.finished
    BY <1>4, CompressorInv DEF CompressorInv, TypeInv, MainType, MainPcs, Ending
  <2>. QED
    BY <1>1, <1>4, <2>1
<1>. QED
  BY <1>1, <1>2, <1>3, <1>4

\* What Free does to each variable.
LEMMA FreeDoes ==
    ASSUME CompressorInv, Free
    PROVE  /\ m.pc \in {"idle", "raised"}
           /\ UNCHANGED <<inRing, outRing, noMoreInput, encodeResult, timer, mt, wpc,
                          rd, wr, enc, supplied, accepted, written, streams, faults>>
           /\ m' \in MainType
           /\ m'.pc = "join" /\ m'.call = "none" /\ m'.left = m.left /\ m'.wrote = m.wrote
           /\ m'.size = m.size /\ m'.bytes = m.bytes /\ m'.on = m.on /\ m'.next = m.next
           /\ m'.started = m.started /\ m'.finished = m.finished
           /\ ev' \in [Events -> BOOLEAN]
           /\ ev'["TerminateWorker"]
           /\ \A e \in Events \ {"TerminateWorker"} : ev'[e] = ev[e]
<1>1. /\ m.pc \in {"idle", "raised"}
      /\ UNCHANGED <<inRing, outRing, noMoreInput, encodeResult, timer, mt, wpc, rd,
                     wr, enc, supplied, accepted, written, streams, faults>>
  BY DEF Free, shared, worker, history
<1>2. /\ m' = [m EXCEPT !.pc = "join", !.call = "none"]
      /\ ev' = [ev EXCEPT !["TerminateWorker"] = TRUE]
  BY DEF Free, shared, worker, history
<1>3. /\ m' \in MainType
      /\ m'.pc = "join" /\ m'.call = "none" /\ m'.left = m.left /\ m'.wrote = m.wrote
      /\ m'.size = m.size /\ m'.bytes = m.bytes /\ m'.on = m.on /\ m'.next = m.next
      /\ m'.started = m.started /\ m'.finished = m.finished
  BY <1>2, CompressorInv DEF CompressorInv, TypeInv, MainType, MainPcs, Ending
<1>4. /\ ev' \in [Events -> BOOLEAN]
      /\ ev'["TerminateWorker"]
      /\ \A e \in Events \ {"TerminateWorker"} : ev'[e] = ev[e]
  BY <1>2, CompressorInv DEF CompressorInv, TypeInv, Events
<1>. QED
  BY <1>1, <1>2, <1>3, <1>4

\* What Join does to each variable.
LEMMA JoinDoes ==
    ASSUME CompressorInv, Join
    PROVE  /\ m.pc = "join"
           /\ UNCHANGED <<inRing, outRing, noMoreInput, encodeResult, ev, timer, mt,
                          wpc, rd, wr, enc, supplied, accepted, written, streams,
                          faults>>
           /\ m' \in MainType
           /\ m'.pc = "freed" /\ m'.call = m.call /\ m'.left = m.left /\ m'.wrote = m.wrote
           /\ m'.size = m.size /\ m'.bytes = m.bytes /\ m'.on = m.on /\ m'.next = m.next
           /\ m'.started = m.started /\ m'.finished = m.finished
<1>1. /\ m.pc = "join"
      /\ UNCHANGED <<inRing, outRing, noMoreInput, encodeResult, ev, timer, mt, wpc,
                     rd, wr, enc, supplied, accepted, written, streams, faults>>
  BY DEF Join, Goto, shared, worker, history
<1>2. /\ m' = [m EXCEPT !.pc = "freed"]
  BY DEF Join, Goto, shared, worker, history
<1>3. /\ m' \in MainType
      /\ m'.pc = "freed" /\ m'.call = m.call /\ m'.left = m.left /\ m'.wrote = m.wrote
      /\ m'.size = m.size /\ m'.bytes = m.bytes /\ m'.on = m.on /\ m'.next = m.next
      /\ m'.started = m.started /\ m'.finished = m.finished
  BY <1>2, CompressorInv DEF CompressorInv, TypeInv, MainType, MainPcs, Ending
<1>. QED
  BY <1>1, <1>2, <1>3

\* What WorkerThreadProc does to each variable.
LEMMA WorkerThreadProcDoes ==
    ASSUME CompressorInv, WorkerThreadProc
    PROVE  /\ wpc # "encode"
           /\ UNCHANGED <<inRing, outRing, noMoreInput, encodeResult, timer, m, mt, rd,
                          wr, supplied, accepted, written, streams, faults>>
           /\ \/ /\ wpc = "await"
                 /\ MustEnd
                 /\ wpc' = "exited"
                 /\ UNCHANGED <<ev, enc>>
              \/ /\ wpc = "await"
                 /\ ~MustEnd
                 /\ ev["StartEncode"]
                 /\ wpc' = "encode"
                 /\ enc' = NewEncoder
                 /\ ev' \in [Events -> BOOLEAN]
                 /\ ~ev'["StartEncode"]
                 /\ \A e \in Events \ {"StartEncode"} : ev'[e] = ev[e]
              \/ /\ wpc = "encoded"
                 /\ wpc' = "await"
                 /\ ev' \in [Events -> BOOLEAN]
                 /\ ev'["WorkerEncodeFinished"]
                 /\ \A e \in Events \ {"WorkerEncodeFinished"} : ev'[e] = ev[e]
                 /\ UNCHANGED <<enc>>
<1>1. /\ wpc # "encode"
      /\ UNCHANGED <<inRing, outRing, noMoreInput, encodeResult, timer, m, mt, rd, wr,
                     supplied, accepted, written, streams, faults>>
  BY DEF WorkerThreadProc, shared, history
<1>2. \/ /\ wpc = "await"
         /\ MustEnd
         /\ wpc' = "exited"
         /\ UNCHANGED <<ev, enc>>
      \/ /\ wpc = "await"
         /\ ~MustEnd
         /\ ev["StartEncode"]
         /\ wpc' = "encode"
         /\ enc' = NewEncoder
         /\ ev' = [ev EXCEPT !["StartEncode"] = FALSE]
      \/ /\ wpc = "encoded"
         /\ wpc' = "await"
         /\ ev' = [ev EXCEPT !["WorkerEncodeFinished"] = TRUE]
         /\ UNCHANGED <<enc>>
  BY DEF WorkerThreadProc, shared, history
<1>3. CASE /\ wpc = "await"
           /\ ~MustEnd
           /\ ev["StartEncode"]
           /\ wpc' = "encode"
           /\ enc' = NewEncoder
           /\ ev' = [ev EXCEPT !["StartEncode"] = FALSE]
  <2>1. /\ ev' \in [Events -> BOOLEAN]
        /\ ~ev'["StartEncode"]
        /\ \A e \in Events \ {"StartEncode"} : ev'[e] = ev[e]
    BY <1>3, CompressorInv DEF CompressorInv, TypeInv, Events
  <2>. QED
    BY <1>1, <1>3, <2>1
<1>4. CASE /\ wpc = "encoded"
           /\ wpc' = "await"
           /\ ev' = [ev EXCEPT !["WorkerEncodeFinished"] = TRUE]
           /\ UNCHANGED <<enc>>
  <2>1. /\ ev' \in [Events -> BOOLEAN]
        /\ ev'["WorkerEncodeFinished"]
        /\ \A e \in Events \ {"WorkerEncodeFinished"} : ev'[e] = ev[e]
    BY <1>4, CompressorInv DEF CompressorInv, TypeInv, Events
  <2>. QED
    BY <1>1, <1>4, <2>1
<1>. QED
  BY <1>1, <1>2, <1>3, <1>4

\* What EndOfInput does to each variable.
LEMMA EndOfInputDoes ==
    ASSUME CompressorInv, EndOfInput
    PROVE  /\ rd.pc \in {"fill", "empty"}
           /\ UNCHANGED <<inRing, outRing, noMoreInput, encodeResult, ev, timer, m, mt,
                          wpc, wr, supplied, accepted, written, streams, faults>>
           /\ \/ /\ rd.pc = "fill"
                 /\ rd.size = 0
                 /\ rd' = NoRead
                 /\ enc' \in EncType
                 /\ enc'.pending = enc.pending \o rd.data /\ enc'.eof = (rd.data = <<>>)
                 /\ enc'.ended = enc.ended /\ enc'.failed = enc.failed
              \/ /\ rd.pc = "fill"
                 /\ rd.size # 0
                 /\ noMoreInput
                 /\ rd' \in ReadType
                 /\ rd'.pc = "empty" /\ rd'.some = FALSE /\ rd'.size = rd.size
                 /\ rd'.data = rd.data /\ rd'.bytes = rd.bytes
                 /\ UNCHANGED <<enc>>
              \/ /\ rd.pc = "fill"
                 /\ rd.size # 0
                 /\ rd' \in ReadType
                 /\ rd'.pc = "ring" /\ rd'.some = FALSE /\ rd'.size = rd.size
                 /\ rd'.data = rd.data /\ rd'.bytes = rd.bytes
                 /\ UNCHANGED <<enc>>
              \/ /\ rd.pc = "empty"
                 /\ inRing.count = 0
                 /\ rd' = NoRead
                 /\ enc' \in EncType
                 /\ enc'.pending = enc.pending \o rd.data /\ enc'.eof = (rd.data = <<>>)
                 /\ enc'.ended = enc.ended /\ enc'.failed = enc.failed
              \/ /\ rd.pc = "empty"
                 /\ rd' \in ReadType
                 /\ rd'.pc = "ring" /\ rd'.size = rd.size /\ rd'.data = rd.data
                 /\ rd'.bytes = rd.bytes /\ rd'.some = rd.some
                 /\ UNCHANGED <<enc>>
<1>1. /\ rd.pc \in {"fill", "empty"}
      /\ UNCHANGED <<inRing, outRing, noMoreInput, encodeResult, ev, timer, m, mt, wpc,
                     wr, supplied, accepted, written, streams, faults>>
  BY DEF EndOfInput, ReadReturns, shared, history
<1>2. /\ enc.pending \o rd.data \in Seq(Item)
      /\ (rd.data = <<>>) \in BOOLEAN
  BY CompressorInv DEF CompressorInv, TypeInv, EncType, ReadType
<1>3. \/ /\ rd.pc = "fill"
         /\ rd.size = 0
         /\ rd' = NoRead
         /\ enc' = [enc EXCEPT !.pending = enc.pending \o rd.data, !.eof = (rd.data = <<>>)]
      \/ /\ rd.pc = "fill"
         /\ rd.size # 0
         /\ noMoreInput
         /\ rd' = [rd EXCEPT !.pc = "empty", !.some = FALSE]
         /\ UNCHANGED <<enc>>
      \/ /\ rd.pc = "fill"
         /\ rd.size # 0
         /\ rd' = [rd EXCEPT !.pc = "ring", !.some = FALSE]
         /\ UNCHANGED <<enc>>
      \/ /\ rd.pc = "empty"
         /\ inRing.count = 0
         /\ rd' = NoRead
         /\ enc' = [enc EXCEPT !.pending = enc.pending \o rd.data, !.eof = (rd.data = <<>>)]
      \/ /\ rd.pc = "empty"
         /\ rd' = [rd EXCEPT !.pc = "ring"]
         /\ UNCHANGED <<enc>>
  BY DEF EndOfInput, ReadReturns, shared, history
<1>4. CASE /\ rd.pc = "fill"
           /\ rd.size = 0
           /\ rd' = NoRead
           /\ enc' = [enc EXCEPT !.pending = enc.pending \o rd.data, !.eof = (rd.data = <<>>)]
  <2>1. /\ enc' \in EncType
        /\ enc'.pending = enc.pending \o rd.data /\ enc'.eof = (rd.data = <<>>)
        /\ enc'.ended = enc.ended /\ enc'.failed = enc.failed
    BY <1>4, <1>2, CompressorInv DEF CompressorInv, TypeInv, EncType
  <2>. QED
    BY <1>1, <1>4, <2>1
<1>5. CASE /\ rd.pc = "fill"
           /\ rd.size # 0
           /\ noMoreInput
           /\ rd' = [rd EXCEPT !.pc = "empty", !.some = FALSE]
           /\ UNCHANGED <<enc>>
  <2>1. /\ rd' \in ReadType
        /\ rd'.pc = "empty" /\ rd'.some = FALSE /\ rd'.size = rd.size
        /\ rd'.data = rd.data /\ rd'.bytes = rd.bytes
    BY <1>5, <1>2, CompressorInv DEF CompressorInv, TypeInv, ReadType
  <2>. QED
    BY <1>1, <1>5, <2>1
<1>6. CASE /\ rd.pc = "fill"
           /\ rd.size # 0
           /\ rd' = [rd EXCEPT !.pc = "ring", !.some = FALSE]
           /\ UNCHANGED <<enc>>
  <2>1. /\ rd' \in ReadType
        /\ rd'.pc = "ring" /\ rd'.some = FALSE /\ rd'.size = rd.size
        /\ rd'.data = rd.data /\ rd'.bytes = rd.bytes
    BY <1>6, <1>2, CompressorInv DEF CompressorInv, TypeInv, ReadType
  <2>. QED
    BY <1>1, <1>6, <2>1
<1>7. CASE /\ rd.pc = "empty"
           /\ inRing.count = 0
           /\ rd' = NoRead
           /\ enc' = [enc EXCEPT !.pending = enc.pending \o rd.data, !.eof = (rd.data = <<>>)]
  <2>1. /\ enc' \in EncType
        /\ enc'.pending = enc.pending \o rd.data /\ enc'.eof = (rd.data = <<>>)
        /\ enc'.ended = enc.ended /\ enc'.failed = enc.failed
    BY <1>7, <1>2, CompressorInv DEF CompressorInv, TypeInv, EncType
  <2>. QED
    BY <1>1, <1>7, <2>1
<1>8. CASE /\ rd.pc = "empty"
           /\ rd' = [rd EXCEPT !.pc = "ring"]
           /\ UNCHANGED <<enc>>
  <2>1. /\ rd' \in ReadType
        /\ rd'.pc = "ring" /\ rd'.size = rd.size /\ rd'.data = rd.data
        /\ rd'.bytes = rd.bytes /\ rd'.some = rd.some
    BY <1>8, <1>2, CompressorInv DEF CompressorInv, TypeInv, ReadType
  <2>. QED
    BY <1>1, <1>8, <2>1
<1>. QED
  BY <1>1, <1>3, <1>4, <1>5, <1>6, <1>7, <1>8

\* What ReadRing does to each variable.
LEMMA ReadRingDoes ==
    ASSUME CompressorInv, ReadRing
    PROVE  /\ rd.pc = "ring"
           /\ UNCHANGED <<inRing, outRing, noMoreInput, encodeResult, ev, timer, m, mt,
                          wpc, wr, enc, supplied, accepted, written, streams, faults>>
           /\ \/ /\ ReadBytes(inRing, rd.size) > 0
                 /\ rd' \in ReadType
                 /\ rd'.pc = "sub"
                 /\ rd'.data = rd.data \o MoveOut(inRing, ReadBytes(inRing, rd.size))
                 /\ rd'.bytes = ReadBytes(inRing, rd.size) /\ rd'.size = rd.size
                 /\ rd'.some = rd.some
              \/ /\ rd' \in ReadType
                 /\ rd'.pc = "fill" /\ rd'.size = rd.size /\ rd'.data = rd.data
                 /\ rd'.bytes = rd.bytes /\ rd'.some = rd.some
              \/ /\ rd' \in ReadType
                 /\ rd'.pc = "wake" /\ rd'.size = rd.size /\ rd'.data = rd.data
                 /\ rd'.bytes = rd.bytes /\ rd'.some = rd.some
<1>1. /\ rd.pc = "ring"
      /\ UNCHANGED <<inRing, outRing, noMoreInput, encodeResult, ev, timer, m, mt, wpc,
                     wr, enc, supplied, accepted, written, streams, faults>>
  BY DEF ReadRing, shared, history
<1>2. /\ ReadBytes(inRing, rd.size) \in Nat
      /\ ReadBytes(inRing, rd.size) > 0 =>
           rd.data \o MoveOut(inRing, ReadBytes(inRing, rd.size)) \in Seq(Item)
  <2>0. inRing \in RingTypes /\ rd.size \in Nat
    BY CompressorInv DEF CompressorInv, TypeInv, ReadType
  <2>1. /\ ReadBytes(inRing, rd.size) \in Nat
        /\ ReadBytes(inRing, rd.size) <= inRing.count
        /\ ReadBytes(inRing, rd.size) <= BufSize - inRing.r
    BY <2>0, ReadBytesFit
  <2>2. ReadBytes(inRing, rd.size) \in 0 .. inRing.count
    BY <2>1, CompressorInv DEF CompressorInv, TypeInv, RingTypes
  <2>3. MoveOut(inRing, ReadBytes(inRing, rd.size)) \in Seq(Item)
    BY <2>1, <2>2, CompressorInv, MovedOut DEF CompressorInv, TypeInv
  <2>. QED
    BY <2>1, <2>3, CompressorInv DEF CompressorInv, TypeInv, ReadType
<1>3. \/ /\ ReadBytes(inRing, rd.size) > 0
         /\ rd' = [rd EXCEPT !.pc = "sub", !.bytes = ReadBytes(inRing, rd.size),
                             !.data = rd.data \o MoveOut(inRing, ReadBytes(inRing, rd.size))]
      \/ /\ rd' = [rd EXCEPT !.pc = "fill"]
      \/ /\ rd' = [rd EXCEPT !.pc = "wake"]
  BY DEF ReadRing, shared, history
<1>4. CASE /\ ReadBytes(inRing, rd.size) > 0
           /\ rd' = [rd EXCEPT !.pc = "sub", !.bytes = ReadBytes(inRing, rd.size),
                               !.data = rd.data \o MoveOut(inRing, ReadBytes(inRing, rd.size))]
  <2>1. /\ rd' \in ReadType
        /\ rd'.pc = "sub"
        /\ rd'.data = rd.data \o MoveOut(inRing, ReadBytes(inRing, rd.size))
        /\ rd'.bytes = ReadBytes(inRing, rd.size) /\ rd'.size = rd.size
        /\ rd'.some = rd.some
    BY <1>4, <1>2, CompressorInv DEF CompressorInv, TypeInv, ReadType
  <2>. QED
    BY <1>1, <1>4, <2>1
<1>5. CASE /\ rd' = [rd EXCEPT !.pc = "fill"]
  <2>1. /\ rd' \in ReadType
        /\ rd'.pc = "fill" /\ rd'.size = rd.size /\ rd'.data = rd.data
        /\ rd'.bytes = rd.bytes /\ rd'.some = rd.some
    BY <1>5, <1>2, CompressorInv DEF CompressorInv, TypeInv, ReadType
  <2>. QED
    BY <1>1, <1>5, <2>1
<1>6. CASE /\ rd' = [rd EXCEPT !.pc = "wake"]
  <2>1. /\ rd' \in ReadType
        /\ rd'.pc = "wake" /\ rd'.size = rd.size /\ rd'.data = rd.data
        /\ rd'.bytes = rd.bytes /\ rd'.some = rd.some
    BY <1>6, <1>2, CompressorInv DEF CompressorInv, TypeInv, ReadType
  <2>. QED
    BY <1>1, <1>6, <2>1
<1>. QED
  BY <1>1, <1>3, <1>4, <1>5, <1>6

\* What ReadDone does to each variable.
LEMMA ReadDoneDoes ==
    ASSUME CompressorInv, ReadDone
    PROVE  /\ rd.pc = "sub"
           /\ inRing' = SubCount(inRing, rd.bytes)
           /\ UNCHANGED <<outRing, noMoreInput, encodeResult, ev, timer, m, mt, wpc,
                          wr, enc, supplied, accepted, written, streams, faults>>
           /\ \/ /\ rd.size - rd.bytes = 0
                 /\ rd' \in ReadType
                 /\ rd'.pc = "fill" /\ rd'.size = rd.size - rd.bytes /\ rd'.bytes = 0
                 /\ rd'.some = TRUE /\ rd'.data = rd.data
              \/ /\ rd.size - rd.bytes # 0
                 /\ rd' \in ReadType
                 /\ rd'.pc = "ring" /\ rd'.size = rd.size - rd.bytes /\ rd'.bytes = 0
                 /\ rd'.some = TRUE /\ rd'.data = rd.data
<1>1. /\ rd.pc = "sub"
      /\ inRing' = SubCount(inRing, rd.bytes)
      /\ UNCHANGED <<outRing, noMoreInput, encodeResult, ev, timer, m, mt, wpc, wr,
                     enc, supplied, accepted, written, streams, faults>>
  BY DEF ReadDone, history
<1>2. /\ rd.size - rd.bytes \in Nat
  BY <1>1, CompressorInv DEF CompressorInv, MoveInv, TypeInv, ReadType
<1>3. \/ /\ rd.size - rd.bytes = 0
         /\ rd' = [rd EXCEPT !.pc = "fill", !.size = rd.size - rd.bytes, !.bytes = 0, !.some = TRUE]
      \/ /\ rd.size - rd.bytes # 0
         /\ rd' = [rd EXCEPT !.pc = "ring", !.size = rd.size - rd.bytes, !.bytes = 0, !.some = TRUE]
  BY DEF ReadDone, history
<1>4. CASE /\ rd.size - rd.bytes = 0
           /\ rd' = [rd EXCEPT !.pc = "fill", !.size = rd.size - rd.bytes, !.bytes = 0, !.some = TRUE]
  <2>1. /\ rd' \in ReadType
        /\ rd'.pc = "fill" /\ rd'.size = rd.size - rd.bytes /\ rd'.bytes = 0
        /\ rd'.some = TRUE /\ rd'.data = rd.data
    BY <1>4, <1>2, CompressorInv DEF CompressorInv, TypeInv, ReadType
  <2>. QED
    BY <1>1, <1>4, <2>1
<1>5. CASE /\ rd.size - rd.bytes # 0
           /\ rd' = [rd EXCEPT !.pc = "ring", !.size = rd.size - rd.bytes, !.bytes = 0, !.some = TRUE]
  <2>1. /\ rd' \in ReadType
        /\ rd'.pc = "ring" /\ rd'.size = rd.size - rd.bytes /\ rd'.bytes = 0
        /\ rd'.some = TRUE /\ rd'.data = rd.data
    BY <1>5, <1>2, CompressorInv DEF CompressorInv, TypeInv, ReadType
  <2>. QED
    BY <1>1, <1>5, <2>1
<1>. QED
  BY <1>1, <1>3, <1>4, <1>5

\* What WaitForInput does to each variable.
LEMMA WaitForInputDoes ==
    ASSUME CompressorInv, WaitForInput
    PROVE  /\ rd.pc \in {"wake", "wait"}
           /\ UNCHANGED <<inRing, outRing, noMoreInput, encodeResult, timer, m, mt,
                          wpc, wr, supplied, accepted, written, streams, faults>>
           /\ \/ /\ rd.pc = "wake"
                 /\ rd' \in ReadType
                 /\ rd'.pc = "wait" /\ rd'.size = rd.size /\ rd'.data = rd.data
                 /\ rd'.bytes = rd.bytes /\ rd'.some = rd.some
                 /\ ev' \in [Events -> BOOLEAN]
                 /\ ev'["WorkerWaitingOnInput"]
                 /\ \A e \in Events \ {"WorkerWaitingOnInput"} : ev'[e] = ev[e]
                 /\ UNCHANGED <<enc>>
              \/ /\ rd.pc = "wait"
                 /\ MustEnd
                 /\ rd' = NoRead
                 /\ enc' \in EncType
                 /\ enc'.failed = TRUE /\ enc'.pending = enc.pending /\ enc'.eof = enc.eof
                 /\ enc'.ended = enc.ended
                 /\ UNCHANGED <<ev>>
              \/ /\ rd.pc = "wait"
                 /\ ev["EndWaitOnInput"]
                 /\ rd' \in ReadType
                 /\ rd'.pc = "fill" /\ rd'.size = rd.size /\ rd'.data = rd.data
                 /\ rd'.bytes = rd.bytes /\ rd'.some = rd.some
                 /\ ev' \in [Events -> BOOLEAN]
                 /\ ~ev'["EndWaitOnInput"]
                 /\ \A e \in Events \ {"EndWaitOnInput"} : ev'[e] = ev[e]
                 /\ UNCHANGED <<enc>>
<1>1. /\ rd.pc \in {"wake", "wait"}
      /\ UNCHANGED <<inRing, outRing, noMoreInput, encodeResult, timer, m, mt, wpc, wr,
                     supplied, accepted, written, streams, faults>>
  BY DEF WaitForInput, ReadReturns, shared, history
<1>2. \/ /\ rd.pc = "wake"
         /\ rd' = [rd EXCEPT !.pc = "wait"]
         /\ ev' = [ev EXCEPT !["WorkerWaitingOnInput"] = TRUE]
         /\ UNCHANGED <<enc>>
      \/ /\ rd.pc = "wait"
         /\ MustEnd
         /\ rd' = NoRead
         /\ enc' = [enc EXCEPT !.failed = TRUE]
         /\ UNCHANGED <<ev>>
      \/ /\ rd.pc = "wait"
         /\ ev["EndWaitOnInput"]
         /\ rd' = [rd EXCEPT !.pc = "fill"]
         /\ ev' = [ev EXCEPT !["EndWaitOnInput"] = FALSE]
         /\ UNCHANGED <<enc>>
  BY DEF WaitForInput, ReadReturns, shared, history
<1>3. CASE /\ rd.pc = "wake"
           /\ rd' = [rd EXCEPT !.pc = "wait"]
           /\ ev' = [ev EXCEPT !["WorkerWaitingOnInput"] = TRUE]
           /\ UNCHANGED <<enc>>
  <2>1. /\ rd' \in ReadType
        /\ rd'.pc = "wait" /\ rd'.size = rd.size /\ rd'.data = rd.data
        /\ rd'.bytes = rd.bytes /\ rd'.some = rd.some
    BY <1>3, CompressorInv DEF CompressorInv, TypeInv, ReadType
  <2>2. /\ ev' \in [Events -> BOOLEAN]
        /\ ev'["WorkerWaitingOnInput"]
        /\ \A e \in Events \ {"WorkerWaitingOnInput"} : ev'[e] = ev[e]
    BY <1>3, CompressorInv DEF CompressorInv, TypeInv, Events
  <2>. QED
    BY <1>1, <1>3, <2>1, <2>2
<1>4. CASE /\ rd.pc = "wait"
           /\ MustEnd
           /\ rd' = NoRead
           /\ enc' = [enc EXCEPT !.failed = TRUE]
           /\ UNCHANGED <<ev>>
  <2>1. /\ enc' \in EncType
        /\ enc'.failed = TRUE /\ enc'.pending = enc.pending /\ enc'.eof = enc.eof
        /\ enc'.ended = enc.ended
    BY <1>4, CompressorInv DEF CompressorInv, TypeInv, EncType
  <2>. QED
    BY <1>1, <1>4, <2>1
<1>5. CASE /\ rd.pc = "wait"
           /\ ev["EndWaitOnInput"]
           /\ rd' = [rd EXCEPT !.pc = "fill"]
           /\ ev' = [ev EXCEPT !["EndWaitOnInput"] = FALSE]
           /\ UNCHANGED <<enc>>
  <2>1. /\ rd' \in ReadType
        /\ rd'.pc = "fill" /\ rd'.size = rd.size /\ rd'.data = rd.data
        /\ rd'.bytes = rd.bytes /\ rd'.some = rd.some
    BY <1>5, CompressorInv DEF CompressorInv, TypeInv, ReadType
  <2>2. /\ ev' \in [Events -> BOOLEAN]
        /\ ~ev'["EndWaitOnInput"]
        /\ \A e \in Events \ {"EndWaitOnInput"} : ev'[e] = ev[e]
    BY <1>5, CompressorInv DEF CompressorInv, TypeInv, Events
  <2>. QED
    BY <1>1, <1>5, <2>1, <2>2
<1>. QED
  BY <1>1, <1>2, <1>3, <1>4, <1>5

\* What WriteRing does to each variable.
LEMMA WriteRingDoes ==
    ASSUME CompressorInv, WriteRing
    PROVE  /\ wr.pc = "ring"
           /\ UNCHANGED <<inRing, noMoreInput, encodeResult, ev, timer, m, mt, wpc, rd,
                          enc, supplied, accepted, written, streams, faults>>
           /\ \/ /\ WriteBytes(outRing, Len(wr.data)) > 0
                 /\ wr' \in WriteType
                 /\ wr'.pc = "add" /\ wr'.bytes = WriteBytes(outRing, Len(wr.data))
                 /\ wr'.data = wr.data /\ wr'.some = wr.some
                 /\ outRing' = MoveIn(outRing, wr.data, WriteBytes(outRing, Len(wr.data)))
              \/ /\ wr' \in WriteType
                 /\ wr'.some = FALSE /\ wr'.pc = wr.pc /\ wr'.data = wr.data
                 /\ wr'.bytes = wr.bytes
                 /\ UNCHANGED <<outRing>>
              \/ /\ wr' \in WriteType
                 /\ wr'.pc = "wake" /\ wr'.data = wr.data /\ wr'.bytes = wr.bytes
                 /\ wr'.some = wr.some
                 /\ UNCHANGED <<outRing>>
<1>1. /\ wr.pc = "ring"
      /\ UNCHANGED <<inRing, noMoreInput, encodeResult, ev, timer, m, mt, wpc, rd, enc,
                     supplied, accepted, written, streams, faults>>
  BY DEF WriteRing, history
<1>2. /\ WriteBytes(outRing, Len(wr.data)) \in Nat
  <2>1. outRing \in RingTypes /\ Len(wr.data) \in Nat
    BY CompressorInv DEF CompressorInv, TypeInv, WriteType
  <2>. QED
    BY <2>1, WriteBytesFit
<1>3. \/ /\ WriteBytes(outRing, Len(wr.data)) > 0
         /\ wr' = [wr EXCEPT !.pc = "add", !.bytes = WriteBytes(outRing, Len(wr.data))]
         /\ outRing' = MoveIn(outRing, wr.data, WriteBytes(outRing, Len(wr.data)))
      \/ /\ wr' = [wr EXCEPT !.some = FALSE]
         /\ UNCHANGED <<outRing>>
      \/ /\ wr' = [wr EXCEPT !.pc = "wake"]
         /\ UNCHANGED <<outRing>>
  BY DEF WriteRing, history
<1>4. CASE /\ WriteBytes(outRing, Len(wr.data)) > 0
           /\ wr' = [wr EXCEPT !.pc = "add", !.bytes = WriteBytes(outRing, Len(wr.data))]
           /\ outRing' = MoveIn(outRing, wr.data, WriteBytes(outRing, Len(wr.data)))
  <2>1. /\ wr' \in WriteType
        /\ wr'.pc = "add" /\ wr'.bytes = WriteBytes(outRing, Len(wr.data))
        /\ wr'.data = wr.data /\ wr'.some = wr.some
    BY <1>4, <1>2, CompressorInv DEF CompressorInv, TypeInv, WriteType
  <2>. QED
    BY <1>1, <1>4, <2>1
<1>5. CASE /\ wr' = [wr EXCEPT !.some = FALSE]
           /\ UNCHANGED <<outRing>>
  <2>1. /\ wr' \in WriteType
        /\ wr'.some = FALSE /\ wr'.pc = wr.pc /\ wr'.data = wr.data
        /\ wr'.bytes = wr.bytes
    BY <1>5, <1>2, CompressorInv DEF CompressorInv, TypeInv, WriteType
  <2>. QED
    BY <1>1, <1>5, <2>1
<1>6. CASE /\ wr' = [wr EXCEPT !.pc = "wake"]
           /\ UNCHANGED <<outRing>>
  <2>1. /\ wr' \in WriteType
        /\ wr'.pc = "wake" /\ wr'.data = wr.data /\ wr'.bytes = wr.bytes
        /\ wr'.some = wr.some
    BY <1>6, <1>2, CompressorInv DEF CompressorInv, TypeInv, WriteType
  <2>. QED
    BY <1>1, <1>6, <2>1
<1>. QED
  BY <1>1, <1>3, <1>4, <1>5, <1>6

\* What WriteDone does to each variable.
LEMMA WriteDoneDoes ==
    ASSUME CompressorInv, WriteDone
    PROVE  /\ wr.pc = "add"
           /\ outRing' = AddCount(outRing, wr.bytes)
           /\ UNCHANGED <<inRing, noMoreInput, encodeResult, ev, timer, m, mt, wpc, rd,
                          enc, supplied, accepted, written, streams, faults>>
           /\ wr' \in WriteType
           /\ \/ wr.bytes = Len(wr.data) /\ wr' = NoWrite
              \/ /\ wr.bytes \in 1 .. Len(wr.data) - 1
                 /\ wr'.pc = "ring"
                 /\ Len(wr'.data) = Len(wr.data) - wr.bytes
                 /\ \A i \in 1 .. Len(wr'.data) : wr'.data[i] = wr.data[wr.bytes + i]
<1>1. /\ wr.pc = "add"
      /\ outRing' = AddCount(outRing, wr.bytes)
      /\ UNCHANGED <<inRing, noMoreInput, encodeResult, ev, timer, m, mt, wpc, rd, enc,
                     supplied, accepted, written, streams, faults>>
      /\ wr' = IF wr.bytes = Len(wr.data) THEN NoWrite
               ELSE [pc |-> "ring", bytes |-> 0, some |-> TRUE,
                     data |-> SubSeq(wr.data, wr.bytes + 1, Len(wr.data))]
  BY DEF WriteDone, history
<1>2. wr.data \in Seq(Item) /\ wr.bytes \in 1 .. Len(wr.data)
  BY <1>1, CompressorInv DEF CompressorInv, TypeInv, WriteType, MoveInv
<1>3. CASE wr.bytes = Len(wr.data)
  <2>1. wr' = NoWrite
    BY <1>1, <1>3
  <2>. QED
    BY <1>1, <1>3, <2>1, NoneTypes
<1>4. CASE wr.bytes # Len(wr.data)
  <2>. DEFINE rest == SubSeq(wr.data, wr.bytes + 1, Len(wr.data))
  <2>1. /\ rest \in Seq(Item) /\ Len(rest) = Len(wr.data) - wr.bytes
        /\ \A i \in 1 .. Len(rest) : rest[i] = wr.data[wr.bytes + i]
    <3>1. /\ wr.bytes + 1 \in 1 .. Len(wr.data) + 1
          /\ Len(wr.data) \in (wr.bytes + 1) - 1 .. Len(wr.data)
          /\ Len(wr.data) - (wr.bytes + 1) + 1 = Len(wr.data) - wr.bytes
          /\ (wr.bytes + 1) - 1 = wr.bytes
      BY <1>2
    <3>. QED
      BY <1>2, <3>1, SubSeqIs
  <2>2. wr' = [pc |-> "ring", bytes |-> 0, some |-> TRUE, data |-> rest]
    BY <1>1, <1>4
  <2>3. wr.bytes \in 1 .. Len(wr.data) - 1
    BY <1>2, <1>4
  <2>. HIDE DEF rest
  <2>4. wr' \in WriteType /\ wr'.pc = "ring" /\ wr'.data = rest
    BY <2>1, <2>2 DEF WriteType
  <2>. QED
    BY <1>1, <2>1, <2>3, <2>4
<1>. QED
  BY <1>3, <1>4

\* What WaitForOutput does to each variable.
LEMMA WaitForOutputDoes ==
    ASSUME CompressorInv, WaitForOutput
    PROVE  /\ wr.pc \in {"wake", "wait"}
           /\ UNCHANGED <<inRing, outRing, noMoreInput, encodeResult, timer, m, mt,
                          wpc, rd, supplied, accepted, written, streams, faults>>
           /\ \/ /\ wr.pc = "wake"
                 /\ wr' \in WriteType
                 /\ wr'.pc = "wait" /\ wr'.data = wr.data /\ wr'.bytes = wr.bytes
                 /\ wr'.some = wr.some
                 /\ ev' \in [Events -> BOOLEAN]
                 /\ ev'["WorkerWaitingOnOutput"]
                 /\ \A e \in Events \ {"WorkerWaitingOnOutput"} : ev'[e] = ev[e]
                 /\ UNCHANGED <<enc>>
              \/ /\ wr.pc = "wait"
                 /\ MustEnd
                 /\ wr' = NoWrite
                 /\ enc' \in EncType
                 /\ enc'.failed = TRUE /\ enc'.pending = enc.pending /\ enc'.eof = enc.eof
                 /\ enc'.ended = enc.ended
                 /\ UNCHANGED <<ev>>
              \/ /\ wr.pc = "wait"
                 /\ ev["EndWaitOnOutput"]
                 /\ wr' \in WriteType
                 /\ wr'.pc = "ring" /\ wr'.data = wr.data /\ wr'.bytes = wr.bytes
                 /\ wr'.some = wr.some
                 /\ ev' \in [Events -> BOOLEAN]
                 /\ ~ev'["EndWaitOnOutput"]
                 /\ \A e \in Events \ {"EndWaitOnOutput"} : ev'[e] = ev[e]
                 /\ UNCHANGED <<enc>>
<1>1. /\ wr.pc \in {"wake", "wait"}
      /\ UNCHANGED <<inRing, outRing, noMoreInput, encodeResult, timer, m, mt, wpc, rd,
                     supplied, accepted, written, streams, faults>>
  BY DEF WaitForOutput, shared, history
<1>2. \/ /\ wr.pc = "wake"
         /\ wr' = [wr EXCEPT !.pc = "wait"]
         /\ ev' = [ev EXCEPT !["WorkerWaitingOnOutput"] = TRUE]
         /\ UNCHANGED <<enc>>
      \/ /\ wr.pc = "wait"
         /\ MustEnd
         /\ wr' = NoWrite
         /\ enc' = [enc EXCEPT !.failed = TRUE]
         /\ UNCHANGED <<ev>>
      \/ /\ wr.pc = "wait"
         /\ ev["EndWaitOnOutput"]
         /\ wr' = [wr EXCEPT !.pc = "ring"]
         /\ ev' = [ev EXCEPT !["EndWaitOnOutput"] = FALSE]
         /\ UNCHANGED <<enc>>
  BY DEF WaitForOutput, shared, history
<1>3. CASE /\ wr.pc = "wake"
           /\ wr' = [wr EXCEPT !.pc = "wait"]
           /\ ev' = [ev EXCEPT !["WorkerWaitingOnOutput"] = TRUE]
           /\ UNCHANGED <<enc>>
  <2>1. /\ wr' \in WriteType
        /\ wr'.pc = "wait" /\ wr'.data = wr.data /\ wr'.bytes = wr.bytes
        /\ wr'.some = wr.some
    BY <1>3, CompressorInv DEF CompressorInv, TypeInv, WriteType
  <2>2. /\ ev' \in [Events -> BOOLEAN]
        /\ ev'["WorkerWaitingOnOutput"]
        /\ \A e \in Events \ {"WorkerWaitingOnOutput"} : ev'[e] = ev[e]
    BY <1>3, CompressorInv DEF CompressorInv, TypeInv, Events
  <2>. QED
    BY <1>1, <1>3, <2>1, <2>2
<1>4. CASE /\ wr.pc = "wait"
           /\ MustEnd
           /\ wr' = NoWrite
           /\ enc' = [enc EXCEPT !.failed = TRUE]
           /\ UNCHANGED <<ev>>
  <2>1. /\ enc' \in EncType
        /\ enc'.failed = TRUE /\ enc'.pending = enc.pending /\ enc'.eof = enc.eof
        /\ enc'.ended = enc.ended
    BY <1>4, CompressorInv DEF CompressorInv, TypeInv, EncType
  <2>. QED
    BY <1>1, <1>4, <2>1
<1>5. CASE /\ wr.pc = "wait"
           /\ ev["EndWaitOnOutput"]
           /\ wr' = [wr EXCEPT !.pc = "ring"]
           /\ ev' = [ev EXCEPT !["EndWaitOnOutput"] = FALSE]
           /\ UNCHANGED <<enc>>
  <2>1. /\ wr' \in WriteType
        /\ wr'.pc = "ring" /\ wr'.data = wr.data /\ wr'.bytes = wr.bytes
        /\ wr'.some = wr.some
    BY <1>5, CompressorInv DEF CompressorInv, TypeInv, WriteType
  <2>2. /\ ev' \in [Events -> BOOLEAN]
        /\ ~ev'["EndWaitOnOutput"]
        /\ \A e \in Events \ {"EndWaitOnOutput"} : ev'[e] = ev[e]
    BY <1>5, CompressorInv DEF CompressorInv, TypeInv, Events
  <2>. QED
    BY <1>1, <1>5, <2>1, <2>2
<1>. QED
  BY <1>1, <1>2, <1>3, <1>4, <1>5

\* What EncoderReads does to each variable.
LEMMA EncoderReadsDoes ==
    ASSUME CompressorInv, EncoderReads
    PROVE  /\ wpc = "encode" /\ ~enc.failed /\ ~enc.eof
           /\ rd = NoRead
           /\ UNCHANGED <<inRing, outRing, noMoreInput, encodeResult, ev, timer, m, mt,
                          wpc, wr, enc, supplied, accepted, written, streams, faults>>
           /\ rd' \in ReadType
           /\ rd'.pc = "fill" /\ rd'.size > 0 /\ rd'.data = <<>> /\ rd'.bytes = 0
<1>1. /\ wpc = "encode" /\ ~enc.failed /\ ~enc.eof
      /\ rd = NoRead
      /\ UNCHANGED <<inRing, outRing, noMoreInput, encodeResult, ev, timer, m, mt, wpc,
                     wr, enc, supplied, accepted, written, streams, faults>>
  BY DEF EncoderReads, MayRead, shared, history
<1>2. PICK size \in ReadSizes : rd' = [NoRead EXCEPT !.pc = "fill", !.size = size]
  BY DEF EncoderReads
<1>3. size \in Nat /\ size > 0
  BY InputAssumption
<1>4. /\ rd' \in ReadType
      /\ rd'.pc = "fill" /\ rd'.size = size /\ rd'.data = <<>> /\ rd'.bytes = 0
  BY <1>2, <1>3, NoneTypes DEF ReadType
<1>. QED
  BY <1>1, <1>3, <1>4

\* What EncoderWrites does to each variable.
LEMMA EncoderWritesDoes ==
    ASSUME CompressorInv, EncoderWrites
    PROVE  /\ wpc = "encode" /\ ~enc.failed
           /\ wr = NoWrite
           /\ UNCHANGED <<inRing, outRing, noMoreInput, encodeResult, ev, timer, m, mt,
                          wpc, rd, supplied, accepted, written, streams, faults>>
           /\ wr' \in WriteType /\ wr'.pc = "ring"
           /\ enc' \in EncType /\ enc'.eof = enc.eof /\ enc'.failed = enc.failed
           /\ \/ /\ enc'.ended = enc.ended
                 /\ Len(wr'.data) \in 1 .. Len(enc.pending)
                 /\ Len(enc'.pending) = Len(enc.pending) - Len(wr'.data)
                 /\ \A i \in 1 .. Len(wr'.data) : wr'.data[i] = enc.pending[i]
                 /\ \A i \in 1 .. Len(enc'.pending) :
                      enc'.pending[i] = enc.pending[Len(wr'.data) + i]
              \/ /\ enc.eof /\ enc.pending = <<>> /\ ~enc.ended
                 /\ wr'.data = <<EndMark>> /\ enc'.pending = <<>> /\ enc'.ended
<1>1. /\ wpc = "encode" /\ ~enc.failed
      /\ wr = NoWrite
      /\ UNCHANGED <<inRing, outRing, noMoreInput, encodeResult, ev, timer, m, mt, wpc,
                     rd, supplied, accepted, written, streams, faults>>
      /\ \/ \E k \in 1 .. Len(enc.pending) :
              /\ wr' = [NoWrite EXCEPT !.pc = "ring", !.data = SubSeq(enc.pending, 1, k)]
              /\ enc' = [enc EXCEPT !.pending = SubSeq(@, k + 1, Len(@))]
         \/ /\ enc.eof /\ enc.pending = <<>> /\ ~enc.ended
            /\ wr' = [NoWrite EXCEPT !.pc = "ring", !.data = <<EndMark>>]
            /\ enc' = [enc EXCEPT !.ended = TRUE]
  BY DEF EncoderWrites, MayWrite, shared, history
<1>2. enc \in EncType /\ enc.pending \in Seq(Item)
  BY CompressorInv DEF CompressorInv, TypeInv, EncType
<1>3. CASE \E k \in 1 .. Len(enc.pending) :
             /\ wr' = [NoWrite EXCEPT !.pc = "ring", !.data = SubSeq(enc.pending, 1, k)]
             /\ enc' = [enc EXCEPT !.pending = SubSeq(@, k + 1, Len(@))]
  <2>1. PICK k \in 1 .. Len(enc.pending) :
             /\ wr' = [NoWrite EXCEPT !.pc = "ring", !.data = SubSeq(enc.pending, 1, k)]
             /\ enc' = [enc EXCEPT !.pending = SubSeq(@, k + 1, Len(@))]
    BY <1>3
  <2>. DEFINE front == SubSeq(enc.pending, 1, k)
              rest  == SubSeq(enc.pending, k + 1, Len(enc.pending))
  <2>2. /\ front \in Seq(Item) /\ Len(front) = k
        /\ \A i \in 1 .. Len(front) : front[i] = enc.pending[i]
    BY <1>2, SubSeqIs
  <2>3. /\ rest \in Seq(Item) /\ Len(rest) = Len(enc.pending) - k
        /\ \A i \in 1 .. Len(rest) : rest[i] = enc.pending[k + i]
    BY <1>2, SubSeqIs
  <2>4. /\ wr' = [NoWrite EXCEPT !.pc = "ring", !.data = front]
        /\ enc' = [enc EXCEPT !.pending = rest]
    BY <2>1
  <2>. HIDE DEF front, rest
  <2>5. wr' \in WriteType /\ wr'.pc = "ring" /\ wr'.data = front
    BY <2>2, <2>4, NoneTypes DEF WriteType
  <2>6. /\ enc' \in EncType /\ enc'.eof = enc.eof /\ enc'.failed = enc.failed
        /\ enc'.ended = enc.ended /\ enc'.pending = rest
    BY <1>2, <2>3, <2>4 DEF EncType
  <2>. QED
    BY <1>1, <2>2, <2>3, <2>5, <2>6
<1>4. CASE /\ enc.eof /\ enc.pending = <<>> /\ ~enc.ended
           /\ wr' = [NoWrite EXCEPT !.pc = "ring", !.data = <<EndMark>>]
           /\ enc' = [enc EXCEPT !.ended = TRUE]
  <2>1. EndMark \in Item /\ <<EndMark>> \in Seq(Item)
    BY DEF Item
  <2>2. wr' \in WriteType /\ wr'.pc = "ring" /\ wr'.data = <<EndMark>>
    BY <1>4, <2>1, NoneTypes DEF WriteType
  <2>3. /\ enc' \in EncType /\ enc'.eof = enc.eof /\ enc'.failed = enc.failed
        /\ enc'.ended /\ enc'.pending = enc.pending
    BY <1>2, <1>4 DEF EncType
  <2>. QED
    BY <1>1, <1>4, <2>2, <2>3
<1>. QED
  BY <1>1, <1>3, <1>4

\* What EncoderReturns does to each variable.
LEMMA EncoderReturnsDoes ==
    ASSUME CompressorInv, EncoderReturns
    PROVE  /\ wpc = "encode"
           /\ rd = NoRead
           /\ wr = NoWrite
           /\ enc.failed \/ enc.ended
           /\ encodeResult' = IF enc.failed THEN "error" ELSE "SZ_OK"
           /\ UNCHANGED <<inRing, outRing, noMoreInput, ev, timer, m, mt, rd, wr,
                          supplied, accepted, written, streams, faults>>
           /\ wpc' = "encoded"
           /\ enc' = NewEncoder
<1>1. /\ wpc = "encode"
      /\ rd = NoRead
      /\ wr = NoWrite
      /\ enc.failed \/ enc.ended
      /\ encodeResult' = IF enc.failed THEN "error" ELSE "SZ_OK"
      /\ UNCHANGED <<inRing, outRing, noMoreInput, ev, timer, m, mt, rd, wr, supplied,
                     accepted, written, streams, faults>>
  BY DEF EncoderReturns, history
<1>2. /\ wpc' = "encoded"
      /\ enc' = NewEncoder
  BY DEF EncoderReturns, history
<1>. QED
  BY <1>1, <1>2

\* What EncoderFails does to each variable.
LEMMA EncoderFailsDoes ==
    ASSUME CompressorInv, EncoderFails
    PROVE  /\ wpc = "encode"
           /\ UNCHANGED <<inRing, outRing, noMoreInput, encodeResult, ev, timer, m, mt,
                          wpc, rd, wr, supplied, accepted, written, streams>>
           /\ \/ /\ MustEnd
                 /\ enc' \in EncType
                 /\ enc'.failed = TRUE /\ enc'.pending = enc.pending /\ enc'.eof = enc.eof
                 /\ enc'.ended = enc.ended
                 /\ UNCHANGED <<faults>>
              \/ /\ enc' \in EncType
                 /\ enc'.failed = TRUE /\ enc'.pending = enc.pending /\ enc'.eof = enc.eof
                 /\ enc'.ended = enc.ended
                 /\ faults' = faults + 1
<1>1. /\ wpc = "encode"
      /\ UNCHANGED <<inRing, outRing, noMoreInput, encodeResult, ev, timer, m, mt, wpc,
                     rd, wr, supplied, accepted, written, streams>>
  BY DEF EncoderFails, Fault, shared, history
<1>2. \/ /\ MustEnd
         /\ enc' = [enc EXCEPT !.failed = TRUE]
         /\ UNCHANGED <<faults>>
      \/ /\ enc' = [enc EXCEPT !.failed = TRUE]
         /\ faults' = faults + 1
  BY DEF EncoderFails, Fault, shared, history
<1>3. CASE /\ MustEnd
           /\ enc' = [enc EXCEPT !.failed = TRUE]
           /\ UNCHANGED <<faults>>
  <2>1. /\ enc' \in EncType
        /\ enc'.failed = TRUE /\ enc'.pending = enc.pending /\ enc'.eof = enc.eof
        /\ enc'.ended = enc.ended
    BY <1>3, CompressorInv DEF CompressorInv, TypeInv, EncType
  <2>. QED
    BY <1>1, <1>3, <2>1
<1>4. CASE /\ enc' = [enc EXCEPT !.failed = TRUE]
           /\ faults' = faults + 1
  <2>1. /\ enc' \in EncType
        /\ enc'.failed = TRUE /\ enc'.pending = enc.pending /\ enc'.eof = enc.eof
        /\ enc'.ended = enc.ended
    BY <1>4, CompressorInv DEF CompressorInv, TypeInv, EncType
  <2>. QED
    BY <1>1, <1>4, <2>1
<1>. QED
  BY <1>1, <1>2, <1>3, <1>4

\* What Tick does to each variable.
LEMMA TickDoes ==
    ASSUME CompressorInv, Tick
    PROVE  /\ m.started
           /\ UNCHANGED <<inRing, outRing, noMoreInput, encodeResult, ev, m, mt, wpc,
                          rd, wr, enc, supplied, accepted, written, streams, faults>>
           /\ timer' = TRUE
<1>1. /\ m.started
      /\ UNCHANGED <<inRing, outRing, noMoreInput, encodeResult, ev, m, mt, wpc, rd,
                     wr, enc, supplied, accepted, written, streams, faults>>
  BY DEF Tick, shared, worker, history
<1>2. /\ timer' = TRUE
  BY DEF Tick, shared, worker, history
<1>. QED
  BY <1>1, <1>2

\* What WorkerDies does to each variable.
LEMMA WorkerDiesDoes ==
    ASSUME CompressorInv, WorkerDies
    PROVE  /\ UNCHANGED <<inRing, outRing, noMoreInput, encodeResult, ev, timer, m, mt,
                          supplied, accepted, written, streams>>
           /\ wpc' = "exited"
           /\ rd' = NoRead
           /\ wr' = NoWrite
           /\ enc' = NewEncoder
           /\ faults' = faults + 1
<1>1. /\ UNCHANGED <<inRing, outRing, noMoreInput, encodeResult, ev, timer, m, mt,
                     supplied, accepted, written, streams>>
  BY DEF WorkerDies, Fault, shared
<1>2. /\ wpc' = "exited"
      /\ rd' = NoRead
      /\ wr' = NoWrite
      /\ enc' = NewEncoder
      /\ faults' = faults + 1
  BY DEF WorkerDies, Fault, shared
<1>. QED
  BY <1>1, <1>2

\* What CompilerDies does to each variable.
LEMMA CompilerDiesDoes ==
    ASSUME CompressorInv, CompilerDies
    PROVE  /\ m.pc \notin {"dead", "freed"}
           /\ UNCHANGED <<inRing, outRing, noMoreInput, encodeResult, ev, timer, mt,
                          supplied, accepted, written, streams>>
           /\ \/ /\ m' \in MainType
                 /\ m'.pc = "dead" /\ m'.started = FALSE /\ m'.call = m.call /\ m'.left = m.left
                 /\ m'.wrote = m.wrote /\ m'.size = m.size /\ m'.bytes = m.bytes /\ m'.on = m.on
                 /\ m'.next = m.next /\ m'.finished = m.finished
                 /\ faults' = faults + 1
                 /\ UNCHANGED <<wpc, rd, wr, enc>>
              \/ /\ m' \in MainType
                 /\ m'.pc = "dead" /\ m'.started = FALSE /\ m'.call = m.call /\ m'.left = m.left
                 /\ m'.wrote = m.wrote /\ m'.size = m.size /\ m'.bytes = m.bytes /\ m'.on = m.on
                 /\ m'.next = m.next /\ m'.finished = m.finished
                 /\ faults' = faults + 1
                 /\ wpc' = "exited"
                 /\ rd' = NoRead
                 /\ wr' = NoWrite
                 /\ enc' = NewEncoder
<1>1. /\ m.pc \notin {"dead", "freed"}
      /\ UNCHANGED <<inRing, outRing, noMoreInput, encodeResult, ev, timer, mt,
                     supplied, accepted, written, streams>>
  BY DEF CompilerDies, Fault, shared, worker
<1>2. \/ /\ m' = [m EXCEPT !.pc = "dead", !.started = FALSE]
         /\ faults' = faults + 1
         /\ UNCHANGED <<wpc, rd, wr, enc>>
      \/ /\ m' = [m EXCEPT !.pc = "dead", !.started = FALSE]
         /\ faults' = faults + 1
         /\ wpc' = "exited"
         /\ rd' = NoRead
         /\ wr' = NoWrite
         /\ enc' = NewEncoder
  BY DEF CompilerDies, Fault, shared, worker
<1>3. CASE /\ m' = [m EXCEPT !.pc = "dead", !.started = FALSE]
           /\ faults' = faults + 1
           /\ UNCHANGED <<wpc, rd, wr, enc>>
  <2>1. /\ m' \in MainType
        /\ m'.pc = "dead" /\ m'.started = FALSE /\ m'.call = m.call /\ m'.left = m.left
        /\ m'.wrote = m.wrote /\ m'.size = m.size /\ m'.bytes = m.bytes /\ m'.on = m.on
        /\ m'.next = m.next /\ m'.finished = m.finished
    BY <1>3, CompressorInv DEF CompressorInv, TypeInv, MainType, MainPcs, Ending
  <2>. QED
    BY <1>1, <1>3, <2>1
<1>4. CASE /\ m' = [m EXCEPT !.pc = "dead", !.started = FALSE]
           /\ faults' = faults + 1
           /\ wpc' = "exited"
           /\ rd' = NoRead
           /\ wr' = NoWrite
           /\ enc' = NewEncoder
  <2>1. /\ m' \in MainType
        /\ m'.pc = "dead" /\ m'.started = FALSE /\ m'.call = m.call /\ m'.left = m.left
        /\ m'.wrote = m.wrote /\ m'.size = m.size /\ m'.bytes = m.bytes /\ m'.on = m.on
        /\ m'.next = m.next /\ m'.finished = m.finished
    BY <1>4, CompressorInv DEF CompressorInv, TypeInv, MainType, MainPcs, Ending
  <2>. QED
    BY <1>1, <1>4, <2>1
<1>. QED
  BY <1>1, <1>2, <1>3, <1>4

\* What a call of Compress or Finish begins with.
Begins == \E call \in {"Compress", "Finish"}, count \in Nat :
            /\ call = "Finish" => count = 0
            /\ call = "Compress" => count > 0
            /\ Begin(call, count)

\* The steps, one by one.
LEMMA NextIs ==
    ASSUME TypeInv, [Next]_vars
    PROVE  \/ Begins
           \/ SetNoMoreInput
           \/ EnterCompress
           \/ CompressLoop
           \/ FinishLoop
           \/ SatisfyWorkerWait
           \/ UpdateProgress
           \/ FlushOutputBuffer
           \/ CallWriteProc
           \/ ReadToCallbackDone
           \/ FlushReturns
           \/ WriteInput
           \/ PublishInput
           \/ WaitForWorkerEvent
           \/ CheckResult
           \/ Free
           \/ Join
           \/ WorkerThreadProc
           \/ EndOfInput
           \/ ReadRing
           \/ ReadDone
           \/ WaitForInput
           \/ WriteRing
           \/ WriteDone
           \/ WaitForOutput
           \/ EncoderReads
           \/ EncoderWrites
           \/ EncoderReturns
           \/ EncoderFails
           \/ Tick
           \/ WorkerDies
           \/ CompilerDies
           \/ UNCHANGED vars
<1>1. ASSUME Compress PROVE Begins
  <2>1. PICK count \in CallSizes : StartEncode("Compress", count) /\ accepted' = accepted + count
    BY <1>1 DEF Compress
  <2>2. count \in Nat /\ count > 0
    BY InputAssumption
  <2>3. Begin("Compress", count)
    BY <1>1, <2>1 DEF Compress, Begin
  <2>. QED
    BY <2>2, <2>3 DEF Begins
<1>2. ASSUME Finish PROVE Begins
  <2>1. accepted' = accepted + 0
    BY <1>2 DEF Finish, TypeInv
  <2>2. Begin("Finish", 0)
    BY <1>2, <2>1 DEF Finish, Begin
  <2>. QED
    BY <2>2 DEF Begins
<1>. QED
  BY <1>1, <1>2 DEF Next, Caller, MainThread, ReadSide, WriteSide, Ended

\* The numbers of units that the invariants speak of.
LEMMA CountsAre ==
    ASSUME TypeInv
    PROVE  /\ inRing.count \in Nat /\ outRing.count \in Nat /\ supplied \in Nat
           /\ Len(rd.data) \in Nat /\ rd.bytes \in Nat /\ Len(wr.data) \in Nat
           /\ Len(written) \in Nat /\ m.bytes \in Nat /\ Len(enc.pending) \in Nat
           /\ Counted \in Int /\ Sent \in Int /\ Given \in Int /\ Taken \in Int
<1>1. /\ inRing.count \in Nat /\ outRing.count \in Nat /\ supplied \in Nat
      /\ Len(rd.data) \in Nat /\ rd.bytes \in Nat /\ Len(wr.data) \in Nat
      /\ Len(written) \in Nat /\ m.bytes \in Nat /\ Len(enc.pending) \in Nat
  BY DEF TypeInv, RingTypes, ReadType, WriteType, MainType, EncType
<1>2. Taken \in Int
  BY <1>1 DEF Taken
<1>3. Counted \in Int
  BY <1>1 DEF Counted
<1>4. Given \in Int
  BY <1>1, <1>2 DEF Given
<1>5. Sent \in Int
  BY <1>1, <1>3 DEF Sent
<1>. QED
  BY <1>1, <1>2, <1>3, <1>4, <1>5

\* What holds of the input goes on to hold while neither side moves any.
LEMMA InFrame ==
    ASSUME InInv, UNCHANGED <<inRing, supplied>>, Taken' = Taken, rd'.data = rd.data,
           m'.pc = "add" => m.pc = "add" /\ m'.bytes = m.bytes,
           wpc' = "encode" /\ ~enc'.failed =>
             wpc = "encode" /\ ~enc.failed /\ enc'.pending = enc.pending
    PROVE  InInv'
<1>1. Given' = Given
  BY DEF Given
<1>. QED
  BY <1>1 DEF InInv

\* What a Read has taken is lost only together with the encoder.
LEMMA InDropped ==
    ASSUME TypeInv, InInv, UNCHANGED <<inRing, supplied, m>>, rd' = NoRead,
           ~(wpc' = "encode" /\ ~enc'.failed)
    PROVE  InInv'
<1>1. Taken' = 0 /\ rd'.data = <<>>
  BY NoneTypes DEF Taken
<1>2. inRing.count \in Nat /\ supplied \in Nat
  BY DEF TypeInv, RingTypes
<1>3. \A i \in 1 .. Len(rd'.data) : FALSE
  BY <1>1
<1>. QED
  BY <1>1, <1>2, <1>3 DEF InInv

\* The count of the output stays right while the main thread only goes on.
LEMMA CountFrame ==
    ASSUME OutCount, Counted' = Counted, Live' => Live,
           UNCHANGED <<inRing, outRing, supplied, rd, wr, enc, wpc, encodeResult,
                       noMoreInput>>,
           ev'["StartEncode"] = ev["StartEncode"],
           ev'["WorkerEncodeFinished"] = ev["WorkerEncodeFinished"],
           Live /\ m'.call = "DrainAll" /\ Flushed' => outRing.count = 0,
           Live /\ m'.pc = "check" => outRing.count = 0
    PROVE  OutCount'
<1>1. Sent' = Sent /\ Given' = Given
  BY DEF Sent, Given, Taken
<1>. QED
  BY <1>1 DEF OutCount

\* So do the data.
LEMMA DataFrame ==
    ASSUME OutData, Counted' = Counted, Live' => Live,
           UNCHANGED <<outRing, supplied, wr, written>>
    PROVE  OutData'
<1>1. \A i : Unit(i)' = Unit(i)
  BY DEF Unit
<1>. QED
  BY <1>1 DEF OutData

\* TypeInv is kept.
LEMMA TypeStep ==
    ASSUME CompressorInv, [Next]_vars
    PROVE  TypeInv'
<1>1. TypeInv
  BY DEF CompressorInv
<1>2. ASSUME NEW call \in {"Compress", "Finish"}, NEW count \in Nat, call = "Finish" => count = 0,
            Begin(call, count)
      PROVE  TypeInv'
  <2>1. inRing' \in RingTypes
    BY <1>1, <1>2, BeginDoes, NoneTypes DEF TypeInv
  <2>2. outRing' \in RingTypes
    BY <1>1, <1>2, BeginDoes, NoneTypes DEF TypeInv
  <2>3. noMoreInput' \in BOOLEAN
    BY <1>1, <1>2, BeginDoes, NoneTypes DEF TypeInv
  <2>4. encodeResult' \in {"none", "SZ_OK", "error"}
    BY <1>1, <1>2, BeginDoes, NoneTypes DEF TypeInv
  <2>5. ev' \in [Events -> BOOLEAN]
    BY <1>1, <1>2, BeginDoes, NoneTypes DEF TypeInv
  <2>6. timer' \in BOOLEAN
    BY <1>1, <1>2, BeginDoes, NoneTypes DEF TypeInv
  <2>7. m' \in MainType
    BY <1>1, <1>2, BeginDoes, NoneTypes DEF TypeInv
  <2>8. supplied' \in Nat
    <3>1. supplied' = 0 \/ supplied' = supplied
      BY <1>2, BeginDoes
    <3>. QED
      BY <1>1, <3>1 DEF TypeInv
  <2>9. accepted' \in Nat
    <3>1. accepted' = accepted + count
      BY <1>2, BeginDoes
    <3>. QED
      BY <1>1, <3>1 DEF TypeInv
  <2>10. UNCHANGED <<mt, wpc, rd, wr, enc, written, streams, faults>>
    BY <1>2, BeginDoes
  <2>. QED
    BY <1>1, <2>1, <2>2, <2>3, <2>4, <2>5, <2>6, <2>7, <2>8, <2>9, <2>10 DEF TypeInv
<1>3. CASE SetNoMoreInput
  BY <1>1, <1>3, SetNoMoreInputDoes DEF TypeInv
<1>4. CASE EnterCompress
  BY <1>1, <1>4, EnterCompressDoes DEF TypeInv
<1>5. CASE CompressLoop
  BY <1>1, <1>5, CompressLoopDoes DEF TypeInv
<1>6. CASE FinishLoop
  BY <1>1, <1>6, FinishLoopDoes DEF TypeInv
<1>7. CASE SatisfyWorkerWait
  BY <1>1, <1>7, SatisfyWorkerWaitDoes DEF TypeInv
<1>8. CASE UpdateProgress
  <2>1. timer' \in BOOLEAN
    BY <1>1, <1>8, UpdateProgressDoes, NoneTypes DEF TypeInv
  <2>2. m' \in MainType
    BY <1>1, <1>8, UpdateProgressDoes, NoneTypes DEF TypeInv
  <2>3. faults' \in Nat
    <3>1. faults' = faults + 1 \/ faults' = faults
      BY <1>8, UpdateProgressDoes
    <3>. QED
      BY <1>1, <3>1 DEF TypeInv
  <2>4. UNCHANGED <<inRing, outRing, noMoreInput, encodeResult, ev, mt, wpc, rd, wr,
                    enc, supplied, accepted, written, streams>>
    BY <1>8, UpdateProgressDoes
  <2>. QED
    BY <1>1, <2>1, <2>2, <2>3, <2>4 DEF TypeInv
<1>9. CASE FlushOutputBuffer
  BY <1>1, <1>9, FlushOutputBufferDoes DEF TypeInv
<1>10. CASE CallWriteProc
  <2>1. m' \in MainType
    BY <1>1, <1>10, CallWriteProcDoes, NoneTypes DEF TypeInv
  <2>2. written' \in Seq(Item)
    <3>1. CASE written' = written \o MoveOut(outRing, ReadBytes(outRing, m.size))
      <4>1. m.size \in Nat /\ outRing \in RingTypes /\ outRing.count \in Nat
        BY <1>1 DEF TypeInv, MainType, RingTypes
      <4>2. /\ ReadBytes(outRing, m.size) \in 0 .. outRing.count
            /\ ReadBytes(outRing, m.size) <= BufSize - outRing.r
        BY <4>1, ReadBytesFit
      <4>3. MoveOut(outRing, ReadBytes(outRing, m.size)) \in Seq(Item)
        BY <4>1, <4>2, MovedOut
      <4>. QED
        BY <1>1, <3>1, <4>3 DEF TypeInv
    <3>2. CASE written' = written
      BY <1>1, <3>2 DEF TypeInv
    <3>. QED
      BY <1>10, <3>1, <3>2, CallWriteProcDoes
  <2>3. faults' \in Nat
    BY <1>1, <1>10, CallWriteProcDoes, NoneTypes DEF TypeInv
  <2>4. UNCHANGED <<inRing, outRing, noMoreInput, encodeResult, ev, timer, mt, wpc, rd,
                    wr, enc, supplied, accepted, streams>>
    BY <1>10, CallWriteProcDoes
  <2>. QED
    BY <1>1, <2>1, <2>2, <2>3, <2>4 DEF TypeInv
<1>11. CASE ReadToCallbackDone
  <2>1. outRing' \in RingTypes
    <3>1. outRing \in RingTypes /\ Aligned(outRing)
      BY <1>1, CompressorInv DEF CompressorInv, TypeInv, MoveInv
    <3>2. m.bytes \in 1 .. outRing.count /\ m.bytes <= BufSize - outRing.r
      BY <1>1, <1>11, ReadToCallbackDoneDoes, CompressorInv
         DEF CompressorInv, TypeInv, MoveInv, RingTypes, MainType
    <3>3. outRing' = SubCount(outRing, m.bytes)
      BY <1>11, ReadToCallbackDoneDoes
    <3>. QED
      BY <3>1, <3>2, <3>3, CountSubtracted
  <2>2. m' \in MainType
    BY <1>1, <1>11, ReadToCallbackDoneDoes, NoneTypes DEF TypeInv
  <2>3. UNCHANGED <<inRing, noMoreInput, encodeResult, ev, timer, mt, wpc, rd, wr, enc,
                    supplied, accepted, written, streams, faults>>
    BY <1>11, ReadToCallbackDoneDoes
  <2>. QED
    BY <1>1, <2>1, <2>2, <2>3 DEF TypeInv
<1>12. CASE FlushReturns
  BY <1>1, <1>12, FlushReturnsDoes DEF TypeInv
<1>13. CASE WriteInput
  <2>1. inRing' \in RingTypes
    <3>1. m.left - m.wrote \in Nat
      BY <1>1, <1>13, WriteInputDoes, CompressorInv
         DEF CompressorInv, FlowInv, Closed, TypeInv, MainType
    <3>2. inRing \in RingTypes /\ Aligned(inRing) /\ supplied \in Nat
      BY <1>1, CompressorInv DEF CompressorInv, TypeInv, MoveInv
    <3>. DEFINE n == WriteBytes(inRing, m.left - m.wrote)
                data == [i \in 1 .. n |-> supplied + i]
    <3>3. n \in Nat /\ n <= BufSize - inRing.count /\ n <= BufSize - inRing.w
      BY <3>1, <3>2, WriteBytesFit
    <3>. HIDE DEF n
    <3>4. \A i \in 1 .. n : data[i] \in Item
      BY <3>2, <3>3 DEF Item
    <3>. HIDE DEF data
    <3>5. MoveIn(inRing, data, n) \in RingTypes
      BY <3>2, <3>3, <3>4, MovedIn
    <3>6. inRing' = MoveIn(inRing, data, n) \/ inRing' = inRing
      BY <1>13, WriteInputDoes DEF n, data
    <3>. QED
      BY <3>2, <3>5, <3>6
  <2>2. m' \in MainType
    BY <1>1, <1>13, WriteInputDoes, NoneTypes DEF TypeInv
  <2>3. UNCHANGED <<outRing, noMoreInput, encodeResult, ev, timer, mt, wpc, rd, wr,
                    enc, supplied, accepted, written, streams, faults>>
    BY <1>13, WriteInputDoes
  <2>. QED
    BY <1>1, <2>1, <2>2, <2>3 DEF TypeInv
<1>14. CASE PublishInput
  <2>1. inRing' \in RingTypes
    <3>1. inRing \in RingTypes /\ Aligned(inRing)
      BY <1>1, CompressorInv DEF CompressorInv, TypeInv, MoveInv
    <3>2. m.bytes \in Nat /\ m.bytes > 0 /\ m.bytes <= BufSize - inRing.count /\ m.bytes <= BufSize - inRing.w
      BY <1>1, <1>14, PublishInputDoes, CompressorInv
         DEF CompressorInv, TypeInv, MoveInv, RingTypes, MainType
    <3>3. inRing' = AddCount(inRing, m.bytes)
      BY <1>14, PublishInputDoes
    <3>. QED
      BY <3>1, <3>2, <3>3, CountAdded
  <2>2. m' \in MainType
    BY <1>1, <1>14, PublishInputDoes, NoneTypes DEF TypeInv
  <2>3. supplied' \in Nat
    BY <1>1, <1>14, PublishInputDoes DEF TypeInv, MainType
  <2>4. UNCHANGED <<outRing, noMoreInput, encodeResult, ev, timer, mt, wpc, rd, wr,
                    enc, accepted, written, streams, faults>>
    BY <1>14, PublishInputDoes
  <2>. QED
    BY <1>1, <2>1, <2>2, <2>3, <2>4 DEF TypeInv
<1>15. CASE WaitForWorkerEvent
  BY <1>1, <1>15, WaitForWorkerEventDoes DEF TypeInv
<1>16. CASE CheckResult
  <2>1. m' \in MainType
    BY <1>1, <1>16, CheckResultDoes, NoneTypes DEF TypeInv
  <2>2. accepted' \in Nat
    <3>1. accepted' = 0 \/ accepted' = accepted
      BY <1>16, CheckResultDoes
    <3>. QED
      BY <1>1, <3>1 DEF TypeInv
  <2>3. written' \in Seq(Item)
    <3>1. written' = <<>> \/ written' = written
      BY <1>16, CheckResultDoes
    <3>2. <<>> \in Seq(Item)
      OBVIOUS
    <3>. QED
      BY <1>1, <3>1, <3>2, Zenon DEF TypeInv
  <2>4. streams' \in Nat
    <3>1. streams' = streams + 1 \/ streams' = streams
      BY <1>16, CheckResultDoes
    <3>. QED
      BY <1>1, <3>1 DEF TypeInv
  <2>5. UNCHANGED <<inRing, outRing, noMoreInput, encodeResult, ev, timer, mt, wpc, rd,
                    wr, enc, supplied, faults>>
    BY <1>16, CheckResultDoes
  <2>. QED
    BY <1>1, <2>1, <2>2, <2>3, <2>4, <2>5 DEF TypeInv
<1>17. CASE Free
  BY <1>1, <1>17, FreeDoes DEF TypeInv
<1>18. CASE Join
  BY <1>1, <1>18, JoinDoes DEF TypeInv
<1>19. CASE WorkerThreadProc
  <2>1. ev' \in [Events -> BOOLEAN]
    BY <1>1, <1>19, WorkerThreadProcDoes, NoneTypes DEF TypeInv
  <2>2. wpc' \in {"await", "encode", "encoded", "exited"}
    BY <1>1, <1>19, WorkerThreadProcDoes, NoneTypes DEF TypeInv
  <2>3. enc' \in EncType
    BY <1>1, <1>19, WorkerThreadProcDoes, NoneTypes DEF TypeInv
  <2>4. UNCHANGED <<inRing, outRing, noMoreInput, encodeResult, timer, m, mt, rd, wr,
                    supplied, accepted, written, streams, faults>>
    BY <1>19, WorkerThreadProcDoes
  <2>. QED
    BY <1>1, <2>1, <2>2, <2>3, <2>4 DEF TypeInv
<1>20. CASE EndOfInput
  <2>1. rd' \in ReadType
    BY <1>1, <1>20, EndOfInputDoes, NoneTypes DEF TypeInv
  <2>2. enc' \in EncType
    BY <1>1, <1>20, EndOfInputDoes, NoneTypes DEF TypeInv
  <2>3. UNCHANGED <<inRing, outRing, noMoreInput, encodeResult, ev, timer, m, mt, wpc,
                    wr, supplied, accepted, written, streams, faults>>
    BY <1>20, EndOfInputDoes
  <2>. QED
    BY <1>1, <2>1, <2>2, <2>3 DEF TypeInv
<1>21. CASE ReadRing
  BY <1>1, <1>21, ReadRingDoes DEF TypeInv
<1>22. CASE ReadDone
  <2>1. inRing' \in RingTypes
    <3>1. inRing \in RingTypes /\ Aligned(inRing)
      BY <1>1, CompressorInv DEF CompressorInv, TypeInv, MoveInv
    <3>2. rd.bytes \in 1 .. inRing.count /\ rd.bytes <= BufSize - inRing.r
      <4>1. rd.pc = "sub"
        BY <1>22, ReadDoneDoes
      <4>2. inRing.count \in Nat
        BY <1>1 DEF TypeInv, RingTypes
      <4>. QED
        BY <4>1, <4>2, CompressorInv DEF CompressorInv, MoveInv
    <3>3. inRing' = SubCount(inRing, rd.bytes)
      BY <1>22, ReadDoneDoes
    <3>. QED
      BY <3>1, <3>2, <3>3, CountSubtracted
  <2>2. rd' \in ReadType
    BY <1>1, <1>22, ReadDoneDoes, NoneTypes DEF TypeInv
  <2>3. UNCHANGED <<outRing, noMoreInput, encodeResult, ev, timer, m, mt, wpc, wr, enc,
                    supplied, accepted, written, streams, faults>>
    BY <1>22, ReadDoneDoes
  <2>. QED
    BY <1>1, <2>1, <2>2, <2>3 DEF TypeInv
<1>23. CASE WaitForInput
  <2>1. ev' \in [Events -> BOOLEAN]
    BY <1>1, <1>23, WaitForInputDoes, NoneTypes DEF TypeInv
  <2>2. rd' \in ReadType
    BY <1>1, <1>23, WaitForInputDoes, NoneTypes DEF TypeInv
  <2>3. enc' \in EncType
    BY <1>1, <1>23, WaitForInputDoes, NoneTypes DEF TypeInv
  <2>4. UNCHANGED <<inRing, outRing, noMoreInput, encodeResult, timer, m, mt, wpc, wr,
                    supplied, accepted, written, streams, faults>>
    BY <1>23, WaitForInputDoes
  <2>. QED
    BY <1>1, <2>1, <2>2, <2>3, <2>4 DEF TypeInv
<1>24. CASE WriteRing
  <2>1. outRing' \in RingTypes
    <3>1. wr.data \in Seq(Item) /\ Len(wr.data) \in Nat
      BY <1>1 DEF TypeInv, WriteType
    <3>2. outRing \in RingTypes /\ Aligned(outRing)
      BY <1>1, CompressorInv DEF CompressorInv, TypeInv, MoveInv
    <3>. DEFINE n == WriteBytes(outRing, Len(wr.data))
    <3>3. n \in 0 .. Len(wr.data) /\ n <= BufSize - outRing.count /\ n <= BufSize - outRing.w
      BY <3>1, <3>2, WriteBytesFit
    <3>. HIDE DEF n
    <3>4. \A i \in 1 .. n : wr.data[i] \in Item
      BY <3>1, <3>3
    <3>5. MoveIn(outRing, wr.data, n) \in RingTypes
      BY <3>1, <3>2, <3>3, <3>4, MovedIn
    <3>6. outRing' = MoveIn(outRing, wr.data, n) \/ outRing' = outRing
      BY <1>24, WriteRingDoes DEF n
    <3>. QED
      BY <3>2, <3>5, <3>6
  <2>2. wr' \in WriteType
    BY <1>1, <1>24, WriteRingDoes, NoneTypes DEF TypeInv
  <2>3. UNCHANGED <<inRing, noMoreInput, encodeResult, ev, timer, m, mt, wpc, rd, enc,
                    supplied, accepted, written, streams, faults>>
    BY <1>24, WriteRingDoes
  <2>. QED
    BY <1>1, <2>1, <2>2, <2>3 DEF TypeInv
<1>25. CASE WriteDone
  <2>1. outRing' \in RingTypes
    <3>1. outRing \in RingTypes /\ Aligned(outRing)
      BY <1>1, CompressorInv DEF CompressorInv, TypeInv, MoveInv
    <3>2. wr.bytes \in Nat /\ wr.bytes > 0 /\ wr.bytes <= BufSize - outRing.count /\ wr.bytes <= BufSize - outRing.w
      BY <1>1, <1>25, WriteDoneDoes, CompressorInv
         DEF CompressorInv, TypeInv, MoveInv, RingTypes, WriteType
    <3>3. outRing' = AddCount(outRing, wr.bytes)
      BY <1>25, WriteDoneDoes
    <3>. QED
      BY <3>1, <3>2, <3>3, CountAdded
  <2>2. wr' \in WriteType
    BY <1>1, <1>25, WriteDoneDoes, NoneTypes DEF TypeInv
  <2>3. UNCHANGED <<inRing, noMoreInput, encodeResult, ev, timer, m, mt, wpc, rd, enc,
                    supplied, accepted, written, streams, faults>>
    BY <1>25, WriteDoneDoes
  <2>. QED
    BY <1>1, <2>1, <2>2, <2>3 DEF TypeInv
<1>26. CASE WaitForOutput
  <2>1. ev' \in [Events -> BOOLEAN]
    BY <1>1, <1>26, WaitForOutputDoes, NoneTypes DEF TypeInv
  <2>2. wr' \in WriteType
    BY <1>1, <1>26, WaitForOutputDoes, NoneTypes DEF TypeInv
  <2>3. enc' \in EncType
    BY <1>1, <1>26, WaitForOutputDoes, NoneTypes DEF TypeInv
  <2>4. UNCHANGED <<inRing, outRing, noMoreInput, encodeResult, timer, m, mt, wpc, rd,
                    supplied, accepted, written, streams, faults>>
    BY <1>26, WaitForOutputDoes
  <2>. QED
    BY <1>1, <2>1, <2>2, <2>3, <2>4 DEF TypeInv
<1>27. CASE EncoderReads
  BY <1>1, <1>27, EncoderReadsDoes DEF TypeInv
<1>28. CASE EncoderWrites
  BY <1>1, <1>28, EncoderWritesDoes DEF TypeInv
<1>29. CASE EncoderReturns
  <2>1. encodeResult' \in {"none", "SZ_OK", "error"}
    BY <1>1, <1>29, EncoderReturnsDoes, NoneTypes DEF TypeInv
  <2>2. wpc' \in {"await", "encode", "encoded", "exited"}
    BY <1>1, <1>29, EncoderReturnsDoes, NoneTypes DEF TypeInv
  <2>3. enc' \in EncType
    BY <1>1, <1>29, EncoderReturnsDoes, NoneTypes DEF TypeInv
  <2>4. UNCHANGED <<inRing, outRing, noMoreInput, ev, timer, m, mt, rd, wr, supplied,
                    accepted, written, streams, faults>>
    BY <1>29, EncoderReturnsDoes
  <2>. QED
    BY <1>1, <2>1, <2>2, <2>3, <2>4 DEF TypeInv
<1>30. CASE EncoderFails
  <2>1. enc' \in EncType
    BY <1>1, <1>30, EncoderFailsDoes, NoneTypes DEF TypeInv
  <2>2. faults' \in Nat
    <3>1. faults' = faults + 1 \/ faults' = faults
      BY <1>30, EncoderFailsDoes
    <3>. QED
      BY <1>1, <3>1 DEF TypeInv
  <2>3. UNCHANGED <<inRing, outRing, noMoreInput, encodeResult, ev, timer, m, mt, wpc,
                    rd, wr, supplied, accepted, written, streams>>
    BY <1>30, EncoderFailsDoes
  <2>. QED
    BY <1>1, <2>1, <2>2, <2>3 DEF TypeInv
<1>31. CASE Tick
  BY <1>1, <1>31, TickDoes DEF TypeInv
<1>32. CASE WorkerDies
  <2>1. wpc' \in {"await", "encode", "encoded", "exited"}
    BY <1>1, <1>32, WorkerDiesDoes, NoneTypes DEF TypeInv
  <2>2. rd' \in ReadType
    BY <1>1, <1>32, WorkerDiesDoes, NoneTypes DEF TypeInv
  <2>3. wr' \in WriteType
    BY <1>1, <1>32, WorkerDiesDoes, NoneTypes DEF TypeInv
  <2>4. enc' \in EncType
    BY <1>1, <1>32, WorkerDiesDoes, NoneTypes DEF TypeInv
  <2>5. faults' \in Nat
    BY <1>1, <1>32, WorkerDiesDoes, NoneTypes DEF TypeInv
  <2>6. UNCHANGED <<inRing, outRing, noMoreInput, encodeResult, ev, timer, m, mt,
                    supplied, accepted, written, streams>>
    BY <1>32, WorkerDiesDoes
  <2>. QED
    BY <1>1, <2>1, <2>2, <2>3, <2>4, <2>5, <2>6 DEF TypeInv
<1>33. CASE CompilerDies
  <2>1. m' \in MainType
    BY <1>1, <1>33, CompilerDiesDoes, NoneTypes DEF TypeInv
  <2>2. wpc' \in {"await", "encode", "encoded", "exited"}
    BY <1>1, <1>33, CompilerDiesDoes, NoneTypes DEF TypeInv
  <2>3. rd' \in ReadType
    BY <1>1, <1>33, CompilerDiesDoes, NoneTypes DEF TypeInv
  <2>4. wr' \in WriteType
    BY <1>1, <1>33, CompilerDiesDoes, NoneTypes DEF TypeInv
  <2>5. enc' \in EncType
    BY <1>1, <1>33, CompilerDiesDoes, NoneTypes DEF TypeInv
  <2>6. faults' \in Nat
    <3>1. faults' = faults + 1 \/ faults' = faults
      BY <1>33, CompilerDiesDoes
    <3>. QED
      BY <1>1, <3>1 DEF TypeInv
  <2>7. UNCHANGED <<inRing, outRing, noMoreInput, encodeResult, ev, timer, mt,
                    supplied, accepted, written, streams>>
    BY <1>33, CompilerDiesDoes
  <2>. QED
    BY <1>1, <2>1, <2>2, <2>3, <2>4, <2>5, <2>6, <2>7 DEF TypeInv
<1>34. CASE UNCHANGED vars
  BY <1>1, <1>34 DEF vars, shared, worker, history, TypeInv
<1>. QED
  BY NextIs, <1>1, <1>2, <1>3, <1>4, <1>5, <1>6, <1>7, <1>8, <1>9, <1>10, <1>11, <1>12,
     <1>13, <1>14, <1>15, <1>16, <1>17, <1>18, <1>19, <1>20, <1>21, <1>22, <1>23,
     <1>24, <1>25, <1>26, <1>27, <1>28, <1>29, <1>30, <1>31, <1>32, <1>33, <1>34
     DEF Begins

\* FlowInv is kept.
LEMMA FlowStep ==
    ASSUME CompressorInv, [Next]_vars
    PROVE  FlowInv'
<1>1. TypeInv /\ FlowInv /\ HandInv
  BY DEF CompressorInv
<1>2. ASSUME NEW call \in {"Compress", "Finish"}, NEW count \in Nat, call = "Finish" => count = 0,
            Begin(call, count)
      PROVE  FlowInv'
  <2>1. /\ m.pc = "idle" /\ m'.pc = "enter" /\ m'.call = call /\ m'.left = count
        /\ m'.wrote = m.wrote /\ m'.started
        /\ accepted' = accepted + count /\ written' = written
        /\ IF m.started THEN noMoreInput' = noMoreInput /\ supplied' = supplied
           ELSE ~noMoreInput' /\ supplied' = 0
    BY <1>2, BeginDoes, NoneTypes
  <2>. QED
    BY <1>1, <2>1, <1>2 DEF FlowInv, TypeInv, MainType, Ending, Closed
<1>3. CASE SetNoMoreInput
  BY <1>1, <1>3, SetNoMoreInputDoes
     DEF TypeInv, MainType, MainPcs, Ending, Closed, FlowInv
<1>4. CASE EnterCompress
  <2>1. /\ m.pc = "enter" /\ m.call = "Compress" /\ m'.pc = "top"
        /\ m'.call = m.call /\ m'.left = m.left /\ m'.wrote = m.wrote /\ m'.finished = m.finished /\ m'.started = m.started
        /\ UNCHANGED <<noMoreInput, accepted, supplied, written>>
    BY <1>4, EnterCompressDoes, NoneTypes
  <2>. QED
    BY <1>1, <2>1 DEF FlowInv, TypeInv, MainType, Ending, Closed
<1>5. CASE CompressLoop
  BY <1>1, <1>5, CompressLoopDoes
     DEF TypeInv, MainType, MainPcs, Ending, Closed, FlowInv
<1>6. CASE FinishLoop
  BY <1>1, <1>6, FinishLoopDoes DEF TypeInv, MainType, MainPcs, Ending, Closed, FlowInv
<1>7. CASE SatisfyWorkerWait
  BY <1>1, <1>7, SatisfyWorkerWaitDoes, SMTT(20)
     DEF TypeInv, MainType, MainPcs, Ending, Closed, FlowInv
<1>8. CASE UpdateProgress
  <2>1. /\ m.pc = "progress" /\ m'.pc \in {"flush", "raised"}
        /\ m'.call = m.call /\ m'.left = m.left /\ m'.wrote = m.wrote /\ m'.finished = m.finished /\ m'.started = m.started
        /\ UNCHANGED <<noMoreInput, accepted, supplied, written>>
    BY <1>8, UpdateProgressDoes, NoneTypes
  <2>. QED
    BY <1>1, <2>1 DEF FlowInv, TypeInv, MainType, Ending, Closed
<1>9. CASE FlushOutputBuffer
  BY <1>1, <1>9, FlushOutputBufferDoes
     DEF TypeInv, MainType, MainPcs, Ending, Closed, FlowInv
<1>10. CASE CallWriteProc
  BY <1>1, <1>10, CallWriteProcDoes, SMTT(20)
     DEF TypeInv, MainType, MainPcs, Ending, Closed, FlowInv
<1>11. CASE ReadToCallbackDone
  <2>1. /\ m.pc = "sub"
        /\ m'.pc = "call" \/ (m'.pc = "satisfy" /\ m'.on = "Output" /\ m'.next = "flush")
        /\ m'.call = m.call /\ m'.left = m.left /\ m'.wrote = m.wrote /\ m'.finished = m.finished /\ m'.started = m.started
        /\ UNCHANGED <<noMoreInput, accepted, supplied, written>>
    BY <1>11, ReadToCallbackDoneDoes, NoneTypes
  <2>. QED
    BY <1>1, <2>1 DEF FlowInv, TypeInv, MainType, Ending, Closed
<1>12. CASE FlushReturns
  <2>1. /\ m.pc = "flushed"
        /\ \/ m.call = "Compress" /\ m'.pc = "write" /\ m'.call = m.call
           \/ m.call = "Finish" /\ m'.pc = "wait" /\ m'.call = m.call
           \/ m.call = "Drain" /\ m'.pc = "flush" /\ m'.call = "DrainAll"
           \/ m.call = "DrainAll" /\ m'.pc = "check" /\ m'.call = m.call
        /\ m'.left = m.left /\ m'.wrote = m.wrote /\ m'.finished = m.finished /\ m'.started = m.started
        /\ UNCHANGED <<noMoreInput, accepted, supplied, written>>
    BY <1>12, FlushReturnsDoes, NoneTypes
  <2>. QED
    BY <1>1, <2>1 DEF FlowInv, TypeInv, MainType, Ending, Closed
<1>13. CASE WriteInput
  BY <1>1, <1>13, WriteInputDoes, SMTT(20) DEF TypeInv, MainType, MainPcs, Ending, Closed, FlowInv
<1>14. CASE PublishInput
  <2>1. /\ m.pc = "add" /\ m'.pc = "write"
        /\ m'.wrote = m.wrote + m.bytes /\ supplied' = supplied + m.bytes
        /\ m'.call = m.call /\ m'.left = m.left /\ m'.finished = m.finished /\ m'.started = m.started
        /\ UNCHANGED <<noMoreInput, accepted, written>>
    BY <1>14, PublishInputDoes, NoneTypes
  <2>2. m.bytes \in 1 .. m.left - m.wrote
    BY <2>1, CompressorInv DEF CompressorInv, MoveInv
  <2>. QED
    BY <1>1, <2>1, <2>2 DEF FlowInv, TypeInv, MainType, Ending, Closed
<1>15. CASE WaitForWorkerEvent
  <2>1. /\ m.pc = "wait" /\ m'.pc \in {"raised", "top"}
        /\ m'.finished = m.finished \/ m'.finished
        /\ m'.call = m.call /\ m'.left = m.left /\ m'.wrote = m.wrote /\ m'.started = m.started
        /\ UNCHANGED <<noMoreInput, accepted, supplied, written>>
    BY <1>15, WaitForWorkerEventDoes, NoneTypes
  <2>. QED
    BY <1>1, <2>1 DEF FlowInv, TypeInv, MainType, Ending, Closed
<1>16. CASE CheckResult
  BY <1>1, <1>16, CheckResultDoes
     DEF TypeInv, MainType, MainPcs, Ending, Closed, FlowInv
<1>17. CASE Free
  BY <1>1, <1>17, FreeDoes DEF TypeInv, MainType, MainPcs, Ending, Closed, FlowInv
<1>18. CASE Join
  BY <1>1, <1>18, JoinDoes DEF TypeInv, MainType, MainPcs, Ending, Closed, FlowInv
<1>19. CASE WorkerThreadProc
  BY <1>1, <1>19, WorkerThreadProcDoes
     DEF TypeInv, MainType, MainPcs, Ending, Closed, FlowInv
<1>20. CASE EndOfInput
  BY <1>1, <1>20, EndOfInputDoes DEF TypeInv, MainType, MainPcs, Ending, Closed, FlowInv
<1>21. CASE ReadRing
  BY <1>1, <1>21, ReadRingDoes DEF TypeInv, MainType, MainPcs, Ending, Closed, FlowInv
<1>22. CASE ReadDone
  BY <1>1, <1>22, ReadDoneDoes DEF TypeInv, MainType, MainPcs, Ending, Closed, FlowInv
<1>23. CASE WaitForInput
  BY <1>1, <1>23, WaitForInputDoes
     DEF TypeInv, MainType, MainPcs, Ending, Closed, FlowInv
<1>24. CASE WriteRing
  BY <1>1, <1>24, WriteRingDoes DEF TypeInv, MainType, MainPcs, Ending, Closed, FlowInv
<1>25. CASE WriteDone
  BY <1>1, <1>25, WriteDoneDoes DEF TypeInv, MainType, MainPcs, Ending, Closed, FlowInv
<1>26. CASE WaitForOutput
  BY <1>1, <1>26, WaitForOutputDoes
     DEF TypeInv, MainType, MainPcs, Ending, Closed, FlowInv
<1>27. CASE EncoderReads
  BY <1>1, <1>27, EncoderReadsDoes
     DEF TypeInv, MainType, MainPcs, Ending, Closed, FlowInv
<1>28. CASE EncoderWrites
  BY <1>1, <1>28, EncoderWritesDoes
     DEF TypeInv, MainType, MainPcs, Ending, Closed, FlowInv
<1>29. CASE EncoderReturns
  BY <1>1, <1>29, EncoderReturnsDoes
     DEF TypeInv, MainType, MainPcs, Ending, Closed, FlowInv
<1>30. CASE EncoderFails
  BY <1>1, <1>30, EncoderFailsDoes
     DEF TypeInv, MainType, MainPcs, Ending, Closed, FlowInv
<1>31. CASE Tick
  BY <1>1, <1>31, TickDoes DEF TypeInv, MainType, MainPcs, Ending, Closed, FlowInv
<1>32. CASE WorkerDies
  BY <1>1, <1>32, WorkerDiesDoes DEF TypeInv, MainType, MainPcs, Ending, Closed, FlowInv
<1>33. CASE CompilerDies
  BY <1>1, <1>33, CompilerDiesDoes
     DEF TypeInv, MainType, MainPcs, Ending, Closed, FlowInv
<1>34. CASE UNCHANGED vars
  BY <1>1, <1>34
     DEF vars, shared, worker, history, TypeInv, MainType, MainPcs, Ending, Closed,
         FlowInv
<1>. QED
  BY NextIs, <1>1, <1>2, <1>3, <1>4, <1>5, <1>6, <1>7, <1>8, <1>9, <1>10, <1>11, <1>12,
     <1>13, <1>14, <1>15, <1>16, <1>17, <1>18, <1>19, <1>20, <1>21, <1>22, <1>23,
     <1>24, <1>25, <1>26, <1>27, <1>28, <1>29, <1>30, <1>31, <1>32, <1>33, <1>34
     DEF Begins

\* HandInv is kept.
LEMMA HandStep ==
    ASSUME CompressorInv, [Next]_vars
    PROVE  HandInv'
<1>1. TypeInv /\ FlowInv /\ HandInv
  BY DEF CompressorInv
<1>2. ASSUME NEW call \in {"Compress", "Finish"}, NEW count \in Nat, call = "Finish" => count = 0,
            Begin(call, count)
      PROVE  HandInv'
  <2>1. /\ m.pc = "idle" /\ m'.pc = "enter" /\ UNCHANGED <<wpc, rd, wr, enc>>
        /\ \/ m.started /\ m'.started /\ m'.finished = m.finished /\ UNCHANGED ev
           \/ /\ ~m.started /\ m'.started /\ ~m'.finished
              /\ ~ev'["WorkerEncodeFinished"] /\ ev'["StartEncode"]
              /\ \A e \in Events \ {"WorkerEncodeFinished", "StartEncode"} : ev'[e] = ev[e]
    BY <1>2, BeginDoes
  <2>2. ev'["TerminateWorker"] = ev["TerminateWorker"]
    BY <2>1 DEF Events
  <2>. QED
    BY <1>1, <2>1, <2>2 DEF HandInv
<1>3. CASE SetNoMoreInput
  BY <1>1, <1>3, NoneTypes, SetNoMoreInputDoes
     DEF TypeInv, EncType, Events, FlowInv, HandInv, Closed, MustEnd
<1>4. CASE EnterCompress
  BY <1>1, <1>4, NoneTypes, EnterCompressDoes
     DEF TypeInv, EncType, Events, FlowInv, HandInv, Closed, MustEnd
<1>5. CASE CompressLoop
  BY <1>1, <1>5, NoneTypes, CompressLoopDoes
     DEF TypeInv, EncType, Events, FlowInv, HandInv, Closed, MustEnd
<1>6. CASE FinishLoop
  BY <1>1, <1>6, NoneTypes, FinishLoopDoes
     DEF TypeInv, EncType, Events, FlowInv, HandInv, Closed, MustEnd
<1>7. CASE SatisfyWorkerWait
  BY <1>1, <1>7, NoneTypes, SatisfyWorkerWaitDoes
     DEF TypeInv, EncType, Events, FlowInv, HandInv, Closed, MustEnd
<1>8. CASE UpdateProgress
  BY <1>1, <1>8, NoneTypes, UpdateProgressDoes
     DEF TypeInv, EncType, Events, FlowInv, HandInv, Closed, MustEnd
<1>9. CASE FlushOutputBuffer
  BY <1>1, <1>9, NoneTypes, FlushOutputBufferDoes
     DEF TypeInv, EncType, Events, FlowInv, HandInv, Closed, MustEnd
<1>10. CASE CallWriteProc
  BY <1>1, <1>10, NoneTypes, CallWriteProcDoes
     DEF TypeInv, EncType, Events, FlowInv, HandInv, Closed, MustEnd
<1>11. CASE ReadToCallbackDone
  BY <1>1, <1>11, NoneTypes, ReadToCallbackDoneDoes
     DEF TypeInv, EncType, Events, FlowInv, HandInv, Closed, MustEnd
<1>12. CASE FlushReturns
  BY <1>1, <1>12, NoneTypes, FlushReturnsDoes
     DEF TypeInv, EncType, Events, FlowInv, HandInv, Closed, MustEnd
<1>13. CASE WriteInput
  BY <1>1, <1>13, NoneTypes, WriteInputDoes
     DEF TypeInv, EncType, Events, FlowInv, HandInv, Closed, MustEnd
<1>14. CASE PublishInput
  BY <1>1, <1>14, NoneTypes, PublishInputDoes
     DEF TypeInv, EncType, Events, FlowInv, HandInv, Closed, MustEnd
<1>15. CASE WaitForWorkerEvent
  BY <1>1, <1>15, NoneTypes, WaitForWorkerEventDoes
     DEF TypeInv, EncType, Events, FlowInv, HandInv, Closed, MustEnd
<1>16. CASE CheckResult
  BY <1>1, <1>16, NoneTypes, CheckResultDoes
     DEF TypeInv, EncType, Events, FlowInv, HandInv, Closed, MustEnd
<1>17. CASE Free
  BY <1>1, <1>17, NoneTypes, FreeDoes
     DEF TypeInv, EncType, Events, FlowInv, HandInv, Closed, MustEnd
<1>18. CASE Join
  BY <1>1, <1>18, NoneTypes, JoinDoes
     DEF TypeInv, EncType, Events, FlowInv, HandInv, Closed, MustEnd
<1>19. CASE WorkerThreadProc
  BY <1>1, <1>19, NoneTypes, WorkerThreadProcDoes
     DEF TypeInv, EncType, Events, FlowInv, HandInv, Closed, MustEnd
<1>20. CASE EndOfInput
  BY <1>1, <1>20, NoneTypes, EndOfInputDoes
     DEF TypeInv, EncType, Events, FlowInv, HandInv, Closed, MustEnd
<1>21. CASE ReadRing
  BY <1>1, <1>21, NoneTypes, ReadRingDoes
     DEF TypeInv, EncType, Events, FlowInv, HandInv, Closed, MustEnd
<1>22. CASE ReadDone
  BY <1>1, <1>22, NoneTypes, ReadDoneDoes
     DEF TypeInv, EncType, Events, FlowInv, HandInv, Closed, MustEnd
<1>23. CASE WaitForInput
  <2>1. /\ UNCHANGED <<m, wpc>> /\ rd.pc \in {"wake", "wait"}
        /\ \/ UNCHANGED ev
           \/ \A e \in Events \ {"WorkerWaitingOnInput"} : ev'[e] = ev[e]
           \/ \A e \in Events \ {"EndWaitOnInput"} : ev'[e] = ev[e]
    BY <1>23, WaitForInputDoes
  <2>2. \A e \in {"TerminateWorker", "StartEncode", "WorkerEncodeFinished"} : ev'[e] = ev[e]
    BY <2>1 DEF Events
  <2>3. wpc = "encode"
    BY <1>1, <2>1, NoneTypes DEF HandInv
  <2>. QED
    BY <1>1, <2>1, <2>2, <2>3 DEF HandInv
<1>24. CASE WriteRing
  BY <1>1, <1>24, NoneTypes, WriteRingDoes
     DEF TypeInv, EncType, Events, FlowInv, HandInv, Closed, MustEnd
<1>25. CASE WriteDone
  BY <1>1, <1>25, NoneTypes, WriteDoneDoes
     DEF TypeInv, EncType, Events, FlowInv, HandInv, Closed, MustEnd
<1>26. CASE WaitForOutput
  <2>1. /\ UNCHANGED <<m, wpc>> /\ wr.pc \in {"wake", "wait"}
        /\ \/ UNCHANGED ev
           \/ \A e \in Events \ {"WorkerWaitingOnOutput"} : ev'[e] = ev[e]
           \/ \A e \in Events \ {"EndWaitOnOutput"} : ev'[e] = ev[e]
    BY <1>26, WaitForOutputDoes
  <2>2. \A e \in {"TerminateWorker", "StartEncode", "WorkerEncodeFinished"} : ev'[e] = ev[e]
    BY <2>1 DEF Events
  <2>3. wpc = "encode"
    BY <1>1, <2>1, NoneTypes DEF HandInv
  <2>. QED
    BY <1>1, <2>1, <2>2, <2>3 DEF HandInv
<1>27. CASE EncoderReads
  BY <1>1, <1>27, NoneTypes, EncoderReadsDoes
     DEF TypeInv, EncType, Events, FlowInv, HandInv, Closed, MustEnd
<1>28. CASE EncoderWrites
  BY <1>1, <1>28, NoneTypes, EncoderWritesDoes
     DEF TypeInv, EncType, Events, FlowInv, HandInv, Closed, MustEnd
<1>29. CASE EncoderReturns
  BY <1>1, <1>29, NoneTypes, EncoderReturnsDoes
     DEF TypeInv, EncType, Events, FlowInv, HandInv, Closed, MustEnd
<1>30. CASE EncoderFails
  BY <1>1, <1>30, NoneTypes, EncoderFailsDoes
     DEF TypeInv, EncType, Events, FlowInv, HandInv, Closed, MustEnd
<1>31. CASE Tick
  BY <1>1, <1>31, NoneTypes, TickDoes
     DEF TypeInv, EncType, Events, FlowInv, HandInv, Closed, MustEnd
<1>32. CASE WorkerDies
  BY <1>1, <1>32, NoneTypes, WorkerDiesDoes
     DEF TypeInv, EncType, Events, FlowInv, HandInv, Closed, MustEnd
<1>33. CASE CompilerDies
  BY <1>1, <1>33, NoneTypes, CompilerDiesDoes
     DEF TypeInv, EncType, Events, FlowInv, HandInv, Closed, MustEnd
<1>34. CASE UNCHANGED vars
  BY <1>1, <1>34
     DEF vars, shared, worker, history, TypeInv, EncType, Events, FlowInv, HandInv,
         Closed, MustEnd
<1>. QED
  BY NextIs, <1>1, <1>2, <1>3, <1>4, <1>5, <1>6, <1>7, <1>8, <1>9, <1>10, <1>11, <1>12,
     <1>13, <1>14, <1>15, <1>16, <1>17, <1>18, <1>19, <1>20, <1>21, <1>22, <1>23,
     <1>24, <1>25, <1>26, <1>27, <1>28, <1>29, <1>30, <1>31, <1>32, <1>33, <1>34
     DEF Begins

\* WakeInv is kept.
LEMMA WakeStep ==
    ASSUME CompressorInv, [Next]_vars
    PROVE  WakeInv'
<1>1. TypeInv /\ HandInv /\ WakeInv /\ FlowInv
  BY DEF CompressorInv
<1>2. ASSUME NEW call \in {"Compress", "Finish"}, NEW count \in Nat, call = "Finish" => count = 0,
            Begin(call, count)
      PROVE  WakeInv'
  <2>1. /\ m.pc = "idle" /\ m'.pc = "enter" /\ UNCHANGED <<wpc, rd, wr, enc>>
        /\ \/ UNCHANGED ev
           \/ \A e \in Events \ {"WorkerEncodeFinished", "StartEncode"} : ev'[e] = ev[e]
    BY <1>2, BeginDoes
  <2>2. \A e \in Events \ {"WorkerEncodeFinished", "StartEncode"} : ev'[e] = ev[e]
    BY <2>1
  <2>3. \A e \in {"TerminateWorker", "WorkerWaitingOnInput", "EndWaitOnInput",
                  "WorkerWaitingOnOutput", "EndWaitOnOutput"} : ev'[e] = ev[e]
    BY <2>2 DEF Events
  <2>. QED
    BY <1>1, <2>1, <2>3 DEF WakeInv, Stale, MustEnd
<1>3. CASE SetNoMoreInput
  BY <1>1, <1>3, NoneTypes, SetNoMoreInputDoes
     DEF TypeInv, Events, HandInv, WakeInv, Stale, MustEnd
<1>4. CASE EnterCompress
  BY <1>1, <1>4, NoneTypes, EnterCompressDoes
     DEF TypeInv, Events, HandInv, WakeInv, Stale, MustEnd
<1>5. CASE CompressLoop
  BY <1>1, <1>5, NoneTypes, CompressLoopDoes
     DEF TypeInv, Events, HandInv, WakeInv, Stale, MustEnd
<1>6. CASE FinishLoop
  BY <1>1, <1>6, NoneTypes, FinishLoopDoes
     DEF TypeInv, Events, HandInv, WakeInv, Stale, MustEnd
<1>7. CASE SatisfyWorkerWait
  <2>1. m.pc \in {"satisfy", "wake"} /\ UNCHANGED <<rd, wr, wpc, enc>>
    BY <1>7, SatisfyWorkerWaitDoes
  <2>2. \/ /\ m.pc = "satisfy" /\ m.on = "Input" /\ ev["WorkerWaitingOnInput"]
           /\ m'.pc = "wake" /\ m'.on = m.on /\ ~ev'["WorkerWaitingOnInput"]
           /\ \A e \in Events \ {"WorkerWaitingOnInput"} : ev'[e] = ev[e]
        \/ /\ m.pc = "satisfy" /\ m.on = "Output" /\ ev["WorkerWaitingOnOutput"]
           /\ m'.pc = "wake" /\ m'.on = m.on /\ ~ev'["WorkerWaitingOnOutput"]
           /\ \A e \in Events \ {"WorkerWaitingOnOutput"} : ev'[e] = ev[e]
        \/ m'.pc = m.next /\ UNCHANGED ev
        \/ /\ m.pc = "wake" /\ m.on = "Input" /\ m'.pc = m.next /\ ev'["EndWaitOnInput"]
           /\ \A e \in Events \ {"EndWaitOnInput"} : ev'[e] = ev[e]
        \/ /\ m.pc = "wake" /\ m.on = "Output" /\ m'.pc = m.next /\ ev'["EndWaitOnOutput"]
           /\ \A e \in Events \ {"EndWaitOnOutput"} : ev'[e] = ev[e]
    BY <1>7, SatisfyWorkerWaitDoes
  <2>3. m.next \in {"idle", "progress", "wait", "top", "flush", "flushed"}
    BY <1>1 DEF TypeInv, MainType
  <2>. QED
    BY <1>1, <2>1, <2>2, <2>3 DEF WakeInv, Stale, MustEnd, Events, HandInv
<1>8. CASE UpdateProgress
  BY <1>1, <1>8, NoneTypes, UpdateProgressDoes
     DEF TypeInv, Events, HandInv, WakeInv, Stale, MustEnd
<1>9. CASE FlushOutputBuffer
  BY <1>1, <1>9, NoneTypes, FlushOutputBufferDoes
     DEF TypeInv, Events, HandInv, WakeInv, Stale, MustEnd
<1>10. CASE CallWriteProc
  BY <1>1, <1>10, NoneTypes, CallWriteProcDoes
     DEF TypeInv, Events, HandInv, WakeInv, Stale, MustEnd
<1>11. CASE ReadToCallbackDone
  BY <1>1, <1>11, NoneTypes, ReadToCallbackDoneDoes
     DEF TypeInv, Events, HandInv, WakeInv, Stale, MustEnd
<1>12. CASE FlushReturns
  BY <1>1, <1>12, NoneTypes, FlushReturnsDoes
     DEF TypeInv, Events, HandInv, WakeInv, Stale, MustEnd
<1>13. CASE WriteInput
  BY <1>1, <1>13, NoneTypes, WriteInputDoes
     DEF TypeInv, Events, HandInv, WakeInv, Stale, MustEnd
<1>14. CASE PublishInput
  BY <1>1, <1>14, NoneTypes, PublishInputDoes
     DEF TypeInv, Events, HandInv, WakeInv, Stale, MustEnd
<1>15. CASE WaitForWorkerEvent
  BY <1>1, <1>15, NoneTypes, WaitForWorkerEventDoes
     DEF TypeInv, Events, HandInv, WakeInv, Stale, MustEnd
<1>16. CASE CheckResult
  BY <1>1, <1>16, NoneTypes, CheckResultDoes
     DEF TypeInv, Events, HandInv, WakeInv, Stale, MustEnd
<1>17. CASE Free
  BY <1>1, <1>17, NoneTypes, FreeDoes
     DEF TypeInv, Events, HandInv, WakeInv, Stale, MustEnd
<1>18. CASE Join
  BY <1>1, <1>18, NoneTypes, JoinDoes
     DEF TypeInv, Events, HandInv, WakeInv, Stale, MustEnd
<1>19. CASE WorkerThreadProc
  BY <1>1, <1>19, NoneTypes, WorkerThreadProcDoes
     DEF TypeInv, Events, HandInv, WakeInv, Stale, MustEnd
<1>20. CASE EndOfInput
  BY <1>1, <1>20, NoneTypes, EndOfInputDoes
     DEF TypeInv, Events, HandInv, WakeInv, Stale, MustEnd
<1>21. CASE ReadRing
  BY <1>1, <1>21, NoneTypes, ReadRingDoes
     DEF TypeInv, Events, HandInv, WakeInv, Stale, MustEnd
<1>22. CASE ReadDone
  BY <1>1, <1>22, NoneTypes, ReadDoneDoes
     DEF TypeInv, Events, HandInv, WakeInv, Stale, MustEnd
<1>23. CASE WaitForInput
  BY <1>1, <1>23, NoneTypes, WaitForInputDoes
     DEF TypeInv, Events, HandInv, WakeInv, Stale, MustEnd
<1>24. CASE WriteRing
  BY <1>1, <1>24, NoneTypes, WriteRingDoes
     DEF TypeInv, Events, HandInv, WakeInv, Stale, MustEnd
<1>25. CASE WriteDone
  BY <1>1, <1>25, NoneTypes, WriteDoneDoes
     DEF TypeInv, Events, HandInv, WakeInv, Stale, MustEnd
<1>26. CASE WaitForOutput
  BY <1>1, <1>26, NoneTypes, WaitForOutputDoes
     DEF TypeInv, Events, HandInv, WakeInv, Stale, MustEnd
<1>27. CASE EncoderReads
  BY <1>1, <1>27, NoneTypes, EncoderReadsDoes
     DEF TypeInv, Events, HandInv, WakeInv, Stale, MustEnd
<1>28. CASE EncoderWrites
  BY <1>1, <1>28, NoneTypes, EncoderWritesDoes
     DEF TypeInv, Events, HandInv, WakeInv, Stale, MustEnd
<1>29. CASE EncoderReturns
  BY <1>1, <1>29, NoneTypes, EncoderReturnsDoes
     DEF TypeInv, Events, HandInv, WakeInv, Stale, MustEnd
<1>30. CASE EncoderFails
  BY <1>1, <1>30, NoneTypes, EncoderFailsDoes
     DEF TypeInv, Events, HandInv, WakeInv, Stale, MustEnd
<1>31. CASE Tick
  BY <1>1, <1>31, NoneTypes, TickDoes
     DEF TypeInv, Events, HandInv, WakeInv, Stale, MustEnd
<1>32. CASE WorkerDies
  BY <1>1, <1>32, NoneTypes, WorkerDiesDoes
     DEF TypeInv, Events, HandInv, WakeInv, Stale, MustEnd
<1>33. CASE CompilerDies
  BY <1>1, <1>33, NoneTypes, CompilerDiesDoes
     DEF TypeInv, Events, HandInv, WakeInv, Stale, MustEnd
<1>34. CASE UNCHANGED vars
  BY <1>1, <1>34
     DEF vars, shared, worker, history, TypeInv, Events, HandInv, WakeInv, Stale,
         MustEnd
<1>. QED
  BY NextIs, <1>1, <1>2, <1>3, <1>4, <1>5, <1>6, <1>7, <1>8, <1>9, <1>10, <1>11, <1>12,
     <1>13, <1>14, <1>15, <1>16, <1>17, <1>18, <1>19, <1>20, <1>21, <1>22, <1>23,
     <1>24, <1>25, <1>26, <1>27, <1>28, <1>29, <1>30, <1>31, <1>32, <1>33, <1>34
     DEF Begins

\* MoveInv is kept.
LEMMA MoveStep ==
    ASSUME CompressorInv, [Next]_vars
    PROVE  MoveInv'
<1>1. TypeInv /\ MoveInv /\ HandInv
  BY DEF CompressorInv
<1>2. ASSUME NEW call \in {"Compress", "Finish"}, NEW count \in Nat, call = "Finish" => count = 0,
            Begin(call, count)
      PROVE  MoveInv'
  <2>1. /\ m.pc = "idle" /\ m'.pc = "enter" /\ UNCHANGED <<rd, wr>>
        /\ \/ UNCHANGED <<inRing, outRing>>
           \/ /\ ~m.started
              /\ inRing'.count = 0 /\ inRing'.w = 0 /\ inRing'.r = 0
              /\ outRing'.count = 0 /\ outRing'.w = 0 /\ outRing'.r = 0
    BY <1>2, BeginDoes, NoneTypes
  <2>2. ~m.started => rd = NoRead /\ wr = NoWrite
    BY <1>1, <2>1 DEF HandInv
  <2>. QED
    BY <1>1, <2>1, <2>2, NoneTypes, BufferAssumption DEF MoveInv, Aligned
<1>3. CASE SetNoMoreInput
  <2>1. UNCHANGED <<inRing, outRing, rd, wr>> /\ m'.pc \notin {"add", "call", "sub"}
    BY <1>3, SetNoMoreInputDoes
  <2>. QED
    BY <1>1, <2>1 DEF MoveInv
<1>4. CASE EnterCompress
  <2>1. UNCHANGED <<inRing, outRing, rd, wr>> /\ m'.pc \notin {"add", "call", "sub"}
    BY <1>4, EnterCompressDoes
  <2>. QED
    BY <1>1, <2>1 DEF MoveInv
<1>5. CASE CompressLoop
  <2>1. UNCHANGED <<inRing, outRing, rd, wr>> /\ m'.pc \notin {"add", "call", "sub"}
    BY <1>5, CompressLoopDoes
  <2>. QED
    BY <1>1, <2>1 DEF MoveInv
<1>6. CASE FinishLoop
  <2>1. UNCHANGED <<inRing, outRing, rd, wr>> /\ m'.pc \notin {"add", "call", "sub"}
    BY <1>6, FinishLoopDoes
  <2>. QED
    BY <1>1, <2>1 DEF MoveInv
<1>7. CASE SatisfyWorkerWait
  <2>1. /\ m.pc \in {"satisfy", "wake"} /\ m'.pc \in {"wake", m.next}
        /\ UNCHANGED <<inRing, outRing, rd, wr>>
    BY <1>7, SatisfyWorkerWaitDoes, NoneTypes
  <2>2. m.next \notin {"add", "call", "sub"}
    BY <1>1 DEF TypeInv, MainType
  <2>. QED
    BY <1>1, <2>1, <2>2 DEF MoveInv
<1>8. CASE UpdateProgress
  <2>1. UNCHANGED <<inRing, outRing, rd, wr>> /\ m'.pc \notin {"add", "call", "sub"}
    BY <1>8, UpdateProgressDoes
  <2>. QED
    BY <1>1, <2>1 DEF MoveInv
<1>9. CASE FlushOutputBuffer
  <2>1. /\ m'.pc = "satisfy" \/ (outRing.count # 0 /\ m'.pc = "call" /\ m'.size = Least(outRing.count, OptimalFlushSize))
        /\ UNCHANGED <<inRing, outRing, rd, wr>>
    BY <1>9, FlushOutputBufferDoes, NoneTypes
  <2>2. outRing.count # 0 => Least(outRing.count, OptimalFlushSize) \in 1 .. outRing.count
    BY <1>1, BufferAssumption DEF TypeInv, RingTypes, Least
  <2>. QED
    BY <1>1, <2>1, <2>2 DEF MoveInv
<1>10. CASE CallWriteProc
  <2>1. /\ m.pc = "call" /\ UNCHANGED <<inRing, outRing, rd, wr>>
        /\ m'.pc = "raised" \/ (m'.pc = "sub" /\ m'.size = m.size /\ m'.bytes = ReadBytes(outRing, m.size))
    BY <1>10, CallWriteProcDoes, NoneTypes
  <2>2. outRing \in RingTypes /\ m.size \in 1 .. outRing.count /\ outRing.count \in Nat
    BY <1>1, <2>1 DEF TypeInv, MoveInv, RingTypes
  <2>3. /\ ReadBytes(outRing, m.size) \in 1 .. m.size
        /\ ReadBytes(outRing, m.size) <= BufSize - outRing.r
    BY <2>2, ReadBytesFit
  <2>. QED
    BY <1>1, <2>1, <2>2, <2>3 DEF MoveInv
<1>11. CASE ReadToCallbackDone
  <2>1. /\ m.pc = "sub" /\ outRing' = SubCount(outRing, m.bytes)
        /\ \/ m'.pc = "satisfy"
           \/ m'.pc = "call" /\ m'.size = m.size - m.bytes /\ m.size - m.bytes > 0
        /\ UNCHANGED <<inRing, rd, wr>>
    BY <1>11, ReadToCallbackDoneDoes, NoneTypes
  <2>2. /\ inRing.count \in 0 .. BufSize /\ outRing.count \in 0 .. BufSize
        /\ inRing.w \in 0 .. BufSize - 1 /\ inRing.r \in 0 .. BufSize - 1
        /\ outRing.w \in 0 .. BufSize - 1 /\ outRing.r \in 0 .. BufSize - 1
    BY <1>1 DEF TypeInv, RingTypes
  <2>3. outRing \in RingTypes /\ Aligned(outRing) /\ m.bytes \in 1 .. outRing.count /\ m.bytes <= BufSize - outRing.r
    BY <1>1, <2>1, <2>2 DEF TypeInv, MoveInv, MainType
  <2>4. Aligned(outRing') /\ outRing'.count = outRing.count - m.bytes /\ outRing'.w = outRing.w
    BY <2>1, <2>3, CountSubtracted
  <2>5. m.size - m.bytes > 0 => m.size - m.bytes \in 1 .. outRing.count - m.bytes
    BY <1>1, <2>1, <2>2 DEF MoveInv, TypeInv, MainType
  <2>6. wr.pc = "add" => wr.bytes <= BufSize - (outRing.count - m.bytes)
    BY <1>1, <2>2, <2>3, BufferAssumption DEF MoveInv, TypeInv, WriteType
  <2>7. /\ m'.pc = "call" => m'.size \in 1 .. outRing'.count
        /\ m'.pc \notin {"add", "sub"} /\ UNCHANGED <<inRing, rd, wr>>
    BY <2>1, <2>4, <2>5
  <2>. QED
    BY <1>1, <2>4, <2>6, <2>7 DEF MoveInv
<1>12. CASE FlushReturns
  <2>1. UNCHANGED <<inRing, outRing, rd, wr>> /\ m'.pc \notin {"add", "call", "sub"}
    BY <1>12, FlushReturnsDoes
  <2>. QED
    BY <1>1, <2>1 DEF MoveInv
<1>13. CASE WriteInput
  <2>. DEFINE k == WriteBytes(inRing, m.left - m.wrote)
  <2>1. /\ m.pc = "write" /\ UNCHANGED <<outRing, rd, wr>>
        /\ \/ /\ m'.pc = "add" /\ m'.bytes = k /\ m'.left = m.left /\ m'.wrote = m.wrote
              /\ k > 0 /\ inRing' = MoveIn(inRing, [i \in 1 .. k |-> supplied + i], k)
           \/ m'.pc \in {"satisfy", "top"} /\ inRing' = inRing
    BY <1>13, WriteInputDoes
  <2>2. /\ inRing.count \in 0 .. BufSize /\ outRing.count \in 0 .. BufSize
        /\ inRing.w \in 0 .. BufSize - 1 /\ inRing.r \in 0 .. BufSize - 1
        /\ outRing.w \in 0 .. BufSize - 1 /\ outRing.r \in 0 .. BufSize - 1
    BY <1>1 DEF TypeInv, RingTypes
  <2>3. inRing \in RingTypes /\ Aligned(inRing) /\ m.left - m.wrote \in Nat
    BY <1>1, <2>1, CompressorInv
       DEF CompressorInv, TypeInv, MoveInv, FlowInv, Closed, MainType
  <2>4. k \in 0 .. m.left - m.wrote /\ k <= BufSize - inRing.count /\ k <= BufSize - inRing.w
    BY <2>3, WriteBytesFit
  <2>. HIDE DEF k
  <2>5. k > 0 => /\ Aligned(MoveIn(inRing, [i \in 1 .. k |-> supplied + i], k))
                 /\ MoveIn(inRing, [i \in 1 .. k |-> supplied + i], k).count = inRing.count
                 /\ MoveIn(inRing, [i \in 1 .. k |-> supplied + i], k).w = inRing.w
                 /\ MoveIn(inRing, [i \in 1 .. k |-> supplied + i], k).r = inRing.r
    <3>1. \A j \in 1 .. k : [i \in 1 .. k |-> supplied + i][j] \in Item
      BY <1>1, <2>4, <2>3 DEF TypeInv, WriteType, Item
    <3>2. /\ MoveIn(inRing, [i \in 1 .. k |-> supplied + i], k).count = inRing.count
          /\ MoveIn(inRing, [i \in 1 .. k |-> supplied + i], k).w = inRing.w
          /\ MoveIn(inRing, [i \in 1 .. k |-> supplied + i], k).r = inRing.r
      BY <2>3, <2>4, <3>1, MovedIn
    <3>. QED
      BY <2>3, <3>2 DEF Aligned
  <2>6. /\ Aligned(inRing') /\ inRing'.count = inRing.count
        /\ inRing'.w = inRing.w /\ inRing'.r = inRing.r
    BY <2>1, <2>3, <2>5
  <2>. QED
    BY <1>1, <2>1, <2>2, <2>3, <2>4, <2>6 DEF MoveInv
<1>14. CASE PublishInput
  <2>1. /\ m.pc = "add" /\ m'.pc = "write" /\ inRing' = AddCount(inRing, m.bytes)
        /\ UNCHANGED <<outRing, rd, wr>>
    BY <1>14, PublishInputDoes, NoneTypes
  <2>2. /\ inRing.count \in 0 .. BufSize /\ outRing.count \in 0 .. BufSize
        /\ inRing.w \in 0 .. BufSize - 1 /\ inRing.r \in 0 .. BufSize - 1
        /\ outRing.w \in 0 .. BufSize - 1 /\ outRing.r \in 0 .. BufSize - 1
    BY <1>1 DEF TypeInv, RingTypes
  <2>3. inRing \in RingTypes /\ Aligned(inRing) /\ m.bytes \in Nat /\ m.bytes > 0
        /\ m.bytes <= BufSize - inRing.count /\ m.bytes <= BufSize - inRing.w
    BY <1>1, <2>1, <2>2 DEF TypeInv, MoveInv, MainType
  <2>4. Aligned(inRing') /\ inRing'.count = inRing.count + m.bytes /\ inRing'.r = inRing.r
    BY <2>1, <2>3, CountAdded
  <2>. QED
    BY <1>1, <2>1, <2>2, <2>3, <2>4 DEF MoveInv
<1>15. CASE WaitForWorkerEvent
  <2>1. UNCHANGED <<inRing, outRing, rd, wr>> /\ m'.pc \notin {"add", "call", "sub"}
    BY <1>15, WaitForWorkerEventDoes
  <2>. QED
    BY <1>1, <2>1 DEF MoveInv
<1>16. CASE CheckResult
  <2>1. UNCHANGED <<inRing, outRing, rd, wr>> /\ m'.pc \notin {"add", "call", "sub"}
    BY <1>16, CheckResultDoes
  <2>. QED
    BY <1>1, <2>1 DEF MoveInv
<1>17. CASE Free
  <2>1. UNCHANGED <<inRing, outRing, rd, wr>> /\ m'.pc \notin {"add", "call", "sub"}
    BY <1>17, FreeDoes
  <2>. QED
    BY <1>1, <2>1 DEF MoveInv
<1>18. CASE Join
  <2>1. UNCHANGED <<inRing, outRing, rd, wr>> /\ m'.pc \notin {"add", "call", "sub"}
    BY <1>18, JoinDoes
  <2>. QED
    BY <1>1, <2>1 DEF MoveInv
<1>19. CASE WorkerThreadProc
  <2>1. UNCHANGED <<inRing, outRing, m, rd, wr>>
    BY <1>19, WorkerThreadProcDoes
  <2>. QED
    BY <1>1, <2>1 DEF MoveInv
<1>20. CASE EndOfInput
  <2>1. UNCHANGED <<inRing, outRing, m, wr>> /\ rd'.pc # "sub"
    BY <1>20, EndOfInputDoes, NoneTypes
  <2>. QED
    BY <1>1, <2>1 DEF MoveInv
<1>21. CASE ReadRing
  <2>1. /\ rd.pc = "ring" /\ UNCHANGED <<inRing, outRing, m, wr>>
        /\ \/ rd'.pc \in {"fill", "wake"}
           \/ /\ rd'.pc = "sub" /\ rd'.size = rd.size /\ rd'.bytes = ReadBytes(inRing, rd.size)
              /\ ReadBytes(inRing, rd.size) > 0
              /\ rd'.data = rd.data \o MoveOut(inRing, ReadBytes(inRing, rd.size))
    BY <1>21, ReadRingDoes, NoneTypes
  <2>2. inRing \in RingTypes /\ rd.size \in Nat /\ rd.data \in Seq(Item) /\ inRing.count \in Nat
    BY <1>1, <2>1 DEF TypeInv, ReadType, RingTypes
  <2>. DEFINE k == ReadBytes(inRing, rd.size)
  <2>3. k \in 0 .. rd.size /\ k \in 0 .. inRing.count /\ k <= BufSize - inRing.r
    BY <2>2, ReadBytesFit
  <2>4. MoveOut(inRing, k) \in Seq(Item) /\ Len(MoveOut(inRing, k)) = k
    BY <2>2, <2>3, MovedOut
  <2>. HIDE DEF k
  <2>5. k > 0 => k \in 1 .. rd.size /\ k <= inRing.count /\ k <= Len(rd.data \o MoveOut(inRing, k))
    <3>1. Len(rd.data \o MoveOut(inRing, k)) = Len(rd.data) + k /\ Len(rd.data) \in Nat
      BY <2>2, <2>4
    <3>. QED
      BY <2>2, <2>3, <3>1
  <2>6. rd'.pc = "sub" => /\ rd'.size = rd.size /\ rd'.bytes = k /\ k > 0
                        /\ rd'.data = rd.data \o MoveOut(inRing, k)
    BY <2>1 DEF k
  <2>. QED
    BY <1>1, <2>1, <2>6, <2>3, <2>5 DEF MoveInv
<1>22. CASE ReadDone
  <2>1. /\ rd.pc = "sub" /\ rd'.pc # "sub" /\ inRing' = SubCount(inRing, rd.bytes)
        /\ UNCHANGED <<outRing, m, wr>>
    BY <1>22, ReadDoneDoes, NoneTypes
  <2>2. /\ inRing.count \in 0 .. BufSize /\ outRing.count \in 0 .. BufSize
        /\ inRing.w \in 0 .. BufSize - 1 /\ inRing.r \in 0 .. BufSize - 1
        /\ outRing.w \in 0 .. BufSize - 1 /\ outRing.r \in 0 .. BufSize - 1
    BY <1>1 DEF TypeInv, RingTypes
  <2>3. inRing \in RingTypes /\ Aligned(inRing) /\ rd.bytes \in 1 .. inRing.count /\ rd.bytes <= BufSize - inRing.r
    BY <1>1, <2>1, <2>2 DEF TypeInv, MoveInv, ReadType
  <2>4. Aligned(inRing') /\ inRing'.count = inRing.count - rd.bytes /\ inRing'.w = inRing.w
    BY <2>1, <2>3, CountSubtracted
  <2>5. m.pc = "add" => m.bytes <= BufSize - (inRing.count - rd.bytes)
    <3>1. m.bytes \in Nat /\ (m.pc = "add" => m.bytes <= BufSize - inRing.count)
      BY <1>1 DEF MoveInv, TypeInv, MainType
    <3>. QED
      BY <2>2, <2>3, <3>1, BufferAssumption
  <2>6. UNCHANGED <<outRing, m, wr>> /\ rd'.pc # "sub"
    BY <2>1
  <2>. QED
    BY <1>1, <2>4, <2>5, <2>6 DEF MoveInv
<1>23. CASE WaitForInput
  <2>1. UNCHANGED <<inRing, outRing, m, wr>> /\ rd'.pc # "sub"
    BY <1>23, WaitForInputDoes, NoneTypes
  <2>. QED
    BY <1>1, <2>1 DEF MoveInv
<1>24. CASE WriteRing
  <2>. DEFINE k == WriteBytes(outRing, Len(wr.data))
  <2>1. /\ wr.pc = "ring" /\ UNCHANGED <<inRing, rd, m>>
        /\ \/ /\ wr'.pc = "add" /\ wr'.bytes = k /\ wr'.data = wr.data
              /\ k > 0 /\ outRing' = MoveIn(outRing, wr.data, k)
           \/ wr'.pc \in {"ring", "wake"} /\ outRing' = outRing
    BY <1>24, WriteRingDoes
  <2>2. /\ inRing.count \in 0 .. BufSize /\ outRing.count \in 0 .. BufSize
        /\ inRing.w \in 0 .. BufSize - 1 /\ inRing.r \in 0 .. BufSize - 1
        /\ outRing.w \in 0 .. BufSize - 1 /\ outRing.r \in 0 .. BufSize - 1
    BY <1>1 DEF TypeInv, RingTypes
  <2>3. outRing \in RingTypes /\ Aligned(outRing) /\ Len(wr.data) \in Nat
    BY <1>1, <2>1, CompressorInv DEF CompressorInv, TypeInv, MoveInv, WriteType
  <2>4. k \in 0 .. Len(wr.data) /\ k <= BufSize - outRing.count /\ k <= BufSize - outRing.w
    BY <2>3, WriteBytesFit
  <2>. HIDE DEF k
  <2>5. k > 0 => /\ Aligned(MoveIn(outRing, wr.data, k))
                 /\ MoveIn(outRing, wr.data, k).count = outRing.count
                 /\ MoveIn(outRing, wr.data, k).w = outRing.w
                 /\ MoveIn(outRing, wr.data, k).r = outRing.r
    <3>1. \A i \in 1 .. k : wr.data[i] \in Item
      BY <1>1, <2>4, <2>3 DEF TypeInv, WriteType, Item
    <3>2. /\ MoveIn(outRing, wr.data, k).count = outRing.count
          /\ MoveIn(outRing, wr.data, k).w = outRing.w
          /\ MoveIn(outRing, wr.data, k).r = outRing.r
      BY <2>3, <2>4, <3>1, MovedIn
    <3>. QED
      BY <2>3, <3>2 DEF Aligned
  <2>6. /\ Aligned(outRing') /\ outRing'.count = outRing.count
        /\ outRing'.w = outRing.w /\ outRing'.r = outRing.r
    BY <2>1, <2>3, <2>5
  <2>. QED
    BY <1>1, <2>1, <2>2, <2>3, <2>4, <2>6 DEF MoveInv
<1>25. CASE WriteDone
  <2>1. /\ wr.pc = "add" /\ wr'.pc # "add" /\ outRing' = AddCount(outRing, wr.bytes)
        /\ UNCHANGED <<inRing, rd, m>>
    BY <1>25, WriteDoneDoes, NoneTypes
  <2>2. /\ inRing.count \in 0 .. BufSize /\ outRing.count \in 0 .. BufSize
        /\ inRing.w \in 0 .. BufSize - 1 /\ inRing.r \in 0 .. BufSize - 1
        /\ outRing.w \in 0 .. BufSize - 1 /\ outRing.r \in 0 .. BufSize - 1
    BY <1>1 DEF TypeInv, RingTypes
  <2>3. outRing \in RingTypes /\ Aligned(outRing) /\ wr.bytes \in Nat /\ wr.bytes > 0
        /\ wr.bytes <= BufSize - outRing.count /\ wr.bytes <= BufSize - outRing.w
    BY <1>1, <2>1, <2>2 DEF TypeInv, MoveInv, WriteType
  <2>4. Aligned(outRing') /\ outRing'.count = outRing.count + wr.bytes /\ outRing'.r = outRing.r
    BY <2>1, <2>3, CountAdded
  <2>5. /\ m.pc = "call" => m.size \in 1 .. outRing.count + wr.bytes
        /\ m.pc = "sub" => m.size <= outRing.count + wr.bytes
    BY <1>1, <2>2, <2>3, BufferAssumption, SMTT(20) DEF MoveInv, TypeInv, MainType
  <2>6. UNCHANGED <<inRing, m, rd>> /\ wr'.pc # "add"
    BY <2>1
  <2>. QED
    BY <1>1, <2>4, <2>5, <2>6 DEF MoveInv
<1>26. CASE WaitForOutput
  <2>1. UNCHANGED <<inRing, outRing, m, rd>> /\ wr'.pc # "add"
    BY <1>26, WaitForOutputDoes, NoneTypes
  <2>. QED
    BY <1>1, <2>1 DEF MoveInv
<1>27. CASE EncoderReads
  <2>1. UNCHANGED <<inRing, outRing, m, wr>> /\ rd'.pc # "sub"
    BY <1>27, EncoderReadsDoes, NoneTypes
  <2>. QED
    BY <1>1, <2>1 DEF MoveInv
<1>28. CASE EncoderWrites
  <2>1. UNCHANGED <<inRing, outRing, m, rd>> /\ wr'.pc # "add"
    BY <1>28, EncoderWritesDoes, NoneTypes
  <2>. QED
    BY <1>1, <2>1 DEF MoveInv
<1>29. CASE EncoderReturns
  <2>1. UNCHANGED <<inRing, outRing, m, rd, wr>>
    BY <1>29, EncoderReturnsDoes
  <2>. QED
    BY <1>1, <2>1 DEF MoveInv
<1>30. CASE EncoderFails
  <2>1. UNCHANGED <<inRing, outRing, m, rd, wr>>
    BY <1>30, EncoderFailsDoes
  <2>. QED
    BY <1>1, <2>1 DEF MoveInv
<1>31. CASE Tick
  <2>1. UNCHANGED <<inRing, outRing, m, rd, wr>>
    BY <1>31, TickDoes
  <2>. QED
    BY <1>1, <2>1 DEF MoveInv
<1>32. CASE WorkerDies
  <2>1. UNCHANGED <<inRing, outRing, m>> /\ rd'.pc = "none" /\ wr'.pc = "none"
    BY <1>32, WorkerDiesDoes, NoneTypes
  <2>. QED
    BY <1>1, <2>1 DEF MoveInv
<1>33. CASE CompilerDies
  <2>1. /\ UNCHANGED <<inRing, outRing>> /\ m'.pc = "dead"
        /\ UNCHANGED <<rd, wr>> \/ (rd'.pc = "none" /\ wr'.pc = "none")
    BY <1>33, CompilerDiesDoes, NoneTypes
  <2>. QED
    BY <1>1, <2>1 DEF MoveInv
<1>34. CASE UNCHANGED vars
  BY <1>1, <1>34
     DEF vars, shared, worker, history, TypeInv, MainType, ReadType, WriteType,
         RingTypes, MoveInv
<1>. QED
  BY NextIs, <1>1, <1>2, <1>3, <1>4, <1>5, <1>6, <1>7, <1>8, <1>9, <1>10, <1>11, <1>12,
     <1>13, <1>14, <1>15, <1>16, <1>17, <1>18, <1>19, <1>20, <1>21, <1>22, <1>23,
     <1>24, <1>25, <1>26, <1>27, <1>28, <1>29, <1>30, <1>31, <1>32, <1>33, <1>34
     DEF Begins

\* InInv is kept.
LEMMA InStep ==
    ASSUME CompressorInv, [Next]_vars
    PROVE  InInv'
<1>1. TypeInv /\ HandInv /\ InInv
  BY DEF CompressorInv
<1>2. ASSUME NEW call \in {"Compress", "Finish"}, NEW count \in Nat, call = "Finish" => count = 0,
            Begin(call, count)
      PROVE  InInv'
  <2>1. /\ m'.pc = "enter" /\ UNCHANGED <<rd, wpc, enc>> /\ m.pc = "idle"
        /\ \/ m.started /\ UNCHANGED <<inRing, supplied>>
           \/ ~m.started /\ inRing'.count = 0 /\ supplied' = 0
    BY <1>2, BeginDoes
  <2>2. CASE m.started /\ UNCHANGED <<inRing, supplied>>
    BY <1>1, <2>1, <2>2, InFrame DEF Taken
  <2>3. CASE ~m.started /\ inRing'.count = 0 /\ supplied' = 0
    <3>1. rd' = NoRead /\ wpc' # "encode"
      BY <1>1, <2>1, <2>3 DEF HandInv
    <3>2. Taken' = 0 /\ Len(rd'.data) = 0
      BY <3>1, NoneTypes DEF Taken
    <3>. QED
      BY <2>1, <2>3, <3>1, <3>2 DEF InInv
  <2>. QED
    BY <2>1, <2>2, <2>3
<1>3. CASE SetNoMoreInput
  BY <1>1, <1>3, NoneTypes, SetNoMoreInputDoes DEF TypeInv, InInv, Taken, Given, HandInv
<1>4. CASE EnterCompress
  BY <1>1, <1>4, NoneTypes, EnterCompressDoes DEF TypeInv, InInv, Taken, Given, HandInv
<1>5. CASE CompressLoop
  BY <1>1, <1>5, NoneTypes, CompressLoopDoes DEF TypeInv, InInv, Taken, Given, HandInv
<1>6. CASE FinishLoop
  BY <1>1, <1>6, NoneTypes, FinishLoopDoes DEF TypeInv, InInv, Taken, Given, HandInv
<1>7. CASE SatisfyWorkerWait
  <2>1. /\ UNCHANGED <<inRing, supplied, rd, wpc, enc>>
        /\ m.pc \in {"satisfy", "wake"} /\ m'.pc \in {"wake", m.next}
    BY <1>7, SatisfyWorkerWaitDoes
  <2>2. m'.pc # "add"
    BY <1>1, <2>1 DEF TypeInv, MainType
  <2>. QED
    BY <1>1, <2>1, InFrame, <2>2 DEF Taken
<1>8. CASE UpdateProgress
  <2>1. /\ UNCHANGED <<inRing, supplied, rd, wpc, enc>>
        /\ m'.pc \in {"flush", "raised"}
    BY <1>8, UpdateProgressDoes
  <2>. QED
    BY <1>1, <2>1, InFrame DEF Taken
<1>9. CASE FlushOutputBuffer
  BY <1>1, <1>9, NoneTypes, FlushOutputBufferDoes
     DEF TypeInv, InInv, Taken, Given, HandInv
<1>10. CASE CallWriteProc
  BY <1>1, <1>10, NoneTypes, CallWriteProcDoes DEF TypeInv, InInv, Taken, Given, HandInv
<1>11. CASE ReadToCallbackDone
  BY <1>1, <1>11, NoneTypes, ReadToCallbackDoneDoes
     DEF TypeInv, InInv, Taken, Given, HandInv
<1>12. CASE FlushReturns
  BY <1>1, <1>12, NoneTypes, FlushReturnsDoes DEF TypeInv, InInv, Taken, Given, HandInv
<1>13. CASE WriteInput
  <2>. DEFINE k == WriteBytes(inRing, m.left - m.wrote)
              data == [i \in 1 .. k |-> supplied + i]
  <2>1. /\ m.pc = "write" /\ UNCHANGED <<rd, wpc, enc, supplied>>
        /\ \/ m'.pc = "add" /\ m'.bytes = k /\ k > 0 /\ inRing' = MoveIn(inRing, data, k)
           \/ m'.pc \in {"satisfy", "top"} /\ inRing' = inRing
    BY <1>13, WriteInputDoes
  <2>2. inRing \in RingTypes /\ Aligned(inRing) /\ supplied \in Nat /\ m.left - m.wrote \in Nat
    BY <2>1, CompressorInv
       DEF CompressorInv, TypeInv, MoveInv, FlowInv, Closed, MainType
  <2>3. k \in Nat /\ k <= BufSize - inRing.count /\ k <= BufSize - inRing.w
    BY <2>2, WriteBytesFit
  <2>4. CASE m'.pc \in {"satisfy", "top"} /\ inRing' = inRing
    BY <1>1, <2>1, <2>4, InFrame DEF Taken
  <2>5. CASE m'.pc = "add" /\ m'.bytes = k /\ k > 0 /\ inRing' = MoveIn(inRing, data, k)
    <3>. HIDE DEF k
    <3>1. \A i \in 1 .. k : data[i] \in Item /\ data[i] = supplied + i
      BY <2>2, <2>3 DEF Item
    <3>. HIDE DEF data
    <3>2. /\ inRing'.count = inRing.count /\ inRing'.w = inRing.w
          /\ \A i \in 1 .. k : inRing'.buf[inRing.w + i - 1] = data[i]
          /\ \A i \in 1 .. inRing.count :
               inRing'.buf[Place(inRing, i)] = inRing.buf[Place(inRing, i)]
          /\ inRing'.r = inRing.r
      BY <2>2, <2>3, <2>5, <3>1, MovedIn
    <3>3. Taken' = Taken /\ Given' = Given
      BY <2>1, <3>2 DEF Taken, Given
    <3>4. \A i : Place(inRing', i) = Place(inRing, i)
      BY <3>2 DEF Place
    <3>5. \A i \in 1 .. inRing.count : inRing'.buf[Place(inRing', i)] = supplied - inRing.count + i
      BY <1>1, <3>2, <3>4 DEF InInv
    <3>. QED
      BY <1>1, <2>1, <2>5, <3>1, <3>2, <3>3, <3>5 DEF InInv
  <2>. QED
    BY <2>1, <2>4, <2>5
<1>14. CASE PublishInput
  <2>1. /\ m.pc = "add" /\ m'.pc = "write" /\ UNCHANGED <<rd, wpc, enc>>
        /\ inRing' = AddCount(inRing, m.bytes) /\ supplied' = supplied + m.bytes
    BY <1>14, PublishInputDoes
  <2>2. /\ inRing \in RingTypes /\ inRing.count \in Nat /\ supplied \in Nat
        /\ rd.data \in Seq(Item) /\ Len(rd.data) \in Nat /\ rd.bytes \in Nat
    BY <1>1 DEF TypeInv, RingTypes, ReadType
  <2>3. /\ m.bytes \in Nat /\ m.bytes > 0 /\ Aligned(inRing)
        /\ m.bytes <= BufSize - inRing.count /\ m.bytes <= BufSize - inRing.w
    BY <2>1, CompressorInv DEF CompressorInv, MoveInv, TypeInv, MainType
  <2>4. /\ inRing'.count = inRing.count + m.bytes /\ inRing'.buf = inRing.buf
        /\ \A i \in 1 .. inRing.count : Place(inRing', i) = Place(inRing, i)
        /\ \A i \in 1 .. m.bytes : Place(inRing', inRing.count + i) = inRing.w + i - 1
    BY <2>1, <2>2, <2>3, CountAdded
  <2>5. Taken' = Taken /\ Taken \in Int
    BY <2>1, <2>2 DEF Taken
  <2>6. Given' = Given
    BY <2>1, <2>2, <2>3, <2>4, <2>5 DEF Given
  <2>7. ASSUME NEW i \in 1 .. inRing'.count
        PROVE  inRing'.buf[Place(inRing', i)] = supplied' - inRing'.count + i
    <3>1. supplied' - inRing'.count + i = supplied - inRing.count + i
      BY <2>1, <2>2, <2>3, <2>4
    <3>2. CASE i \in 1 .. inRing.count
      BY <1>1, <2>4, <3>1, <3>2 DEF InInv
    <3>3. CASE i \notin 1 .. inRing.count
      <4>. DEFINE j == i - inRing.count
      <4>1. j \in 1 .. m.bytes /\ i = inRing.count + j
        BY <2>2, <2>3, <2>4, <3>3
      <4>2. inRing.buf[inRing.w + j - 1] = supplied + j
        BY <1>1, <2>1, <4>1 DEF InInv
      <4>3. Place(inRing', i) = inRing.w + j - 1
        BY <2>4, <4>1
      <4>4. supplied - inRing.count + i = supplied + j
        BY <2>2, <2>3, <4>1
      <4>. QED
        BY <2>4, <3>1, <4>2, <4>3, <4>4
    <3>. QED
      BY <3>2, <3>3
  <2>8. inRing'.count <= supplied' /\ Taken' + inRing'.count <= supplied'
    BY <1>1, <2>1, <2>2, <2>3, <2>4, <2>5 DEF InInv
  <2>. QED
    BY <1>1, <2>1, <2>5, <2>6, <2>7, <2>8 DEF InInv
<1>15. CASE WaitForWorkerEvent
  <2>1. /\ UNCHANGED <<inRing, supplied, rd, wpc, enc>>
        /\ m'.pc \in {"top", "raised"}
    BY <1>15, WaitForWorkerEventDoes
  <2>. QED
    BY <1>1, <2>1, InFrame DEF Taken
<1>16. CASE CheckResult
  <2>1. /\ UNCHANGED <<inRing, supplied, rd, wpc, enc>>
        /\ m'.pc \in {"idle", "raised"}
    BY <1>16, CheckResultDoes
  <2>. QED
    BY <1>1, <2>1, InFrame DEF Taken
<1>17. CASE Free
  BY <1>1, <1>17, NoneTypes, FreeDoes DEF TypeInv, InInv, Taken, Given, HandInv
<1>18. CASE Join
  BY <1>1, <1>18, NoneTypes, JoinDoes DEF TypeInv, InInv, Taken, Given, HandInv
<1>19. CASE WorkerThreadProc
  <2>1. /\ UNCHANGED <<inRing, supplied, m, rd>> /\ wpc # "encode"
        /\ wpc' # "encode" \/ enc' = NewEncoder
    BY <1>19, WorkerThreadProcDoes
  <2>2. /\ inRing \in RingTypes /\ inRing.count \in Nat /\ supplied \in Nat
        /\ rd.data \in Seq(Item) /\ Len(rd.data) \in Nat /\ rd.bytes \in Nat
    BY <1>1 DEF TypeInv, RingTypes, ReadType
  <2>3. Taken' = Taken /\ Given' = Given /\ Taken \in Int
    BY <2>1, <2>2 DEF Taken, Given
  <2>4. Given >= 0
    BY <1>1, <2>2, <2>3 DEF InInv, Given
  <2>5. wpc' = "encode" => enc'.pending = <<>> /\ Len(enc'.pending) = 0
    BY <2>1, NoneTypes
  <2>. QED
    BY <1>1, <2>1, <2>3, <2>4, <2>5 DEF InInv
<1>20. CASE EndOfInput
  <2>1. /\ UNCHANGED <<inRing, supplied, m, wpc>> /\ rd.pc \in {"fill", "empty"}
        /\ \/ rd'.pc \in {"empty", "ring"} /\ rd'.data = rd.data /\ UNCHANGED enc
           \/ rd' = NoRead /\ enc'.pending = enc.pending \o rd.data /\ enc'.failed = enc.failed
    BY <1>20, EndOfInputDoes
  <2>2. /\ inRing \in RingTypes /\ inRing.count \in Nat /\ supplied \in Nat
        /\ rd.data \in Seq(Item) /\ Len(rd.data) \in Nat /\ rd.bytes \in Nat
    BY <1>1 DEF TypeInv, RingTypes, ReadType
  <2>3. CASE rd'.pc \in {"empty", "ring"} /\ rd'.data = rd.data /\ UNCHANGED enc
    BY <1>1, <2>1, <2>3, InFrame DEF Taken
  <2>4. CASE /\ rd' = NoRead /\ enc'.failed = enc.failed
             /\ enc'.pending = enc.pending \o rd.data
    <3>1. Taken = Len(rd.data) /\ Taken' = 0 /\ Len(rd'.data) = 0
      BY <2>1, <2>4, NoneTypes DEF Taken
    <3>2. Given' = Given + Len(rd.data) /\ Given \in Int
      BY <2>1, <2>2, <3>1 DEF Given
    <3>3. CASE wpc = "encode" /\ ~enc.failed
      <4>1. enc.pending \in Seq(Item) /\ Len(enc.pending) \in Nat
        BY <1>1 DEF TypeInv, EncType
      <4>2. /\ Len(enc'.pending) = Len(enc.pending) + Len(rd.data)
            /\ \A i \in 1 .. Len(enc'.pending) : enc'.pending[i] =
                 IF i <= Len(enc.pending) THEN enc.pending[i] ELSE rd.data[i - Len(enc.pending)]
        <5>. DEFINE s == enc.pending
                    t == rd.data
                    st == s \o t
        <5>1. s \in Seq(Item) /\ t \in Seq(Item) /\ enc'.pending = st
          BY <2>2, <2>4, <4>1
        <5>. HIDE DEF s, t
        <5>2. /\ Len(st) = Len(s) + Len(t)
              /\ \A i \in 1 .. Len(s) + Len(t) :
                   st[i] = IF i <= Len(s) THEN s[i] ELSE t[i - Len(s)]
          BY <5>1, ConcatIs, Zenon
        <5>. HIDE DEF st
        <5>. QED
          BY <5>1, <5>2 DEF s, t
      <4>. DEFINE p == Len(enc.pending)
                  d == Len(rd.data)
      <4>3. p \in Nat /\ d \in Nat /\ Len(enc'.pending) = p + d /\ Given' = Given + d
        BY <2>2, <3>2, <4>1, <4>2
      <4>. HIDE DEF p, d
      <4>4. ASSUME NEW i \in 1 .. p + d
            PROVE  enc'.pending[i] = Given - p + i
        <5>1. CASE i <= p
          <6>1. i \in 1 .. p
            BY <4>3, <5>1
          <6>2. enc.pending[i] = Given - p + i
            BY <1>1, <3>3, <6>1 DEF InInv, p
          <6>. QED
            BY <4>2, <4>3, <5>1, <6>2 DEF p
        <5>2. CASE ~(i <= p)
          <6>1. i - p \in 1 .. d /\ Given + (i - p) = Given - p + i
            BY <3>2, <4>3, <5>2
          <6>2. rd.data[i - p] = Given + (i - p)
            BY <1>1, <6>1 DEF InInv, d
          <6>. QED
            BY <4>2, <4>3, <5>2, <6>1, <6>2 DEF p
        <5>. QED
          BY <5>1, <5>2
      <4>5. p <= Given
        BY <1>1, <3>3 DEF InInv, p
      <4>6. /\ Len(enc'.pending) <= Given'
            /\ \A i \in 1 .. Len(enc'.pending) :
                 enc'.pending[i] = Given' - Len(enc'.pending) + i
        <5>1. Given' - Len(enc'.pending) = Given - p /\ Len(enc'.pending) <= Given'
          BY <3>2, <4>3, <4>5
        <5>. QED
          BY <4>3, <4>4, <5>1
      <4>. QED
        BY <1>1, <2>1, <2>2, <3>1, <4>6 DEF InInv
    <3>4. CASE ~(wpc = "encode" /\ ~enc.failed)
      BY <1>1, <2>1, <2>4, <3>4, InDropped
    <3>. QED
      BY <3>3, <3>4
  <2>. QED
    BY <2>1, <2>3, <2>4
<1>21. CASE ReadRing
  <2>. DEFINE k == ReadBytes(inRing, rd.size)
              more == MoveOut(inRing, k)
  <2>1. /\ UNCHANGED <<inRing, supplied, m, wpc, enc>> /\ rd.pc = "ring"
        /\ \/ rd'.pc = "sub" /\ rd'.bytes = k /\ rd'.data = rd.data \o more
           \/ rd'.pc \in {"fill", "wake"} /\ rd'.data = rd.data
    BY <1>21, ReadRingDoes
  <2>2. /\ inRing \in RingTypes /\ inRing.count \in Nat /\ supplied \in Nat
        /\ rd.data \in Seq(Item) /\ Len(rd.data) \in Nat /\ rd.bytes \in Nat
    BY <1>1 DEF TypeInv, RingTypes, ReadType
  <2>3. CASE rd'.pc \in {"fill", "wake"} /\ rd'.data = rd.data
    BY <1>1, <2>1, <2>3, InFrame DEF Taken
  <2>4. CASE rd'.pc = "sub" /\ rd'.bytes = k /\ rd'.data = rd.data \o more
    <3>1. rd.size \in Nat
      BY <1>1 DEF TypeInv, ReadType
    <3>2. k \in 0 .. inRing.count /\ k <= BufSize - inRing.r
      BY <2>2, <3>1, ReadBytesFit
    <3>. HIDE DEF k
    <3>3. /\ more \in Seq(Item) /\ Len(more) = k
          /\ \A i \in 1 .. k : more[i] = inRing.buf[Place(inRing, i)]
      BY <2>2, <3>2, MovedOut
    <3>. HIDE DEF more
    <3>4. /\ Len(rd'.data) = Len(rd.data) + k
          /\ \A i \in 1 .. Len(rd'.data) : rd'.data[i] =
               IF i <= Len(rd.data) THEN rd.data[i] ELSE more[i - Len(rd.data)]
      <4>. DEFINE s == rd.data
                  st == s \o more
      <4>1. s \in Seq(Item) /\ rd'.data = st
        BY <2>2, <2>4
      <4>. HIDE DEF s
      <4>2. /\ Len(st) = Len(s) + Len(more)
            /\ \A i \in 1 .. Len(s) + Len(more) :
                 st[i] = IF i <= Len(s) THEN s[i] ELSE more[i - Len(s)]
        BY <3>3, <4>1, ConcatIs, Zenon
      <4>. HIDE DEF st
      <4>. QED
        BY <3>3, <4>1, <4>2 DEF s
    <3>5. Taken = Len(rd.data) /\ Taken' = Taken
      BY <2>1, <2>2, <2>4, <3>2, <3>4 DEF Taken
    <3>6. Given' = Given /\ Given \in Int /\ Given + Len(rd.data) = supplied - inRing.count
      BY <2>1, <2>2, <3>5 DEF Given
    <3>7. ASSUME NEW i \in 1 .. Len(rd'.data)
          PROVE  rd'.data[i] = Given' + i
      <4>1. CASE i <= Len(rd.data)
        <5>1. i \in 1 .. Len(rd.data)
          BY <2>2, <4>1
        <5>. QED
          BY <1>1, <3>4, <3>6, <4>1, <5>1 DEF InInv
      <4>2. CASE ~(i <= Len(rd.data))
        <5>1. i - Len(rd.data) \in 1 .. k /\ i - Len(rd.data) \in 1 .. inRing.count
          BY <2>2, <3>2, <3>4, <4>2
        <5>2. more[i - Len(rd.data)] = supplied - inRing.count + (i - Len(rd.data))
          BY <1>1, <3>3, <5>1 DEF InInv
        <5>3. supplied - inRing.count + (i - Len(rd.data)) = Given + i
          BY <2>2, <3>6
        <5>. QED
          BY <3>4, <3>6, <4>2, <5>2, <5>3
      <4>. QED
        BY <4>1, <4>2
    <3>. QED
      BY <1>1, <2>1, <3>5, <3>6, <3>7 DEF InInv
  <2>. QED
    BY <2>1, <2>3, <2>4
<1>22. CASE ReadDone
  <2>1. /\ UNCHANGED <<supplied, m, wpc, enc>> /\ rd.pc = "sub"
        /\ rd'.pc # "sub" /\ rd'.data = rd.data /\ inRing' = SubCount(inRing, rd.bytes)
    BY <1>22, ReadDoneDoes
  <2>2. /\ inRing \in RingTypes /\ inRing.count \in Nat /\ supplied \in Nat
        /\ rd.data \in Seq(Item) /\ Len(rd.data) \in Nat /\ rd.bytes \in Nat
    BY <1>1 DEF TypeInv, RingTypes, ReadType
  <2>3. rd.bytes \in 1 .. inRing.count /\ rd.bytes <= BufSize - inRing.r /\ Aligned(inRing)
    BY <2>1, <2>2, CompressorInv DEF CompressorInv, MoveInv
  <2>4. /\ inRing'.count = inRing.count - rd.bytes /\ inRing'.buf = inRing.buf
        /\ inRing'.w = inRing.w
        /\ \A i \in 1 .. inRing.count - rd.bytes :
             Place(inRing', i) = Place(inRing, rd.bytes + i)
    BY <2>1, <2>2, <2>3, CountSubtracted
  <2>5. Taken = Len(rd.data) - rd.bytes /\ Taken' = Taken + rd.bytes /\ Taken \in Int
    BY <2>1, <2>2 DEF Taken
  <2>6. Given' = Given
    BY <2>1, <2>2, <2>4, <2>5 DEF Given
  <2>7. ASSUME NEW i \in 1 .. inRing'.count
        PROVE  inRing'.buf[Place(inRing', i)] = supplied' - inRing'.count + i
    <3>1. rd.bytes + i \in 1 .. inRing.count /\ i \in 1 .. inRing.count - rd.bytes
      BY <2>2, <2>3, <2>4
    <3>2. inRing.buf[Place(inRing, rd.bytes + i)] = supplied - inRing.count + (rd.bytes + i)
      BY <1>1, <3>1 DEF InInv
    <3>3. supplied - inRing.count + (rd.bytes + i) = supplied' - inRing'.count + i
      BY <2>1, <2>2, <2>3, <2>4
    <3>. QED
      BY <2>4, <3>1, <3>2, <3>3
  <2>8. inRing'.count <= supplied' /\ Taken' + inRing'.count <= supplied'
    BY <1>1, <2>1, <2>2, <2>3, <2>4, <2>5 DEF InInv
  <2>. QED
    BY <1>1, <2>1, <2>4, <2>6, <2>7, <2>8 DEF InInv
<1>23. CASE WaitForInput
  <2>1. /\ UNCHANGED <<inRing, supplied, m, wpc>> /\ rd.pc \in {"wake", "wait"}
        /\ \/ rd'.pc \in {"wait", "fill"} /\ rd'.data = rd.data /\ UNCHANGED enc
           \/ rd' = NoRead /\ enc'.failed
    BY <1>23, WaitForInputDoes
  <2>2. CASE rd'.pc \in {"wait", "fill"} /\ rd'.data = rd.data /\ UNCHANGED enc
    BY <1>1, <2>1, <2>2, InFrame DEF Taken
  <2>3. CASE rd' = NoRead /\ enc'.failed
    BY <1>1, <2>1, <2>3, InDropped
  <2>. QED
    BY <2>1, <2>2, <2>3
<1>24. CASE WriteRing
  BY <1>1, <1>24, NoneTypes, WriteRingDoes DEF TypeInv, InInv, Taken, Given, HandInv
<1>25. CASE WriteDone
  BY <1>1, <1>25, NoneTypes, WriteDoneDoes DEF TypeInv, InInv, Taken, Given, HandInv
<1>26. CASE WaitForOutput
  <2>1. /\ UNCHANGED <<inRing, supplied, rd, wpc, m>>
        /\ UNCHANGED enc \/ (enc'.failed /\ enc'.pending = enc.pending)
    BY <1>26, WaitForOutputDoes
  <2>. QED
    BY <1>1, <2>1, InFrame DEF Taken
<1>27. CASE EncoderReads
  BY <1>1, <1>27, NoneTypes, EncoderReadsDoes DEF TypeInv, InInv, Taken, Given, HandInv
<1>28. CASE EncoderWrites
  <2>1. /\ UNCHANGED <<inRing, supplied, m, wpc, rd>> /\ wpc = "encode" /\ ~enc.failed
        /\ \/ /\ Len(wr'.data) \in 1 .. Len(enc.pending)
              /\ Len(enc'.pending) = Len(enc.pending) - Len(wr'.data)
              /\ \A i \in 1 .. Len(enc'.pending) :
                   enc'.pending[i] = enc.pending[Len(wr'.data) + i]
           \/ enc.pending = <<>> /\ enc'.pending = <<>>
    BY <1>28, EncoderWritesDoes
  <2>2. /\ inRing \in RingTypes /\ inRing.count \in Nat /\ supplied \in Nat
        /\ rd.data \in Seq(Item) /\ Len(rd.data) \in Nat /\ rd.bytes \in Nat
    BY <1>1 DEF TypeInv, RingTypes, ReadType
  <2>3. Taken' = Taken /\ Given' = Given /\ Given \in Int /\ Len(enc.pending) \in Nat
    <3>1. Len(enc.pending) \in Nat
      BY <1>1 DEF TypeInv, EncType
    <3>2. Taken' = Taken /\ Taken \in Int
      BY <2>1, <2>2 DEF Taken
    <3>. QED
      BY <2>1, <2>2, <3>1, <3>2 DEF Given
  <2>4. /\ Len(enc'.pending) <= Given
        /\ \A i \in 1 .. Len(enc'.pending) : enc'.pending[i] = Given - Len(enc'.pending) + i
    <3>1. CASE enc.pending = <<>> /\ enc'.pending = <<>>
      BY <1>1, <2>1, <3>1 DEF InInv
    <3>2. CASE /\ Len(wr'.data) \in 1 .. Len(enc.pending)
               /\ Len(enc'.pending) = Len(enc.pending) - Len(wr'.data)
               /\ \A i \in 1 .. Len(enc'.pending) :
                    enc'.pending[i] = enc.pending[Len(wr'.data) + i]
      <4>1. /\ Len(enc.pending) <= Given
            /\ \A i \in 1 .. Len(enc.pending) : enc.pending[i] = Given - Len(enc.pending) + i
        BY <1>1, <2>1 DEF InInv
      <4>2. ASSUME NEW i \in 1 .. Len(enc'.pending)
            PROVE  enc'.pending[i] = Given - Len(enc'.pending) + i
        <5>1. Len(wr'.data) + i \in 1 .. Len(enc.pending)
          BY <2>3, <3>2
        <5>2. Given - Len(enc.pending) + (Len(wr'.data) + i) = Given - Len(enc'.pending) + i
          BY <2>3, <3>2
        <5>. QED
          BY <3>2, <4>1, <5>1, <5>2
      <4>3. Len(enc'.pending) <= Given
        BY <2>3, <3>2, <4>1
      <4>. QED
        BY <4>2, <4>3
    <3>. QED
      BY <2>1, <3>1, <3>2
  <2>. QED
    BY <1>1, <2>1, <2>3, <2>4 DEF InInv
<1>29. CASE EncoderReturns
  BY <1>1, <1>29, NoneTypes, EncoderReturnsDoes
     DEF TypeInv, InInv, Taken, Given, HandInv
<1>30. CASE EncoderFails
  BY <1>1, <1>30, NoneTypes, EncoderFailsDoes DEF TypeInv, InInv, Taken, Given, HandInv
<1>31. CASE Tick
  BY <1>1, <1>31, NoneTypes, TickDoes DEF TypeInv, InInv, Taken, Given, HandInv
<1>32. CASE WorkerDies
  <2>1. UNCHANGED <<inRing, supplied, m>> /\ rd' = NoRead /\ wpc' = "exited"
    BY <1>32, WorkerDiesDoes
  <2>. QED
    BY <1>1, <2>1, InDropped
<1>33. CASE CompilerDies
  <2>1. /\ UNCHANGED <<inRing, supplied>> /\ m'.pc = "dead"
        /\ UNCHANGED <<rd, wpc, enc>> \/ (rd' = NoRead /\ wpc' = "exited")
    BY <1>33, CompilerDiesDoes
  <2>2. CASE UNCHANGED <<rd, wpc, enc>>
    BY <1>1, <2>1, <2>2, InFrame DEF Taken
  <2>3. CASE rd' = NoRead /\ wpc' = "exited"
    <3>1. Taken' = 0 /\ Len(rd'.data) = 0
      BY <2>3, NoneTypes DEF Taken
    <3>2. inRing.count \in Nat /\ supplied \in Nat
      BY <1>1 DEF TypeInv, RingTypes
    <3>. QED
      BY <1>1, <2>1, <2>3, <3>1, <3>2 DEF InInv
  <2>. QED
    BY <2>1, <2>2, <2>3
<1>34. CASE UNCHANGED vars
  BY <1>1, <1>34
     DEF vars, shared, worker, history, TypeInv, InInv, Taken, Given, HandInv
<1>. QED
  BY NextIs, <1>1, <1>2, <1>3, <1>4, <1>5, <1>6, <1>7, <1>8, <1>9, <1>10, <1>11, <1>12,
     <1>13, <1>14, <1>15, <1>16, <1>17, <1>18, <1>19, <1>20, <1>21, <1>22, <1>23,
     <1>24, <1>25, <1>26, <1>27, <1>28, <1>29, <1>30, <1>31, <1>32, <1>33, <1>34
     DEF Begins

\* EndInv is kept.
LEMMA EndStep ==
    ASSUME CompressorInv, [Next]_vars
    PROVE  EndInv'
<1>1. TypeInv /\ HandInv /\ FlowInv /\ EndInv /\ MoveInv
  BY DEF CompressorInv
<1>2. ASSUME NEW call \in {"Compress", "Finish"}, NEW count \in Nat, call = "Finish" => count = 0,
            Begin(call, count)
      PROVE  EndInv'
  <2>1. /\ m.pc = "idle" /\ UNCHANGED <<wpc, rd, enc>>
        /\ (m.started /\ UNCHANGED <<noMoreInput, inRing>>) \/ ~m.started
    BY <1>2, BeginDoes, NoneTypes
  <2>2. ~m.started => wpc # "encode" /\ rd = NoRead /\ enc = NewEncoder
    BY <1>1, <2>1 DEF HandInv
  <2>. QED
    BY <1>1, <2>1, <2>2, NoneTypes DEF EndInv
<1>3. CASE SetNoMoreInput
  BY <1>1, <1>3, NoneTypes, SetNoMoreInputDoes
     DEF TypeInv, MainType, ReadType, EncType, RingTypes, HandInv, FlowInv, EndInv,
         MoveInv, Closed, Ending
<1>4. CASE EnterCompress
  <2>1. UNCHANGED <<rd, enc, wpc, noMoreInput, inRing>>
    BY <1>4, EnterCompressDoes
  <2>. QED
    BY <1>1, <2>1 DEF EndInv
<1>5. CASE CompressLoop
  <2>1. UNCHANGED <<rd, enc, wpc, noMoreInput, inRing>>
    BY <1>5, CompressLoopDoes
  <2>. QED
    BY <1>1, <2>1 DEF EndInv
<1>6. CASE FinishLoop
  <2>1. UNCHANGED <<rd, enc, wpc, noMoreInput, inRing>>
    BY <1>6, FinishLoopDoes
  <2>. QED
    BY <1>1, <2>1 DEF EndInv
<1>7. CASE SatisfyWorkerWait
  <2>1. UNCHANGED <<rd, enc, wpc, noMoreInput, inRing>>
    BY <1>7, SatisfyWorkerWaitDoes
  <2>. QED
    BY <1>1, <2>1 DEF EndInv
<1>8. CASE UpdateProgress
  <2>1. UNCHANGED <<rd, enc, wpc, noMoreInput, inRing>>
    BY <1>8, UpdateProgressDoes
  <2>. QED
    BY <1>1, <2>1 DEF EndInv
<1>9. CASE FlushOutputBuffer
  <2>1. UNCHANGED <<rd, enc, wpc, noMoreInput, inRing>>
    BY <1>9, FlushOutputBufferDoes
  <2>. QED
    BY <1>1, <2>1 DEF EndInv
<1>10. CASE CallWriteProc
  <2>1. UNCHANGED <<rd, enc, wpc, noMoreInput, inRing>>
    BY <1>10, CallWriteProcDoes
  <2>. QED
    BY <1>1, <2>1 DEF EndInv
<1>11. CASE ReadToCallbackDone
  <2>1. UNCHANGED <<rd, enc, wpc, noMoreInput, inRing>>
    BY <1>11, ReadToCallbackDoneDoes
  <2>. QED
    BY <1>1, <2>1 DEF EndInv
<1>12. CASE FlushReturns
  <2>1. UNCHANGED <<rd, enc, wpc, noMoreInput, inRing>>
    BY <1>12, FlushReturnsDoes
  <2>. QED
    BY <1>1, <2>1 DEF EndInv
<1>13. CASE WriteInput
  <2>1. UNCHANGED <<rd, enc, wpc, noMoreInput>> /\ m.pc = "write"
    BY <1>13, WriteInputDoes
  <2>2. m.started /\ m.call = "Compress"
    BY <1>1, <2>1 DEF FlowInv, Closed
  <2>3. ~noMoreInput
    BY <1>1, <2>1, <2>2 DEF FlowInv, Closed, Ending
  <2>. QED
    BY <1>1, <2>1, <2>3 DEF EndInv
<1>14. CASE PublishInput
  <2>1. UNCHANGED <<rd, enc, wpc, noMoreInput>> /\ m.pc = "add"
    BY <1>14, PublishInputDoes
  <2>2. m.started /\ m.call = "Compress"
    BY <1>1, <2>1 DEF FlowInv, Closed
  <2>3. ~noMoreInput
    BY <1>1, <2>1, <2>2 DEF FlowInv, Closed, Ending
  <2>. QED
    BY <1>1, <2>1, <2>3 DEF EndInv
<1>15. CASE WaitForWorkerEvent
  <2>1. UNCHANGED <<rd, enc, wpc, noMoreInput, inRing>>
    BY <1>15, WaitForWorkerEventDoes
  <2>. QED
    BY <1>1, <2>1 DEF EndInv
<1>16. CASE CheckResult
  <2>1. UNCHANGED <<rd, enc, wpc, noMoreInput, inRing>>
    BY <1>16, CheckResultDoes
  <2>. QED
    BY <1>1, <2>1 DEF EndInv
<1>17. CASE Free
  <2>1. UNCHANGED <<rd, enc, wpc, noMoreInput, inRing>>
    BY <1>17, FreeDoes
  <2>. QED
    BY <1>1, <2>1 DEF EndInv
<1>18. CASE Join
  <2>1. UNCHANGED <<rd, enc, wpc, noMoreInput, inRing>>
    BY <1>18, JoinDoes
  <2>. QED
    BY <1>1, <2>1 DEF EndInv
<1>19. CASE WorkerThreadProc
  BY <1>1, <1>19, NoneTypes, WorkerThreadProcDoes
     DEF TypeInv, MainType, ReadType, EncType, RingTypes, HandInv, FlowInv, EndInv,
         MoveInv, Closed, Ending
<1>20. CASE EndOfInput
  <2>1. /\ \/ rd.pc = "fill" /\ rd.size = 0 /\ rd' = NoRead /\ (rd.data # <<>> => ~enc'.eof) /\ enc'.ended = enc.ended
           \/ rd.pc = "fill" /\ rd.size # 0 /\ noMoreInput /\ rd'.pc = "empty" /\ rd'.size = rd.size /\ UNCHANGED enc
           \/ rd.pc = "fill" /\ rd.size # 0 /\ rd'.pc = "ring" /\ rd'.size = rd.size /\ UNCHANGED enc
           \/ rd.pc = "empty" /\ inRing.count = 0 /\ rd' = NoRead /\ enc'.ended = enc.ended
           \/ rd.pc = "empty" /\ rd'.pc = "ring" /\ rd'.size = rd.size /\ UNCHANGED enc
        /\ UNCHANGED <<noMoreInput, inRing>> /\ UNCHANGED wpc
    BY <1>20, EndOfInputDoes, NoneTypes
  <2>2. wpc = "encode" /\ ~enc.eof /\ ~enc.ended
    BY <1>1, <2>1, NoneTypes DEF HandInv, EndInv
  <2>. QED
    BY <1>1, <2>1, <2>2, NoneTypes DEF EndInv, TypeInv, ReadType
<1>21. CASE ReadRing
  <2>1. /\ rd.pc = "ring" /\ rd'.size = rd.size /\ rd'.pc \in {"sub", "fill", "wake"}
        /\ UNCHANGED <<noMoreInput, inRing>> /\ UNCHANGED <<enc, wpc>>
    BY <1>21, ReadRingDoes, NoneTypes
  <2>2. wpc = "encode" /\ ~enc.eof /\ ~enc.ended
    BY <1>1, <2>1, NoneTypes DEF HandInv, EndInv
  <2>. QED
    BY <1>1, <2>1, <2>2, NoneTypes DEF EndInv
<1>22. CASE ReadDone
  <2>1. /\ rd.pc = "sub" /\ rd'.size = rd.size - rd.bytes /\ rd'.data = rd.data
        /\ (rd.size - rd.bytes = 0 /\ rd'.pc = "fill") \/ (rd.size - rd.bytes # 0 /\ rd'.pc = "ring")
        /\ UNCHANGED <<noMoreInput, enc, wpc>>
    BY <1>22, ReadDoneDoes, NoneTypes
  <2>2. wpc = "encode" /\ ~enc.eof /\ ~enc.ended
    BY <1>1, <2>1, NoneTypes DEF HandInv, EndInv
  <2>3. rd.data # <<>> /\ (rd.size - rd.bytes # 0 => rd.size - rd.bytes > 0)
    BY <1>1, <2>1 DEF MoveInv, TypeInv, ReadType
  <2>. QED
    BY <1>1, <2>1, <2>2, <2>3 DEF EndInv
<1>23. CASE WaitForInput
  <2>1. /\ rd.pc \in {"wake", "wait"}
        /\ \/ rd'.pc = "wait" /\ rd'.size = rd.size /\ UNCHANGED enc
           \/ rd' = NoRead /\ enc'.eof = enc.eof /\ enc'.ended = enc.ended
           \/ rd'.pc = "fill" /\ rd'.size = rd.size /\ UNCHANGED enc
        /\ UNCHANGED <<noMoreInput, inRing>> /\ UNCHANGED wpc
    BY <1>23, WaitForInputDoes, NoneTypes
  <2>2. wpc = "encode" /\ ~enc.eof /\ ~enc.ended
    BY <1>1, <2>1, NoneTypes DEF HandInv, EndInv
  <2>. QED
    BY <1>1, <2>1, <2>2, NoneTypes DEF EndInv
<1>24. CASE WriteRing
  BY <1>1, <1>24, NoneTypes, WriteRingDoes
     DEF TypeInv, MainType, ReadType, EncType, RingTypes, HandInv, FlowInv, EndInv,
         MoveInv, Closed, Ending
<1>25. CASE WriteDone
  BY <1>1, <1>25, NoneTypes, WriteDoneDoes
     DEF TypeInv, MainType, ReadType, EncType, RingTypes, HandInv, FlowInv, EndInv,
         MoveInv, Closed, Ending
<1>26. CASE WaitForOutput
  <2>1. /\ enc'.eof = enc.eof /\ enc'.ended = enc.ended /\ enc'.pending = enc.pending
        /\ UNCHANGED <<noMoreInput, inRing>> /\ UNCHANGED <<rd, wpc>>
    BY <1>26, WaitForOutputDoes, NoneTypes
  <2>. QED
    BY <1>1, <2>1 DEF EndInv
<1>27. CASE EncoderReads
  <2>1. /\ wpc = "encode" /\ ~enc.eof /\ rd'.pc = "fill" /\ rd'.size > 0
        /\ UNCHANGED <<noMoreInput, inRing>> /\ UNCHANGED <<enc, wpc>>
    BY <1>27, EncoderReadsDoes, NoneTypes
  <2>. QED
    BY <1>1, <2>1 DEF EndInv
<1>28. CASE EncoderWrites
  <2>1. /\ enc'.eof = enc.eof /\ UNCHANGED <<rd, wpc>>
        /\ UNCHANGED <<noMoreInput, inRing>>
        /\ \/ enc'.ended = enc.ended /\ Len(wr'.data) \in 1 .. Len(enc.pending)
           \/ enc.eof /\ enc'.pending = <<>>
    BY <1>28, EncoderWritesDoes, NoneTypes
  <2>2. Len(wr'.data) \in 1 .. Len(enc.pending) => enc.pending # <<>>
    OBVIOUS
  <2>. QED
    BY <1>1, <2>1, <2>2 DEF EndInv
<1>29. CASE EncoderReturns
  BY <1>1, <1>29, NoneTypes, EncoderReturnsDoes
     DEF TypeInv, MainType, ReadType, EncType, RingTypes, HandInv, FlowInv, EndInv,
         MoveInv, Closed, Ending
<1>30. CASE EncoderFails
  <2>1. /\ enc'.eof = enc.eof /\ enc'.ended = enc.ended /\ enc'.pending = enc.pending
        /\ UNCHANGED <<noMoreInput, inRing>> /\ UNCHANGED <<rd, wpc>>
    BY <1>30, EncoderFailsDoes, NoneTypes
  <2>. QED
    BY <1>1, <2>1 DEF EndInv
<1>31. CASE Tick
  BY <1>1, <1>31, NoneTypes, TickDoes
     DEF TypeInv, MainType, ReadType, EncType, RingTypes, HandInv, FlowInv, EndInv,
         MoveInv, Closed, Ending
<1>32. CASE WorkerDies
  BY <1>1, <1>32, NoneTypes, WorkerDiesDoes
     DEF TypeInv, MainType, ReadType, EncType, RingTypes, HandInv, FlowInv, EndInv,
         MoveInv, Closed, Ending
<1>33. CASE CompilerDies
  <2>1. /\ UNCHANGED <<noMoreInput, inRing>>
        /\ UNCHANGED <<wpc, rd,
                       enc>> \/ (wpc' = "exited" /\ rd' = NoRead /\ enc' = NewEncoder)
    BY <1>33, CompilerDiesDoes, NoneTypes
  <2>. QED
    BY <1>1, <2>1, NoneTypes DEF EndInv
<1>34. CASE UNCHANGED vars
  BY <1>1, <1>34
     DEF vars, shared, worker, history, TypeInv, MainType, ReadType, EncType,
         RingTypes, HandInv, FlowInv, EndInv, MoveInv, Closed, Ending
<1>. QED
  BY NextIs, <1>1, <1>2, <1>3, <1>4, <1>5, <1>6, <1>7, <1>8, <1>9, <1>10, <1>11, <1>12,
     <1>13, <1>14, <1>15, <1>16, <1>17, <1>18, <1>19, <1>20, <1>21, <1>22, <1>23,
     <1>24, <1>25, <1>26, <1>27, <1>28, <1>29, <1>30, <1>31, <1>32, <1>33, <1>34
     DEF Begins

\* OutData is kept.
LEMMA OutDataStep ==
    ASSUME CompressorInv, [Next]_vars
    PROVE  OutData'
<1>1. TypeInv /\ HandInv /\ FlowInv /\ InInv /\ OutData /\ OutCount /\ EndInv /\ MoveInv
  BY DEF CompressorInv
<1>0. /\ inRing.count \in Nat /\ outRing.count \in Nat /\ supplied \in Nat
      /\ Len(rd.data) \in Nat /\ rd.bytes \in Nat /\ Len(wr.data) \in Nat
      /\ Len(written) \in Nat /\ m.bytes \in Nat /\ Len(enc.pending) \in Nat
      /\ Counted \in Int /\ Sent \in Int /\ Given \in Int /\ Taken \in Int
      /\ inRing \in RingTypes /\ outRing \in RingTypes
  BY <1>1, CountsAre DEF TypeInv
<1>2. ASSUME NEW call \in {"Compress", "Finish"}, NEW count \in Nat, call = "Finish" => count = 0,
            Begin(call, count)
      PROVE  OutData'
  <2>1. /\ UNCHANGED <<wr, wpc, written>> /\ m.pc = "idle" /\ m'.pc = "enter"
        /\ \/ m.started /\ m'.started /\ UNCHANGED <<outRing, supplied>>
           \/ ~m.started /\ outRing'.count = 0
    BY <1>2, BeginDoes
  <2>2. CASE m.started /\ m'.started /\ UNCHANGED <<outRing, supplied>>
    BY <1>1, <2>1, <2>2, DataFrame DEF Counted, Live
  <2>3. CASE ~m.started /\ outRing'.count = 0
    <3>1. wr' = NoWrite /\ written' = <<>>
      BY <1>1, <2>1, <2>3 DEF HandInv, FlowInv, Closed, TypeInv
    <3>2. /\ wr'.pc # "add" /\ Len(wr'.data) = 0 /\ Len(written') = 0
      BY <3>1, NoneTypes
    <3>. QED
      BY <2>3, <3>2 DEF OutData
  <2>. QED
    BY <2>1, <2>2, <2>3
<1>3. CASE SetNoMoreInput
  <2>1. /\ UNCHANGED <<outRing, supplied, wr, written>>
        /\ m.pc \notin {"sub", "dead"} /\ m'.pc # "sub" /\ m'.started = m.started
    BY <1>3, SetNoMoreInputDoes
  <2>. QED
    BY <1>1, <2>1, DataFrame DEF Counted, Live
<1>4. CASE EnterCompress
  <2>1. /\ UNCHANGED <<outRing, supplied, wr, written>>
        /\ m.pc \notin {"sub", "dead"} /\ m'.pc # "sub" /\ m'.started = m.started
    BY <1>4, EnterCompressDoes
  <2>. QED
    BY <1>1, <2>1, DataFrame DEF Counted, Live
<1>5. CASE CompressLoop
  <2>1. /\ UNCHANGED <<outRing, supplied, wr, written>>
        /\ m.pc \notin {"sub", "dead"} /\ m'.pc # "sub" /\ m'.started = m.started
    BY <1>5, CompressLoopDoes
  <2>. QED
    BY <1>1, <2>1, DataFrame DEF Counted, Live
<1>6. CASE FinishLoop
  <2>1. /\ UNCHANGED <<outRing, supplied, wr, written>>
        /\ m.pc \notin {"sub", "dead"} /\ m'.pc # "sub" /\ m'.started = m.started
    BY <1>6, FinishLoopDoes
  <2>. QED
    BY <1>1, <2>1, DataFrame DEF Counted, Live
<1>7. CASE SatisfyWorkerWait
  <2>1. /\ UNCHANGED <<outRing, supplied, wr, written>>
        /\ m.pc \in {"satisfy", "wake"} /\ m'.pc \in {"wake", m.next} /\ m'.started = m.started
    BY <1>7, SatisfyWorkerWaitDoes
  <2>2. m.next # "sub"
    BY <1>1 DEF TypeInv, MainType
  <2>. QED
    BY <1>1, <2>1, <2>2, DataFrame DEF Counted, Live
<1>8. CASE UpdateProgress
  <2>1. /\ UNCHANGED <<outRing, supplied, wr, written>>
        /\ m.pc \notin {"sub", "dead"} /\ m'.pc # "sub" /\ m'.started = m.started
    BY <1>8, UpdateProgressDoes
  <2>. QED
    BY <1>1, <2>1, DataFrame DEF Counted, Live
<1>9. CASE FlushOutputBuffer
  <2>1. /\ UNCHANGED <<outRing, supplied, wr, written>>
        /\ m.pc \notin {"sub", "dead"} /\ m'.pc # "sub" /\ m'.started = m.started
    BY <1>9, FlushOutputBufferDoes
  <2>. QED
    BY <1>1, <2>1, DataFrame DEF Counted, Live
<1>10. CASE CallWriteProc
  <2>. DEFINE k == ReadBytes(outRing, m.size)
              more == MoveOut(outRing, k)
  <2>1. /\ UNCHANGED <<outRing, supplied,
                       wr>> /\ m.pc = "call" /\ m'.started = m.started
        /\ \/ m'.pc = "sub" /\ m'.bytes = k /\ written' = written \o more
           \/ m'.pc = "raised" /\ UNCHANGED written
    BY <1>10, CallWriteProcDoes
  <2>2. /\ wr.pc = "add" => \A i \in 1 .. wr.bytes : outRing.buf[outRing.w + i - 1] = wr.data[i]
        /\ Live => \A i \in 1 .. Len(written) : written[i] = Unit(i)
        /\ Live => \A i \in 1 .. outRing.count : outRing.buf[Place(outRing, i)] = Unit(Counted + i)
        /\ Live => \A i \in 1 .. Len(wr.data) : wr.data[i] = Unit(Counted + outRing.count + i)
    BY <1>1 DEF OutData
  <2>3. /\ outRing.count \in Nat /\ supplied \in Nat /\ Len(wr.data) \in Nat /\ Len(written) \in Nat
        /\ m.bytes \in Nat /\ Counted \in Int
    BY <1>0
  <2>4. CASE m'.pc = "raised" /\ UNCHANGED written
    BY <1>1, <2>1, <2>4, DataFrame DEF Counted, Live
  <2>5. CASE m'.pc = "sub" /\ m'.bytes = k /\ written' = written \o more
    <3>1. /\ outRing \in RingTypes /\ m.size \in Nat /\ outRing.count \in Nat
          /\ written \in Seq(Item)
      BY <1>1 DEF TypeInv, MainType, RingTypes
    <3>2. k \in 0 .. outRing.count /\ k <= BufSize - outRing.r
      BY <3>1, ReadBytesFit
    <3>. HIDE DEF k
    <3>3. /\ more \in Seq(Item) /\ Len(more) = k
          /\ \A i \in 1 .. k : more[i] = outRing.buf[Place(outRing, i)]
      BY <3>1, <3>2, MovedOut
    <3>. HIDE DEF more
    <3>4. /\ Len(written') = Len(written) + k
          /\ \A i \in 1 .. Len(written) + k :
               written'[i] = IF i <= Len(written) THEN written[i] ELSE more[i - Len(written)]
      BY <2>5, <3>1, <3>3, ConcatIs
    <3>5. Counted = Len(written) /\ Counted' = Counted
      BY <2>1, <2>3, <2>5, <3>2, <3>4 DEF Counted
    <3>6. ASSUME Live, NEW i \in 1 .. Len(written')
          PROVE  written'[i] = Unit(i)
      <4>1. CASE i <= Len(written)
        BY <2>2, <2>3, <3>2, <3>4, <3>6, <4>1
      <4>2. CASE ~(i <= Len(written))
        <5>1. i - Len(written) \in 1 .. k /\ i - Len(written) \in 1 .. outRing.count
          BY <2>3, <3>2, <3>4, <4>2
        <5>2. more[i - Len(written)] = Unit(Counted + (i - Len(written)))
          BY <2>2, <3>3, <3>6, <5>1
        <5>3. Counted + (i - Len(written)) = i
          BY <2>3, <3>2, <3>4, <3>5
        <5>4. written'[i] = more[i - Len(written)]
          BY <2>3, <3>2, <3>4, <4>2
        <5>. QED
          BY <5>2, <5>3, <5>4
      <4>. QED
        BY <4>1, <4>2
    <3>7. (Live' <=> Live) /\ \A i : Unit(i)' = Unit(i)
      BY <2>1, <2>5 DEF Live, Unit
    <3>. QED
      BY <2>1, <2>2, <3>5, <3>6, <3>7 DEF OutData
  <2>. QED
    BY <2>1, <2>4, <2>5
<1>11. CASE ReadToCallbackDone
  <2>1. /\ UNCHANGED <<supplied, wr, written>> /\ m.pc = "sub" /\ m'.pc \in {"call",
                       "satisfy"}
        /\ m'.started = m.started /\ outRing' = SubCount(outRing, m.bytes)
    BY <1>11, ReadToCallbackDoneDoes
  <2>2. /\ wr.pc = "add" => \A i \in 1 .. wr.bytes : outRing.buf[outRing.w + i - 1] = wr.data[i]
        /\ Live => \A i \in 1 .. Len(written) : written[i] = Unit(i)
        /\ Live => \A i \in 1 .. outRing.count : outRing.buf[Place(outRing, i)] = Unit(Counted + i)
        /\ Live => \A i \in 1 .. Len(wr.data) : wr.data[i] = Unit(Counted + outRing.count + i)
    BY <1>1 DEF OutData
  <2>3. /\ outRing.count \in Nat /\ supplied \in Nat /\ Len(wr.data) \in Nat /\ Len(written) \in Nat
        /\ m.bytes \in Nat /\ Counted \in Int
    BY <1>0
  <2>4. m.size \in Nat
    BY <1>1 DEF TypeInv, MainType
  <2>5. m.bytes \in 1 .. outRing.count /\ m.bytes <= BufSize - outRing.r /\ Aligned(outRing)
    BY <1>1, <2>1, <2>3, <2>4 DEF MoveInv
  <2>6. /\ outRing'.count = outRing.count - m.bytes
        /\ outRing'.w = outRing.w /\ outRing'.buf = outRing.buf
        /\ \A i \in 1 .. outRing.count - m.bytes : Place(outRing', i) = Place(outRing, m.bytes + i)
    BY <1>0, <2>5, CountSubtracted, <2>1
  <2>7. Counted' = Counted + m.bytes
    BY <2>1, <2>3 DEF Counted
  <2>8. (Live' <=> Live) /\ \A i : Unit(i)' = Unit(i)
    BY <2>1 DEF Live, Unit
  <2>9. ASSUME Live, NEW i \in 1 .. outRing'.count
        PROVE  outRing'.buf[Place(outRing', i)] = Unit(Counted' + i)
    <3>1. m.bytes + i \in 1 .. outRing.count /\ i \in 1 .. outRing.count - m.bytes
      BY <2>3, <2>5, <2>6
    <3>2. outRing.buf[Place(outRing, m.bytes + i)] = Unit(Counted + (m.bytes + i))
      BY <2>2, <2>9, <3>1
    <3>3. Counted + (m.bytes + i) = Counted' + i
      BY <2>3, <2>5, <2>6, <2>7
    <3>. QED
      BY <2>6, <3>1, <3>2, <3>3
  <2>10. ASSUME Live, NEW i \in 1 .. Len(wr.data)
         PROVE  wr.data[i] = Unit(Counted' + outRing'.count + i)
    <3>1. Counted + outRing.count + i = Counted' + outRing'.count + i
      BY <2>3, <2>6, <2>7
    <3>. QED
      BY <2>2, <2>10, <3>1
  <2>. QED
    BY <2>1, <2>2, <2>6, <2>8, <2>9, <2>10 DEF OutData
<1>12. CASE FlushReturns
  <2>1. /\ UNCHANGED <<outRing, supplied, wr, written>>
        /\ m.pc \notin {"sub", "dead"} /\ m'.pc # "sub" /\ m'.started = m.started
    BY <1>12, FlushReturnsDoes
  <2>. QED
    BY <1>1, <2>1, DataFrame DEF Counted, Live
<1>13. CASE WriteInput
  <2>1. /\ UNCHANGED <<outRing, supplied, wr, written>>
        /\ m.pc \notin {"sub", "dead"} /\ m'.pc # "sub" /\ m'.started = m.started
    BY <1>13, WriteInputDoes
  <2>. QED
    BY <1>1, <2>1, DataFrame DEF Counted, Live
<1>14. CASE PublishInput
  <2>1. /\ UNCHANGED <<outRing, noMoreInput, wr,
                       written>> /\ m.pc = "add" /\ m'.pc = "write"
        /\ m'.started = m.started /\ supplied' = supplied + m.bytes
    BY <1>14, PublishInputDoes
  <2>2. /\ wr.pc = "add" => \A i \in 1 .. wr.bytes : outRing.buf[outRing.w + i - 1] = wr.data[i]
        /\ Live => \A i \in 1 .. Len(written) : written[i] = Unit(i)
        /\ Live => \A i \in 1 .. outRing.count : outRing.buf[Place(outRing, i)] = Unit(Counted + i)
        /\ Live => \A i \in 1 .. Len(wr.data) : wr.data[i] = Unit(Counted + outRing.count + i)
    BY <1>1 DEF OutData
  <2>3. /\ outRing.count \in Nat /\ supplied \in Nat /\ Len(wr.data) \in Nat /\ Len(written) \in Nat
        /\ m.bytes \in Nat /\ Counted \in Int
    BY <1>0
  <2>4. Counted = Len(written) /\ Counted' = Counted /\ (Live' <=> Live)
    BY <2>1, <2>3 DEF Counted, Live
  <2>5. ASSUME Live
        PROVE  Counted + outRing.count + Len(wr.data) <= supplied
    <3>1. ~noMoreInput
      BY <1>1, <2>1, <2>5 DEF FlowInv, Closed, Ending, Live
    <3>. QED
      BY <1>1, <2>5, <3>1 DEF OutCount, Sent
  <2>6. \A i \in Int : i <= supplied => Unit(i)' = Unit(i)
    BY <2>1, <2>3 DEF Unit
  <2>7. ASSUME Live, NEW i \in 1 .. Len(written)
        PROVE  written[i] = Unit(i)'
    <3>1. i \in Int /\ i <= supplied
      BY <2>3, <2>4, <2>5, <2>7
    <3>. QED
      BY <2>2, <2>6, <2>7, <3>1
  <2>8. ASSUME Live, NEW i \in 1 .. outRing.count
        PROVE  outRing.buf[Place(outRing, i)] = Unit(Counted + i)'
    <3>. DEFINE j == Counted + i
    <3>1. j \in Int /\ j <= supplied
      BY <2>3, <2>5, <2>8
    <3>2. outRing.buf[Place(outRing, i)] = Unit(j)
      BY <2>2, <2>8
    <3>3. Unit(j) = j
      BY <3>1 DEF Unit
    <3>4. j <= supplied'
      BY <2>1, <2>3, <3>1
    <3>. QED
      BY <2>4, <3>2, <3>3, <3>4 DEF Unit
  <2>9. ASSUME Live, NEW i \in 1 .. Len(wr.data)
        PROVE  wr.data[i] = Unit(Counted + outRing.count + i)'
    <3>. DEFINE j == Counted + outRing.count + i
    <3>1. j \in Int /\ j <= supplied
      BY <2>3, <2>5, <2>9
    <3>2. wr.data[i] = Unit(j)
      BY <2>2, <2>9
    <3>3. Unit(j) = j
      BY <3>1 DEF Unit
    <3>4. j <= supplied'
      BY <2>1, <2>3, <3>1
    <3>. QED
      BY <2>1, <2>4, <3>2, <3>3, <3>4 DEF Unit
  <2>. QED
    BY <2>1, <2>2, <2>4, <2>7, <2>8, <2>9 DEF OutData
<1>15. CASE WaitForWorkerEvent
  <2>1. /\ UNCHANGED <<outRing, supplied, wr, written>>
        /\ m.pc \notin {"sub", "dead"} /\ m'.pc # "sub" /\ m'.started = m.started
    BY <1>15, WaitForWorkerEventDoes
  <2>. QED
    BY <1>1, <2>1, DataFrame DEF Counted, Live
<1>16. CASE CheckResult
  <2>1. /\ UNCHANGED <<outRing, supplied, wr>>
        /\ m.pc = "check"
        /\ ~m'.started \/ (m'.pc = "raised" /\ m'.started = m.started /\ UNCHANGED written)
    BY <1>16, CheckResultDoes
  <2>2. CASE ~m'.started
    BY <1>1, <2>1, <2>2 DEF OutData, Live
  <2>3. CASE m'.pc = "raised" /\ m'.started = m.started /\ UNCHANGED written
    BY <1>1, <2>1, <2>3, DataFrame DEF Counted, Live
  <2>. QED
    BY <2>1, <2>2, <2>3
<1>17. CASE Free
  <2>1. /\ UNCHANGED <<outRing, supplied, wr, written>>
        /\ m.pc \notin {"sub", "dead"} /\ m'.pc # "sub" /\ m'.started = m.started
    BY <1>17, FreeDoes
  <2>. QED
    BY <1>1, <2>1, DataFrame DEF Counted, Live
<1>18. CASE Join
  <2>1. /\ UNCHANGED <<outRing, supplied, wr, written>>
        /\ m.pc \notin {"sub", "dead"} /\ m'.pc # "sub" /\ m'.started = m.started
    BY <1>18, JoinDoes
  <2>. QED
    BY <1>1, <2>1, DataFrame DEF Counted, Live
<1>19. CASE WorkerThreadProc
  <2>1. UNCHANGED <<outRing, supplied, wr, written, m>>
    BY <1>19, WorkerThreadProcDoes
  <2>. QED
    BY <1>1, <2>1, DataFrame DEF Counted, Live
<1>20. CASE EndOfInput
  <2>1. UNCHANGED <<outRing, supplied, wr, written, m>>
    BY <1>20, EndOfInputDoes
  <2>. QED
    BY <1>1, <2>1, DataFrame DEF Counted, Live
<1>21. CASE ReadRing
  <2>1. UNCHANGED <<outRing, supplied, wr, written, m>>
    BY <1>21, ReadRingDoes
  <2>. QED
    BY <1>1, <2>1, DataFrame DEF Counted, Live
<1>22. CASE ReadDone
  <2>1. UNCHANGED <<outRing, supplied, wr, written, m>>
    BY <1>22, ReadDoneDoes
  <2>. QED
    BY <1>1, <2>1, DataFrame DEF Counted, Live
<1>23. CASE WaitForInput
  <2>1. UNCHANGED <<outRing, supplied, wr, written, m>>
    BY <1>23, WaitForInputDoes
  <2>. QED
    BY <1>1, <2>1, DataFrame DEF Counted, Live
<1>24. CASE WriteRing
  <2>. DEFINE k == WriteBytes(outRing, Len(wr.data))
  <2>1. /\ UNCHANGED <<supplied, m, written>> /\ wr.pc = "ring" /\ wr'.data = wr.data
        /\ \/ wr'.pc = "add" /\ wr'.bytes = k /\ outRing' = MoveIn(outRing, wr.data, k)
           \/ wr'.pc # "add" /\ outRing' = outRing
    BY <1>24, WriteRingDoes
  <2>2. /\ wr.pc = "add" => \A i \in 1 .. wr.bytes : outRing.buf[outRing.w + i - 1] = wr.data[i]
        /\ Live => \A i \in 1 .. Len(written) : written[i] = Unit(i)
        /\ Live => \A i \in 1 .. outRing.count : outRing.buf[Place(outRing, i)] = Unit(Counted + i)
        /\ Live => \A i \in 1 .. Len(wr.data) : wr.data[i] = Unit(Counted + outRing.count + i)
    BY <1>1 DEF OutData
  <2>3. /\ outRing.count \in Nat /\ supplied \in Nat /\ Len(wr.data) \in Nat /\ Len(written) \in Nat
        /\ m.bytes \in Nat /\ Counted \in Int
    BY <1>0
  <2>4. Counted' = Counted /\ (Live' <=> Live) /\ \A i : Unit(i)' = Unit(i)
    BY <2>1 DEF Counted, Live, Unit
  <2>5. CASE wr'.pc # "add" /\ outRing' = outRing
    BY <2>1, <2>2, <2>4, <2>5 DEF OutData
  <2>6. CASE wr'.pc = "add" /\ wr'.bytes = k /\ outRing' = MoveIn(outRing, wr.data, k)
    <3>1. wr.data \in Seq(Item) /\ Aligned(outRing)
      BY <1>1 DEF TypeInv, WriteType, MoveInv
    <3>2. k \in 0 .. Len(wr.data) /\ k <= BufSize - outRing.count /\ k <= BufSize - outRing.w
      BY <1>0, WriteBytesFit
    <3>. HIDE DEF k
    <3>3. \A i \in 1 .. k : wr.data[i] \in Item
      BY <1>0, <3>1, <3>2
    <3>4. /\ outRing'.count = outRing.count /\ outRing'.w = outRing.w /\ outRing'.r = outRing.r
          /\ \A i \in 1 .. k : outRing'.buf[outRing.w + i - 1] = wr.data[i]
          /\ \A i \in 1 .. outRing.count :
               outRing'.buf[Place(outRing, i)] = outRing.buf[Place(outRing, i)]
      BY <1>0, <2>6, <3>1, <3>2, <3>3, MovedIn
    <3>5. \A i : Place(outRing', i) = Place(outRing, i)
      BY <3>4 DEF Place
    <3>. QED
      BY <2>1, <2>2, <2>4, <2>6, <3>4, <3>5 DEF OutData
  <2>. QED
    BY <2>1, <2>5, <2>6
<1>25. CASE WriteDone
  <2>1. /\ UNCHANGED <<supplied, m, written>> /\ wr.pc = "add" /\ wr'.pc # "add"
        /\ outRing' = AddCount(outRing, wr.bytes)
        /\ \/ wr' = NoWrite
           \/ /\ Len(wr'.data) = Len(wr.data) - wr.bytes
              /\ \A i \in 1 .. Len(wr'.data) : wr'.data[i] = wr.data[wr.bytes + i]
    BY <1>25, WriteDoneDoes, NoneTypes
  <2>2. /\ wr.pc = "add" => \A i \in 1 .. wr.bytes : outRing.buf[outRing.w + i - 1] = wr.data[i]
        /\ Live => \A i \in 1 .. Len(written) : written[i] = Unit(i)
        /\ Live => \A i \in 1 .. outRing.count : outRing.buf[Place(outRing, i)] = Unit(Counted + i)
        /\ Live => \A i \in 1 .. Len(wr.data) : wr.data[i] = Unit(Counted + outRing.count + i)
    BY <1>1 DEF OutData
  <2>3. /\ outRing.count \in Nat /\ supplied \in Nat /\ Len(wr.data) \in Nat /\ Len(written) \in Nat
        /\ m.bytes \in Nat /\ Counted \in Int
    BY <1>0
  <2>4. /\ wr.bytes \in Nat /\ wr.bytes > 0 /\ wr.bytes <= Len(wr.data) /\ Aligned(outRing)
        /\ wr.bytes <= BufSize - outRing.count /\ wr.bytes <= BufSize - outRing.w
    BY <1>1, <2>1, <2>3 DEF MoveInv, TypeInv, WriteType
  <2>5. /\ outRing'.count = outRing.count + wr.bytes /\ outRing'.buf = outRing.buf
        /\ \A i \in 1 .. outRing.count : Place(outRing', i) = Place(outRing, i)
        /\ \A i \in 1 .. wr.bytes : Place(outRing', outRing.count + i) = outRing.w + i - 1
    BY <1>0, <2>1, <2>4, CountAdded
  <2>6. Counted' = Counted /\ (Live' <=> Live) /\ \A i : Unit(i)' = Unit(i)
    BY <2>1 DEF Counted, Live, Unit
  <2>7. ASSUME Live, NEW i \in 1 .. outRing'.count
        PROVE  outRing'.buf[Place(outRing', i)] = Unit(Counted + i)
    <3>1. CASE i <= outRing.count
      <4>1. i \in 1 .. outRing.count
        BY <2>3, <2>4, <2>5, <3>1
      <4>. QED
        BY <2>2, <2>5, <2>7, <4>1
    <3>2. CASE ~(i <= outRing.count)
      <4>. DEFINE j == i - outRing.count
      <4>1. /\ j \in 1 .. wr.bytes /\ j \in 1 .. Len(wr.data) /\ outRing.count + j = i
            /\ Counted + outRing.count + j = Counted + i
        BY <2>3, <2>4, <2>5, <3>2, SMTT(20)
      <4>. HIDE DEF j
      <4>2. Place(outRing', i) = outRing.w + j - 1
        BY <2>5, <4>1
      <4>3. outRing.buf[outRing.w + j - 1] = wr.data[j]
        BY <2>1, <2>2, <4>1
      <4>4. wr.data[j] = Unit(Counted + outRing.count + j)
        BY <2>2, <2>7, <4>1
      <4>. QED
        BY <2>5, <4>1, <4>2, <4>3, <4>4
    <3>. QED
      BY <3>1, <3>2
  <2>8. CASE wr' = NoWrite
    <3>1. Len(wr'.data) = 0
      BY <2>8, NoneTypes
    <3>. QED
      BY <2>1, <2>2, <2>6, <2>7, <3>1 DEF OutData
  <2>9. CASE /\ Len(wr'.data) = Len(wr.data) - wr.bytes
             /\ \A i \in 1 .. Len(wr'.data) : wr'.data[i] = wr.data[wr.bytes + i]
    <3>1. ASSUME Live, NEW i \in 1 .. Len(wr'.data)
          PROVE  wr'.data[i] = Unit(Counted + outRing'.count + i)
      <4>1. wr.bytes + i \in 1 .. Len(wr.data)
        BY <2>3, <2>4, <2>9
      <4>2. Counted + outRing.count + (wr.bytes + i) = Counted + outRing'.count + i
        BY <2>3, <2>4, <2>5, <2>9
      <4>3. wr.data[wr.bytes + i] = Unit(Counted + outRing.count + (wr.bytes + i))
        BY <2>2, <3>1, <4>1
      <4>. QED
        BY <2>9, <4>2, <4>3
    <3>. QED
      BY <2>1, <2>2, <2>6, <2>7, <3>1 DEF OutData
  <2>. QED
    BY <2>1, <2>8, <2>9
<1>26. CASE WaitForOutput
  <2>1. /\ UNCHANGED <<outRing, supplied, m, written>>
        /\ wr'.pc # "add" /\ (wr'.data = wr.data \/ wr'.data = <<>>)
    BY <1>26, WaitForOutputDoes, NoneTypes
  <2>2. /\ wr.pc = "add" => \A i \in 1 .. wr.bytes : outRing.buf[outRing.w + i - 1] = wr.data[i]
        /\ Live => \A i \in 1 .. Len(written) : written[i] = Unit(i)
        /\ Live => \A i \in 1 .. outRing.count : outRing.buf[Place(outRing, i)] = Unit(Counted + i)
        /\ Live => \A i \in 1 .. Len(wr.data) : wr.data[i] = Unit(Counted + outRing.count + i)
    BY <1>1 DEF OutData
  <2>3. /\ outRing.count \in Nat /\ supplied \in Nat /\ Len(wr.data) \in Nat /\ Len(written) \in Nat
        /\ m.bytes \in Nat /\ Counted \in Int
    BY <1>0
  <2>4. Counted' = Counted /\ (Live' <=> Live) /\ \A i : Unit(i)' = Unit(i)
    BY <2>1 DEF Counted, Live, Unit
  <2>5. CASE wr'.data = wr.data
    BY <2>1, <2>2, <2>4, <2>5 DEF OutData
  <2>6. CASE wr'.data = <<>>
    <3>1. Len(wr'.data) = 0
      BY <2>6
    <3>. QED
      BY <2>1, <2>2, <2>4, <3>1 DEF OutData
  <2>. QED
    BY <2>1, <2>5, <2>6
<1>27. CASE EncoderReads
  <2>1. UNCHANGED <<outRing, supplied, wr, written, m>>
    BY <1>27, EncoderReadsDoes
  <2>. QED
    BY <1>1, <2>1, DataFrame DEF Counted, Live
<1>28. CASE EncoderWrites
  <2>1. /\ UNCHANGED <<inRing, outRing, supplied, m, rd, written>>
        /\ wpc = "encode" /\ ~enc.failed /\ wr = NoWrite /\ wr'.pc = "ring"
        /\ \/ /\ enc.pending # <<>> /\ Len(wr'.data) \in 1 .. Len(enc.pending)
              /\ \A i \in 1 .. Len(wr'.data) : wr'.data[i] = enc.pending[i]
           \/ enc.eof /\ enc.pending = <<>> /\ ~enc.ended /\ wr'.data = <<EndMark>>
    <3>1. \A n \in 1 .. Len(enc.pending) : enc.pending # <<>>
      OBVIOUS
    <3>. QED
      BY <1>28, EncoderWritesDoes, <3>1
  <2>2. /\ wr.pc = "add" => \A i \in 1 .. wr.bytes : outRing.buf[outRing.w + i - 1] = wr.data[i]
        /\ Live => \A i \in 1 .. Len(written) : written[i] = Unit(i)
        /\ Live => \A i \in 1 .. outRing.count : outRing.buf[Place(outRing, i)] = Unit(Counted + i)
        /\ Live => \A i \in 1 .. Len(wr.data) : wr.data[i] = Unit(Counted + outRing.count + i)
    BY <1>1 DEF OutData
  <2>3. /\ outRing.count \in Nat /\ supplied \in Nat /\ Len(wr.data) \in Nat /\ Len(written) \in Nat
        /\ m.bytes \in Nat /\ Counted \in Int
    BY <1>0
  <2>4. Counted' = Counted /\ (Live' <=> Live) /\ \A i : Unit(i)' = Unit(i)
    BY <2>1 DEF Counted, Live, Unit
  <2>5. Sent = Counted + outRing.count
    BY <2>1, <2>3, NoneTypes DEF Sent
  <2>6. Given \in Int /\ Given <= supplied /\ Len(enc.pending) \in Nat
    <3>1. rd.pc = "sub" => rd.bytes <= Len(rd.data)
      BY <1>1 DEF MoveInv
    <3>2. Taken >= 0
      BY <1>0, <3>1 DEF Taken
    <3>. QED
      BY <1>0, <3>2 DEF Given
  <2>7. ASSUME Live, NEW i \in 1 .. Len(wr'.data)
        PROVE  wr'.data[i] = Unit(Counted + outRing.count + i)
    <3>1. CASE /\ enc.pending # <<>> /\ Len(wr'.data) \in 1 .. Len(enc.pending)
               /\ \A j \in 1 .. Len(wr'.data) : wr'.data[j] = enc.pending[j]
      <4>1. ~enc.ended
        BY <1>1, <3>1 DEF EndInv
      <4>2. Sent = Given - Len(enc.pending)
        BY <1>1, <2>1, <2>7, <4>1 DEF OutCount
      <4>3. i \in 1 .. Len(enc.pending)
        BY <2>6, <3>1
      <4>4. enc.pending[i] = Given - Len(enc.pending) + i
        BY <1>1, <2>1, <4>3 DEF InInv
      <4>5. Counted + outRing.count + i = Given - Len(enc.pending) + i
        BY <2>5, <4>2
      <4>6. Given - Len(enc.pending) + i <= supplied
        BY <2>3, <2>6, <4>3
      <4>. QED
        BY <3>1, <4>4, <4>5, <4>6 DEF Unit
    <3>2. CASE enc.eof /\ enc.pending = <<>> /\ ~enc.ended /\ wr'.data = <<EndMark>>
      <4>1. noMoreInput /\ inRing.count = 0 /\ rd = NoRead
        BY <1>1, <2>1, <3>2 DEF EndInv
      <4>2. Given = supplied
        BY <1>0, <4>1, NoneTypes DEF Given, Taken
      <4>3. Len(enc.pending) = 0 /\ Len(wr'.data) = 1 /\ wr'.data[1] = EndMark
        BY <3>2
      <4>4. Sent = Given - Len(enc.pending)
        BY <1>1, <2>1, <2>7, <3>2 DEF OutCount
      <4>5. i = 1
        BY <4>3
      <4>6. Counted + outRing.count + i = supplied + 1
        BY <2>3, <2>5, <4>2, <4>3, <4>4, <4>5
      <4>. QED
        BY <2>3, <4>3, <4>5, <4>6 DEF Unit
    <3>. QED
      BY <2>1, <3>1, <3>2
  <2>. QED
    BY <2>1, <2>2, <2>4, <2>7 DEF OutData
<1>29. CASE EncoderReturns
  <2>1. UNCHANGED <<outRing, supplied, wr, written, m>>
    BY <1>29, EncoderReturnsDoes
  <2>. QED
    BY <1>1, <2>1, DataFrame DEF Counted, Live
<1>30. CASE EncoderFails
  <2>1. UNCHANGED <<outRing, supplied, wr, written, m>>
    BY <1>30, EncoderFailsDoes
  <2>. QED
    BY <1>1, <2>1, DataFrame DEF Counted, Live
<1>31. CASE Tick
  <2>1. UNCHANGED <<outRing, supplied, wr, written, m>>
    BY <1>31, TickDoes
  <2>. QED
    BY <1>1, <2>1, DataFrame DEF Counted, Live
<1>32. CASE WorkerDies
  <2>1. UNCHANGED <<outRing, supplied, m, written>> /\ wr'.pc # "add" /\ wr'.data = <<>>
    BY <1>32, WorkerDiesDoes, NoneTypes
  <2>2. /\ wr.pc = "add" => \A i \in 1 .. wr.bytes : outRing.buf[outRing.w + i - 1] = wr.data[i]
        /\ Live => \A i \in 1 .. Len(written) : written[i] = Unit(i)
        /\ Live => \A i \in 1 .. outRing.count : outRing.buf[Place(outRing, i)] = Unit(Counted + i)
        /\ Live => \A i \in 1 .. Len(wr.data) : wr.data[i] = Unit(Counted + outRing.count + i)
    BY <1>1 DEF OutData
  <2>3. /\ outRing.count \in Nat /\ supplied \in Nat /\ Len(wr.data) \in Nat /\ Len(written) \in Nat
        /\ m.bytes \in Nat /\ Counted \in Int
    BY <1>0
  <2>4. Counted' = Counted /\ (Live' <=> Live) /\ \A i : Unit(i)' = Unit(i)
    BY <2>1 DEF Counted, Live, Unit
  <2>5. Len(wr'.data) = 0
    BY <2>1
  <2>. QED
    BY <2>1, <2>2, <2>4, <2>5 DEF OutData
<1>33. CASE CompilerDies
  <2>1. m'.pc = "dead" /\ outRing' = outRing /\ (wr' = wr \/ wr'.pc = "none")
    BY <1>33, CompilerDiesDoes, NoneTypes
  <2>. QED
    BY <1>1, <2>1 DEF OutData, Live
<1>34. CASE UNCHANGED vars
  <2>1. UNCHANGED <<outRing, supplied, wr, written, m>>
    BY <1>34 DEF vars, shared, worker, history
  <2>. QED
    BY <1>1, <2>1, DataFrame DEF Counted, Live
<1>. QED
  BY NextIs, <1>1, <1>2, <1>3, <1>4, <1>5, <1>6, <1>7, <1>8, <1>9, <1>10, <1>11, <1>12,
     <1>13, <1>14, <1>15, <1>16, <1>17, <1>18, <1>19, <1>20, <1>21, <1>22, <1>23,
     <1>24, <1>25, <1>26, <1>27, <1>28, <1>29, <1>30, <1>31, <1>32, <1>33, <1>34
     DEF Begins

\* OutCount is kept.
LEMMA OutCountStep ==
    ASSUME CompressorInv, [Next]_vars
    PROVE  OutCount'
<1>1. TypeInv /\ HandInv /\ FlowInv /\ InInv /\ OutCount /\ EndInv /\ MoveInv
  BY DEF CompressorInv
<1>0. /\ inRing.count \in Nat /\ outRing.count \in Nat /\ supplied \in Nat
      /\ Len(rd.data) \in Nat /\ rd.bytes \in Nat /\ Len(wr.data) \in Nat
      /\ Len(written) \in Nat /\ m.bytes \in Nat /\ Len(enc.pending) \in Nat
      /\ Counted \in Int /\ Sent \in Int /\ Given \in Int /\ Taken \in Int
      /\ inRing \in RingTypes /\ outRing \in RingTypes
  BY <1>1, CountsAre DEF TypeInv
<1>2. ASSUME NEW call \in {"Compress", "Finish"}, NEW count \in Nat, call = "Finish" => count = 0,
            Begin(call, count)
      PROVE  OutCount'
  <2>1. /\ m'.pc = "enter" /\ UNCHANGED <<rd, wr, wpc, enc, written>> /\ m.pc = "idle"
        /\ \/ m.started /\ UNCHANGED <<inRing, outRing, supplied, encodeResult,
                                       noMoreInput, ev>>
           \/ /\ ~m.started /\ inRing'.count = 0 /\ outRing'.count = 0 /\ supplied' = 0
              /\ encodeResult' = "none" /\ ~ev'["WorkerEncodeFinished"]
    BY <1>2, BeginDoes
  <2>2. CASE m.started /\ UNCHANGED <<inRing, outRing, supplied, encodeResult,
                                      noMoreInput, ev>>
    BY <1>1, <2>1, <2>2, CountFrame DEF Counted, Live, Flushed
  <2>3. CASE /\ ~m.started /\ inRing'.count = 0 /\ outRing'.count = 0 /\ supplied' = 0
             /\ encodeResult' = "none" /\ ~ev'["WorkerEncodeFinished"]
    <3>1. wr' = NoWrite /\ wpc' \notin {"encode", "encoded"} /\ written' = <<>>
      BY <1>1, <2>1, <2>3 DEF HandInv, FlowInv, Closed, TypeInv
    <3>2. Counted' = 0 /\ Sent' = 0
      BY <2>1, <2>3, <3>1, NoneTypes DEF Counted, Sent
    <3>. QED
      BY <2>1, <2>3, <3>1, <3>2 DEF OutCount, Flushed
  <2>. QED
    BY <2>1, <2>2, <2>3
<1>3. CASE SetNoMoreInput
  BY <1>1, <1>3, NoneTypes, SetNoMoreInputDoes
     DEF TypeInv, OutCount, Live, Counted, Sent, Flushed, Taken, Given, HandInv,
         FlowInv
<1>4. CASE EnterCompress
  <2>1. /\ UNCHANGED <<inRing, outRing, supplied, rd, wr, enc, wpc, encodeResult,
                       noMoreInput,
                       written, ev>>
        /\ m'.started = m.started /\ m.pc = "enter" /\ m'.pc = "top"
    BY <1>4, EnterCompressDoes
  <2>. QED
    BY <1>1, <2>1, CountFrame DEF Counted, Live, Flushed
<1>5. CASE CompressLoop
  <2>1. /\ UNCHANGED <<inRing, outRing, supplied, rd, wr, enc, wpc, encodeResult,
                       noMoreInput,
                       written, ev>>
        /\ m'.started = m.started /\ m.pc = "top" /\ m'.pc \in {"idle", "raised", "progress"}
    BY <1>5, CompressLoopDoes
  <2>. QED
    BY <1>1, <2>1, CountFrame DEF Counted, Live, Flushed
<1>6. CASE FinishLoop
  <2>1. /\ UNCHANGED <<inRing, outRing, supplied, rd, wr, enc, wpc, encodeResult,
                       noMoreInput,
                       written, ev>>
        /\ m'.started = m.started /\ m.pc = "top" /\ (m'.pc = "flush" \/ (m'.pc = "satisfy" /\ m'.next = "progress"))
    BY <1>6, FinishLoopDoes
  <2>. QED
    BY <1>1, <2>1, CountFrame DEF Counted, Live, Flushed
<1>7. CASE SatisfyWorkerWait
  <2>1. /\ UNCHANGED <<inRing, outRing, supplied, rd, wr, enc, wpc, encodeResult,
                       noMoreInput, written>>
        /\ m.pc \in {"satisfy", "wake"} /\ m'.pc \in {"wake", m.next}
        /\ m'.call = m.call /\ m'.next = m.next /\ m'.started = m.started
    BY <1>7, SatisfyWorkerWaitDoes
  <2>2. \/ UNCHANGED ev
        \/ \A e \in Events \ {"WorkerWaitingOnInput"} : ev'[e] = ev[e]
        \/ \A e \in Events \ {"WorkerWaitingOnOutput"} : ev'[e] = ev[e]
        \/ \A e \in Events \ {"EndWaitOnInput"} : ev'[e] = ev[e]
        \/ \A e \in Events \ {"EndWaitOnOutput"} : ev'[e] = ev[e]
    BY <1>7, SatisfyWorkerWaitDoes
  <2>3. /\ ev'["StartEncode"] = ev["StartEncode"]
        /\ ev'["WorkerEncodeFinished"] = ev["WorkerEncodeFinished"]
    BY <2>2 DEF Events
  <2>4. m.next \in {"idle", "progress", "wait", "top", "flush", "flushed"}
    BY <1>1 DEF TypeInv, MainType
  <2>5. Counted' = Counted /\ (Live' <=> Live)
    BY <2>1, <2>4 DEF Counted, Live
  <2>6. m'.pc # "check" /\ (Flushed' => Flushed)
    BY <2>1, <2>4 DEF Flushed
  <2>7. Live /\ m'.call = "DrainAll" /\ Flushed' => outRing.count = 0
    BY <1>1, <2>1, <2>6 DEF OutCount
  <2>. QED
    BY <1>1, <2>1, <2>3, <2>5, <2>6, <2>7, CountFrame
<1>8. CASE UpdateProgress
  <2>1. /\ UNCHANGED <<inRing, outRing, supplied, rd, wr, enc, wpc, encodeResult,
                       noMoreInput, written>>
        /\ m.pc = "progress" /\ m'.pc \in {"flush", "raised"}
        /\ m'.started = m.started
        /\ UNCHANGED ev
    BY <1>8, UpdateProgressDoes
  <2>. QED
    BY <1>1, <2>1, CountFrame DEF Counted, Live, Flushed
<1>9. CASE FlushOutputBuffer
  <2>1. /\ UNCHANGED <<inRing, outRing, supplied, rd, wr, enc, wpc, encodeResult,
                       noMoreInput,
                       written, ev>>
        /\ m'.started = m.started /\ m.pc = "flush" /\ m'.call = m.call
        /\ \/ m'.pc = "call"
           \/ m'.pc = "satisfy" /\ (outRing.count = 0 \/ m.call # "DrainAll")
    BY <1>9, FlushOutputBufferDoes
  <2>. QED
    BY <1>1, <2>1, CountFrame DEF Counted, Live, Flushed
<1>10. CASE CallWriteProc
  <2>. DEFINE k == ReadBytes(outRing, m.size)
              more == MoveOut(outRing, k)
  <2>1. /\ UNCHANGED <<inRing, outRing, supplied, rd, wr, enc, wpc, encodeResult,
                       noMoreInput, ev>>
        /\ m.pc = "call" /\ m'.started = m.started
        /\ \/ m'.pc = "sub" /\ m'.bytes = k /\ written' = written \o more
           \/ m'.pc = "raised" /\ UNCHANGED written
    BY <1>10, CallWriteProcDoes
  <2>2. Counted' = Counted
    <3>1. CASE m'.pc = "raised" /\ UNCHANGED written
      BY <2>1, <3>1 DEF Counted
    <3>2. CASE m'.pc = "sub" /\ m'.bytes = k /\ written' = written \o more
      <4>1. /\ outRing \in RingTypes /\ m.size \in Nat /\ outRing.count \in Nat
            /\ written \in Seq(Item)
        BY <1>1 DEF TypeInv, MainType, RingTypes
      <4>2. k \in 0 .. outRing.count /\ k <= BufSize - outRing.r
        BY <4>1, ReadBytesFit
      <4>. HIDE DEF k
      <4>3. more \in Seq(Item) /\ Len(more) = k
        BY <4>1, <4>2, MovedOut
      <4>. HIDE DEF more
      <4>4. Len(written') = Len(written) + k /\ Len(written) \in Nat
        <5>1. Len(written \o more) = Len(written) + Len(more) /\ Len(written) \in Nat
          BY <4>1, <4>3, ConcatIs, Zenon
        <5>. QED
          BY <3>2, <4>3, <5>1, Zenon
      <4>. QED
        BY <2>1, <3>2, <4>2, <4>4 DEF Counted
    <3>. QED
      BY <2>1, <3>1, <3>2
  <2>. QED
    BY <1>1, <2>1, <2>2, CountFrame DEF Live, Flushed
<1>11. CASE ReadToCallbackDone
  <2>1. /\ UNCHANGED <<inRing, supplied, rd, wr, enc, wpc, encodeResult, noMoreInput,
                       ev, written>>
        /\ m.pc = "sub" /\ m'.started = m.started /\ outRing' = SubCount(outRing, m.bytes)
        /\ m'.pc = "call" \/ (m'.pc = "satisfy" /\ m'.next = "flush")
    BY <1>11, ReadToCallbackDoneDoes
  <2>3. m.size \in Nat
    BY <1>1 DEF TypeInv, MainType
  <2>4. m.bytes \in 1 .. outRing.count /\ m.bytes <= BufSize - outRing.r /\ Aligned(outRing)
    BY <1>1, <2>1, <1>0, <2>3 DEF MoveInv
  <2>5. outRing'.count = outRing.count - m.bytes
    BY <1>0, <2>4, CountSubtracted, <2>1
  <2>6. Counted' = Counted + m.bytes /\ Sent' = Sent /\ Given' = Given
    <3>1. Counted' = Counted + m.bytes
      BY <2>1, <1>0 DEF Counted
    <3>2. Sent' = Sent
      BY <2>1, <1>0, <2>5, <3>1 DEF Sent
    <3>3. Given' = Given
      BY <2>1 DEF Given, Taken
    <3>. QED
      BY <3>1, <3>2, <3>3
  <2>. QED
    BY <1>1, <2>1, <1>0, <2>4, <2>6 DEF OutCount, Live, Flushed
<1>12. CASE FlushReturns
  <2>1. /\ UNCHANGED <<inRing, outRing, supplied, rd, wr, enc, wpc, encodeResult,
                       noMoreInput,
                       written, ev>>
        /\ m'.started = m.started /\ m.pc = "flushed"
        /\ m'.pc \in {"write", "wait", "flush", "check"}
        /\ m'.pc = "check" => m.call = "DrainAll"
    BY <1>12, FlushReturnsDoes
  <2>. QED
    BY <1>1, <2>1, CountFrame DEF OutCount, Counted, Live, Flushed
<1>13. CASE WriteInput
  <2>. DEFINE k == WriteBytes(inRing, m.left - m.wrote)
              data == [i \in 1 .. k |-> supplied + i]
  <2>1. /\ UNCHANGED <<outRing, supplied, rd, wr, enc, wpc, encodeResult, noMoreInput,
                       ev, written>>
        /\ m.pc = "write" /\ m'.started = m.started
        /\ \/ m'.pc = "add" /\ inRing' = MoveIn(inRing, data, k)
           \/ m'.pc \in {"satisfy", "top"} /\ m'.next # "flushed" /\ inRing' = inRing
    BY <1>13, WriteInputDoes
  <2>2. inRing'.count = inRing.count
    <3>1. inRing \in RingTypes /\ Aligned(inRing) /\ supplied \in Nat /\ m.left - m.wrote \in Nat
      BY <2>1, CompressorInv
         DEF CompressorInv, TypeInv, MoveInv, FlowInv, Closed, MainType
    <3>2. k \in Nat /\ k <= BufSize - inRing.count /\ k <= BufSize - inRing.w
      BY <3>1, WriteBytesFit
    <3>. HIDE DEF k
    <3>3. \A i \in 1 .. k : data[i] \in Item
      BY <3>1, <3>2 DEF Item
    <3>. HIDE DEF data
    <3>4. MoveIn(inRing, data, k).count = inRing.count
      BY <3>1, <3>2, <3>3, MovedIn
    <3>. QED
      BY <2>1, <3>4
  <2>3. Counted' = Counted /\ Sent' = Sent /\ Given' = Given
    BY <2>1, <2>2 DEF Counted, Sent, Given, Taken
  <2>4. m'.pc # "check" /\ ~Flushed' /\ (Live' <=> Live)
    BY <2>1 DEF Flushed, Live
  <2>. QED
    BY <1>1, <2>1, <2>2, <2>3, <2>4 DEF OutCount
<1>14. CASE PublishInput
  <2>1. /\ UNCHANGED <<outRing, rd, wr, enc, wpc, encodeResult, noMoreInput, ev,
                       written>>
        /\ m.pc = "add" /\ m'.pc = "write" /\ m'.started = m.started
        /\ inRing' = AddCount(inRing, m.bytes) /\ supplied' = supplied + m.bytes
    BY <1>14, PublishInputDoes
  <2>4. /\ m.bytes > 0 /\ m.bytes <= BufSize - inRing.count /\ m.bytes <= BufSize - inRing.w
        /\ Aligned(inRing)
    BY <1>1, <2>1 DEF MoveInv, TypeInv
  <2>5. inRing'.count = inRing.count + m.bytes
    BY <2>1, <1>0, <2>4, CountAdded
  <2>6. Counted' = Counted /\ Sent' = Sent /\ Given' = Given
    BY <2>1, <1>0, <2>5 DEF Counted, Sent, Given, Taken
  <2>7. m'.pc # "check" /\ ~Flushed' /\ (Live' => Live)
    BY <2>1 DEF Flushed, Live
  <2>8. Live => ~noMoreInput
    BY <1>1, <2>1 DEF FlowInv, Closed, Ending, Live
  <2>9. /\ Live => Sent <= supplied /\ encodeResult # "SZ_OK"
        /\ wpc = "encode" /\ enc.ended => noMoreInput
    BY <1>1, <2>8 DEF OutCount, EndInv
  <2>10. /\ Sent <= supplied => Sent <= supplied'
         /\ supplied = inRing.count => supplied' = inRing'.count
    BY <2>1, <1>0, <2>5
  <2>11. Live => ~(wpc = "encode" /\ enc.ended) /\ encodeResult # "SZ_OK"
    BY <2>8, <2>9
  <2>12. Live => Sent <= supplied'
    BY <2>9, <2>10
  <2>. QED
    BY <1>1, <2>1, <2>6, <2>7, <2>10, <2>11, <2>12 DEF OutCount
<1>15. CASE WaitForWorkerEvent
  <2>1. /\ UNCHANGED <<inRing, outRing, supplied, rd, wr, enc, wpc, encodeResult,
                       noMoreInput, written>>
        /\ m.pc = "wait" /\ m'.pc \in {"top", "raised"}
        /\ m'.started = m.started
        /\ UNCHANGED ev
    BY <1>15, WaitForWorkerEventDoes
  <2>. QED
    BY <1>1, <2>1, CountFrame DEF Counted, Live, Flushed
<1>16. CASE CheckResult
  <2>1. /\ UNCHANGED <<inRing, outRing, supplied, rd, wr, enc, wpc, encodeResult,
                       noMoreInput, ev>>
        /\ m.pc = "check"
        /\ ~m'.started \/ (m'.pc = "raised" /\ m'.started = m.started /\ UNCHANGED written)
    BY <1>16, CheckResultDoes
  <2>2. CASE ~m'.started
    BY <2>2 DEF OutCount, Live
  <2>3. CASE m'.pc = "raised" /\ m'.started = m.started /\ UNCHANGED written
    BY <1>1, <2>1, <2>3, CountFrame DEF Counted, Live, Flushed
  <2>. QED
    BY <2>1, <2>2, <2>3
<1>17. CASE Free
  <2>1. /\ UNCHANGED <<inRing, outRing, supplied, rd, wr, enc, wpc, encodeResult,
                       noMoreInput, written>>
        /\ m.pc \in {"idle", "raised"} /\ m'.pc = "join"
        /\ m'.started = m.started
        /\ \A e \in Events \ {"TerminateWorker"} : ev'[e] = ev[e]
    BY <1>17, FreeDoes
  <2>2. /\ ev'["StartEncode"] = ev["StartEncode"]
        /\ ev'["WorkerEncodeFinished"] = ev["WorkerEncodeFinished"]
    BY <2>1 DEF Events
  <2>. QED
    BY <1>1, <2>1, CountFrame, <2>2 DEF Counted, Live, Flushed
<1>18. CASE Join
  <2>1. /\ UNCHANGED <<inRing, outRing, supplied, rd, wr, enc, wpc, encodeResult,
                       noMoreInput,
                       written, ev>>
        /\ m'.started = m.started /\ m.pc = "join" /\ m'.pc = "freed"
    BY <1>18, JoinDoes
  <2>. QED
    BY <1>1, <2>1, CountFrame DEF Counted, Live, Flushed
<1>19. CASE WorkerThreadProc
  <2>1. /\ UNCHANGED <<inRing, outRing, supplied, m, rd, wr, encodeResult, noMoreInput,
                       written>>
        /\ \/ wpc' = "exited" /\ UNCHANGED ev
           \/ /\ wpc = "await" /\ ev["StartEncode"] /\ wpc' = "encode" /\ enc' = NewEncoder
              /\ ~ev'["StartEncode"] /\ \A e \in Events \ {"StartEncode"} : ev'[e] = ev[e]
           \/ /\ wpc = "encoded" /\ wpc' = "await" /\ ev'["WorkerEncodeFinished"]
              /\ \A e \in Events \ {"WorkerEncodeFinished"} : ev'[e] = ev[e]
        /\ wpc # "encode"
    BY <1>19, WorkerThreadProcDoes
  <2>4. /\ Counted' = Counted /\ Sent' = Sent /\ Given' = Given
        /\ (Live' <=> Live) /\ (Flushed' <=> Flushed)
    BY <2>1 DEF Counted, Sent, Given, Taken, Live, Flushed
  <2>5. CASE wpc' = "exited" /\ UNCHANGED ev
    BY <1>1, <2>1, <2>4, <2>5 DEF OutCount
  <2>6. CASE /\ wpc = "await" /\ ev["StartEncode"] /\ wpc' = "encode" /\ enc' = NewEncoder
             /\ ~ev'["StartEncode"] /\ \A e \in Events \ {"StartEncode"} : ev'[e] = ev[e]
    <3>1. Taken = 0 /\ Len(enc'.pending) = 0 /\ ~enc'.ended
      BY <1>1, <2>1, <2>6, NoneTypes DEF HandInv, Taken
    <3>2. ev'["WorkerEncodeFinished"] = ev["WorkerEncodeFinished"]
      BY <2>6 DEF Events
    <3>3. supplied = inRing.count => Given = 0
      BY <1>0, <3>1 DEF Given
    <3>. QED
      BY <1>1, <2>1, <1>0, <2>4, <2>6, <3>1, <3>2, <3>3 DEF OutCount
  <2>7. CASE /\ wpc = "encoded" /\ wpc' = "await" /\ ev'["WorkerEncodeFinished"]
             /\ \A e \in Events \ {"WorkerEncodeFinished"} : ev'[e] = ev[e]
    <3>1. Live => ~ev'["StartEncode"]
      BY <1>1, <2>7 DEF Events, HandInv, Live
    <3>. QED
      BY <1>1, <2>1, <2>4, <2>7, <3>1 DEF OutCount
  <2>. QED
    BY <2>1, <2>5, <2>6, <2>7
<1>20. CASE EndOfInput
  <2>1. /\ UNCHANGED <<inRing, outRing, supplied, m, wr, wpc, encodeResult,
                       noMoreInput, ev, written>>
        /\ rd.pc \in {"fill", "empty"}
        /\ \/ rd'.pc \in {"empty", "ring"} /\ rd'.data = rd.data /\ UNCHANGED enc
           \/ /\ rd' = NoRead /\ enc'.pending = enc.pending \o rd.data
              /\ enc'.failed = enc.failed /\ enc'.ended = enc.ended
    BY <1>20, EndOfInputDoes
  <2>4. Counted' = Counted /\ Sent' = Sent /\ (Live' <=> Live) /\ (Flushed' <=> Flushed)
    BY <2>1 DEF Counted, Sent, Live, Flushed
  <2>5. CASE rd'.pc \in {"empty", "ring"} /\ rd'.data = rd.data /\ UNCHANGED enc
    <3>1. Given' = Given
      BY <2>1, <2>5 DEF Given, Taken
    <3>. QED
      BY <1>1, <2>1, <2>4, <2>5, <3>1 DEF OutCount
  <2>6. CASE /\ rd' = NoRead /\ enc'.pending = enc.pending \o rd.data
             /\ enc'.failed = enc.failed /\ enc'.ended = enc.ended
    <3>1. Given' = Given + Len(rd.data)
      <4>1. Taken = Len(rd.data)
        BY <2>1 DEF Taken
      <4>2. Taken' = 0
        BY <2>6, NoneTypes DEF Taken
      <4>. QED
        BY <2>1, <1>0, <4>1, <4>2 DEF Given
    <3>2. Len(enc'.pending) = Len(enc.pending) + Len(rd.data)
      BY <1>1, <2>6, ConcatIs DEF TypeInv, EncType, ReadType
    <3>3. Given' - Len(enc'.pending) = Given - Len(enc.pending)
      BY <1>0, <3>1, <3>2
    <3>. QED
      BY <1>1, <2>1, <2>4, <2>6, <3>3 DEF OutCount
  <2>. QED
    BY <2>1, <2>5, <2>6
<1>21. CASE ReadRing
  <2>. DEFINE k == ReadBytes(inRing, rd.size)
              more == MoveOut(inRing, k)
  <2>1. /\ UNCHANGED <<inRing, outRing, supplied, m, wr, enc, wpc, encodeResult,
                       noMoreInput, ev, written>>
        /\ rd.pc = "ring"
        /\ \/ rd'.pc = "sub" /\ rd'.bytes = k /\ rd'.data = rd.data \o more
           \/ rd'.pc \in {"fill", "wake"} /\ rd'.data = rd.data
    BY <1>21, ReadRingDoes
  <2>4. Taken' = Taken
    <3>1. CASE rd'.pc \in {"fill", "wake"} /\ rd'.data = rd.data
      BY <2>1, <3>1 DEF Taken
    <3>2. CASE rd'.pc = "sub" /\ rd'.bytes = k /\ rd'.data = rd.data \o more
      <4>1. rd.size \in Nat /\ rd.data \in Seq(Item)
        BY <1>1 DEF TypeInv, ReadType
      <4>0. inRing \in RingTypes /\ rd.size \in Nat
        BY <1>0, <4>1
      <4>2. k \in 0 .. inRing.count /\ k <= BufSize - inRing.r
        BY <4>0, ReadBytesFit
      <4>. HIDE DEF k
      <4>3. more \in Seq(Item) /\ Len(more) = k
        BY <1>0, <4>2, MovedOut
      <4>. HIDE DEF more
      <4>4. Len(rd'.data) = Len(rd.data) + k
        BY <3>2, <4>1, <4>3, ConcatIs
      <4>. QED
        BY <2>1, <1>0, <3>2, <4>2, <4>4 DEF Taken
    <3>. QED
      BY <2>1, <3>1, <3>2
  <2>5. /\ Counted' = Counted /\ Sent' = Sent /\ Given' = Given
        /\ (Live' <=> Live) /\ (Flushed' <=> Flushed)
    BY <2>1, <2>4 DEF Counted, Sent, Given, Live, Flushed
  <2>. QED
    BY <1>1, <2>1, <2>5 DEF OutCount
<1>22. CASE ReadDone
  <2>1. /\ UNCHANGED <<outRing, supplied, m, wr, enc, wpc, encodeResult, noMoreInput,
                       ev, written>>
        /\ rd.pc = "sub" /\ rd'.pc # "sub" /\ rd'.data = rd.data
        /\ inRing' = SubCount(inRing, rd.bytes)
    BY <1>22, ReadDoneDoes
  <2>4. rd.bytes \in 1 .. inRing.count /\ rd.bytes <= BufSize - inRing.r /\ Aligned(inRing)
    BY <1>1, <2>1, <1>0 DEF MoveInv
  <2>5. inRing'.count = inRing.count - rd.bytes
    BY <2>1, <1>0, <2>4, CountSubtracted
  <2>6. /\ Counted' = Counted /\ Sent' = Sent /\ Given' = Given
        /\ (Live' <=> Live) /\ (Flushed' <=> Flushed)
    <3>1. /\ Counted' = Counted /\ Sent' = Sent
          /\ (Live' <=> Live) /\ (Flushed' <=> Flushed)
      BY <2>1 DEF Counted, Sent, Live, Flushed
    <3>2. Taken = Len(rd.data) - rd.bytes /\ Taken' = Len(rd.data)
      BY <2>1 DEF Taken
    <3>3. /\ Given = supplied - inRing.count - (Len(rd.data) - rd.bytes)
          /\ Given' = supplied - (inRing.count - rd.bytes) - Len(rd.data)
      BY <2>1, <2>5, <3>2 DEF Given
    <3>4. /\ supplied \in Nat /\ inRing.count \in Nat /\ Len(rd.data) \in Nat /\ rd.bytes \in Nat
      BY <1>0
    <3>5. Given' = Given
      BY <3>3, <3>4
    <3>. QED
      BY <3>1, <3>5
  <2>7. wpc = "encode"
    BY <1>1, <2>1, NoneTypes DEF HandInv
  <2>. QED
    BY <1>1, <2>1, <2>6, <2>7 DEF OutCount
<1>23. CASE WaitForInput
  <2>1. /\ UNCHANGED <<inRing, outRing, supplied, m, wr, wpc, encodeResult,
                       noMoreInput, written>>
        /\ rd.pc \in {"wake", "wait"}
        /\ \/ rd'.pc \in {"wait", "fill"} /\ rd'.data = rd.data /\ UNCHANGED enc
           \/ enc'.failed
        /\ \/ UNCHANGED ev
           \/ \A e \in Events \ {"WorkerWaitingOnInput"} : ev'[e] = ev[e]
           \/ \A e \in Events \ {"EndWaitOnInput"} : ev'[e] = ev[e]
    BY <1>23, WaitForInputDoes
  <2>2. /\ ev'["StartEncode"] = ev["StartEncode"]
        /\ ev'["WorkerEncodeFinished"] = ev["WorkerEncodeFinished"]
    BY <2>1 DEF Events
  <2>3. /\ Counted' = Counted /\ Sent' = Sent
        /\ (Live' <=> Live) /\ (Flushed' <=> Flushed)
        /\ ~enc'.failed => Given' = Given /\ UNCHANGED enc
    BY <2>1 DEF Counted, Sent, Given, Taken, Live, Flushed
  <2>. QED
    BY <1>1, <2>1, <2>2, <2>3 DEF OutCount
<1>24. CASE WriteRing
  <2>. DEFINE k == WriteBytes(outRing, Len(wr.data))
  <2>1. /\ UNCHANGED <<inRing, supplied, m, rd, enc, wpc, encodeResult, noMoreInput,
                       ev, written>>
        /\ wr.pc = "ring" /\ wr'.data = wr.data
        /\ outRing' = MoveIn(outRing, wr.data, k) \/ outRing' = outRing
    BY <1>24, WriteRingDoes
  <2>4. outRing'.count = outRing.count
    <3>1. wr.data \in Seq(Item) /\ Aligned(outRing)
      BY <1>1 DEF TypeInv, WriteType, MoveInv
    <3>2. k \in 0 .. Len(wr.data) /\ k <= BufSize - outRing.count /\ k <= BufSize - outRing.w
      BY <1>0, WriteBytesFit
    <3>. HIDE DEF k
    <3>3. \A i \in 1 .. k : wr.data[i] \in Item
      BY <1>0, <3>1, <3>2
    <3>4. MoveIn(outRing, wr.data, k).count = outRing.count
      BY <1>0, <3>1, <3>2, <3>3, MovedIn
    <3>. QED
      BY <2>1, <3>4
  <2>5. /\ Counted' = Counted /\ Sent' = Sent /\ Given' = Given
        /\ (Live' <=> Live) /\ (Flushed' <=> Flushed)
    BY <2>1, <2>4 DEF Counted, Sent, Given, Taken, Live, Flushed
  <2>. QED
    BY <1>1, <2>1, <2>4, <2>5 DEF OutCount
<1>25. CASE WriteDone
  <2>1. /\ UNCHANGED <<inRing, supplied, m, rd, enc, wpc, encodeResult, noMoreInput,
                       ev, written>>
        /\ wr.pc = "add" /\ outRing' = AddCount(outRing, wr.bytes)
        /\ \/ wr.bytes = Len(wr.data) /\ wr' = NoWrite
           \/ Len(wr'.data) = Len(wr.data) - wr.bytes
    BY <1>25, WriteDoneDoes
  <2>4. /\ wr.bytes \in Nat /\ wr.bytes > 0 /\ Aligned(outRing)
        /\ wr.bytes <= BufSize - outRing.count /\ wr.bytes <= BufSize - outRing.w
    BY <1>1, <2>1 DEF MoveInv, TypeInv, WriteType
  <2>5. outRing'.count = outRing.count + wr.bytes /\ Len(wr'.data) = Len(wr.data) - wr.bytes
    BY <2>1, <1>0, <2>4, CountAdded, NoneTypes, SMTT(20)
  <2>6. /\ Counted' = Counted /\ Given' = Given /\ (Live' <=> Live) /\ (Flushed' <=> Flushed)
        /\ Sent' = Sent
    <3>1. Counted' = Counted /\ Given' = Given /\ (Live' <=> Live) /\ (Flushed' <=> Flushed)
      BY <2>1 DEF Counted, Given, Taken, Live, Flushed
    <3>2. Sent' = Sent
      BY <1>0, <2>4, <2>5, <3>1 DEF Sent
    <3>. QED
      BY <3>1, <3>2
  <2>7. wpc = "encode"
    BY <1>1, <2>1, NoneTypes DEF HandInv
  <2>8. Live => ~ev["WorkerEncodeFinished"]
    BY <1>1, <2>7 DEF HandInv, Live
  <2>9. Live => ~m.finished
    BY <1>1, <2>8 DEF HandInv, Live
  <2>10. Live => m.call # "DrainAll" /\ m.pc # "check"
    BY <1>1, <2>9 DEF FlowInv
  <2>. QED
    BY <1>1, <2>1, <2>6, <2>7, <2>10 DEF OutCount
<1>26. CASE WaitForOutput
  <2>1. /\ UNCHANGED <<inRing, outRing, supplied, m, rd, wpc, encodeResult,
                       noMoreInput, written>>
        /\ wr.pc \in {"wake", "wait"}
        /\ \/ wr'.data = wr.data /\ UNCHANGED enc
           \/ wr' = NoWrite /\ enc'.failed
        /\ \/ UNCHANGED ev
           \/ \A e \in Events \ {"WorkerWaitingOnOutput"} : ev'[e] = ev[e]
           \/ \A e \in Events \ {"EndWaitOnOutput"} : ev'[e] = ev[e]
    BY <1>26, WaitForOutputDoes
  <2>4. /\ ev'["StartEncode"] = ev["StartEncode"]
        /\ ev'["WorkerEncodeFinished"] = ev["WorkerEncodeFinished"]
    BY <2>1 DEF Events
  <2>5. /\ Counted' = Counted /\ Given' = Given
        /\ (Live' <=> Live) /\ (Flushed' <=> Flushed)
    BY <2>1 DEF Counted, Given, Taken, Live, Flushed
  <2>6. wpc = "encode"
    BY <1>1, <2>1, NoneTypes DEF HandInv
  <2>7. CASE wr'.data = wr.data /\ UNCHANGED enc
    <3>1. Sent' = Sent
      BY <2>1, <2>5, <2>7 DEF Sent
    <3>. QED
      BY <1>1, <2>1, <2>4, <2>5, <2>7, <3>1 DEF OutCount
  <2>8. CASE wr' = NoWrite /\ enc'.failed
    <3>1. Sent' \in Int /\ Sent' <= Sent
      BY <2>1, <1>0, <2>5, <2>8, NoneTypes, SMTT(20) DEF Sent
    <3>2. Sent <= supplied \/ (Sent = supplied + 1 /\ noMoreInput) =>
          Sent' <= supplied \/ (Sent' = supplied + 1 /\ noMoreInput)
      BY <1>0, <3>1
    <3>. QED
      BY <1>1, <2>1, <2>4, <2>5, <2>6, <2>8, <3>2 DEF OutCount
  <2>. QED
    BY <2>1, <2>7, <2>8
<1>27. CASE EncoderReads
  BY <1>1, <1>27, NoneTypes, EncoderReadsDoes
     DEF TypeInv, OutCount, Live, Counted, Sent, Flushed, Taken, Given, HandInv,
         FlowInv
<1>28. CASE EncoderWrites
  <2>1. /\ UNCHANGED <<inRing, outRing, supplied, m, rd, wpc, encodeResult,
                       noMoreInput, ev, written>>
        /\ wpc = "encode" /\ ~enc.failed /\ wr = NoWrite
        /\ \/ /\ enc'.ended = enc.ended /\ Len(wr'.data) \in 1 .. Len(enc.pending)
              /\ Len(enc'.pending) = Len(enc.pending) - Len(wr'.data)
           \/ /\ enc.eof /\ enc.pending = <<>> /\ ~enc.ended
              /\ wr'.data = <<EndMark>> /\ enc'.ended
    BY <1>28, EncoderWritesDoes
  <2>4. /\ Counted' = Counted /\ Given' = Given
        /\ (Live' <=> Live) /\ (Flushed' <=> Flushed)
    BY <2>1 DEF Counted, Given, Taken, Live, Flushed
  <2>5. Sent = Counted + outRing.count
    BY <2>1, <1>0, NoneTypes DEF Sent
  <2>6. CASE /\ enc'.ended = enc.ended /\ Len(wr'.data) \in 1 .. Len(enc.pending)
             /\ Len(enc'.pending) = Len(enc.pending) - Len(wr'.data)
    <3>1. ~enc.ended
      <4>1. enc.ended => Len(enc.pending) = 0
        BY <1>1 DEF EndInv
      <4>. QED
        BY <2>6, <4>1
    <3>2. Live => Sent = Given - Len(enc.pending)
      BY <1>1, <2>1, <3>1 DEF OutCount
    <3>3. Sent' = Sent + Len(wr'.data)
      BY <2>1, <2>4, <2>5 DEF Sent
    <3>7. Given \in Int /\ Sent \in Int /\ Len(enc.pending) \in Nat
      BY <1>0
    <3>8. \A g, p, w \in Int : (g - p) + w = g - (p - w)
      OBVIOUS
    <3>9. Len(wr'.data) \in Int /\ Len(enc.pending) \in Int
      BY <2>6, <3>7
    <3>10. (Given - Len(enc.pending)) + Len(wr'.data) = Given - (Len(enc.pending) - Len(wr'.data))
      BY <3>7, <3>8, <3>9
    <3>6. Live => Sent' = Given - Len(enc'.pending)
      <4>1. CASE Live
        <5>1. Sent' = (Given - Len(enc.pending)) + Len(wr'.data)
          BY <3>2, <3>3, <4>1
        <5>2. Len(enc'.pending) = Len(enc.pending) - Len(wr'.data)
          BY <2>6
        <5>. QED
          BY <3>10, <5>1, <5>2
      <4>. QED
        BY <4>1
    <3>4. Given <= supplied
      BY <1>1, <1>0, SMTT(20) DEF Given, Taken, MoveInv
    <3>5. Live => Sent' <= supplied
      BY <1>0, <2>6, <3>6, <3>4
    <3>. QED
      BY <1>1, <2>1, <2>4, <2>6, <3>1, <3>5, <3>6 DEF OutCount
  <2>7. CASE /\ enc.eof /\ enc.pending = <<>> /\ ~enc.ended
             /\ wr'.data = <<EndMark>> /\ enc'.ended
    <3>1. noMoreInput /\ inRing.count = 0 /\ rd = NoRead
      BY <1>1, <2>1, <2>7 DEF EndInv
    <3>2. Given = supplied
      BY <1>0, <3>1, NoneTypes DEF Given, Taken
    <3>3. Live => Sent = supplied
      <4>1. Len(enc.pending) = 0
        BY <2>7
      <4>. QED
        BY <1>1, <2>1, <1>0, <2>7, <3>2, <4>1 DEF OutCount
    <3>4. Live => Sent' = supplied + 1
      <4>1. Len(wr'.data) = 1
        BY <2>7
      <4>. QED
        BY <2>1, <1>0, <2>4, <2>5, <3>3, <4>1 DEF Sent
    <3>. QED
      BY <1>1, <2>1, <2>4, <2>7, <3>1, <3>4 DEF OutCount
  <2>. QED
    BY <2>1, <2>6, <2>7
<1>29. CASE EncoderReturns
  <2>1. /\ UNCHANGED <<inRing, outRing, supplied, m, rd, wr, noMoreInput, ev, written>>
        /\ wpc = "encode" /\ wpc' = "encoded" /\ (enc.failed \/ enc.ended)
        /\ encodeResult' = IF enc.failed THEN "error" ELSE "SZ_OK"
    BY <1>29, EncoderReturnsDoes
  <2>2. /\ Counted' = Counted /\ Given' = Given /\ Sent' = Sent
        /\ (Live' <=> Live) /\ (Flushed' <=> Flushed)
    BY <2>1 DEF Counted, Sent, Given, Taken, Live, Flushed
  <2>3. ~enc.failed => enc.ended
    BY <2>1
  <2>4. enc.ended => noMoreInput /\ inRing.count = 0
    BY <1>1, <2>1 DEF EndInv
  <2>5. CASE enc.failed
    <3>1. encodeResult' = "error"
      BY <2>1, <2>5
    <3>. QED
      BY <1>1, <2>1, <2>2, <3>1 DEF OutCount
  <2>6. CASE ~enc.failed
    <3>1. encodeResult' = "SZ_OK"
      BY <2>1, <2>6
    <3>2. Live => Sent = supplied + 1
      BY <1>1, <2>1, <2>3, <2>6 DEF OutCount
    <3>. QED
      BY <1>1, <2>1, <2>2, <2>3, <2>4, <2>6, <3>1, <3>2 DEF OutCount
  <2>. QED
    BY <2>5, <2>6
<1>30. CASE EncoderFails
  <2>1. /\ UNCHANGED <<inRing, outRing, supplied, m, rd, wr, wpc, encodeResult,
                       noMoreInput, ev, written>>
        /\ enc'.failed
    BY <1>30, EncoderFailsDoes
  <2>2. /\ Counted' = Counted /\ Given' = Given /\ Sent' = Sent
        /\ (Live' <=> Live) /\ (Flushed' <=> Flushed)
    BY <2>1 DEF Counted, Sent, Given, Taken, Live, Flushed
  <2>. QED
    BY <1>1, <2>1, <2>2 DEF OutCount
<1>31. CASE Tick
  BY <1>1, <1>31, NoneTypes, TickDoes
     DEF TypeInv, OutCount, Live, Counted, Sent, Flushed, Taken, Given, HandInv,
         FlowInv
<1>32. CASE WorkerDies
  <2>1. /\ UNCHANGED <<inRing, outRing, supplied, m, encodeResult, noMoreInput, ev,
                       written>>
        /\ wpc' = "exited" /\ wr' = NoWrite
    BY <1>32, WorkerDiesDoes
  <2>4. Counted' = Counted /\ (Live' <=> Live) /\ (Flushed' <=> Flushed)
    BY <2>1 DEF Counted, Live, Flushed
  <2>5. Sent' \in Int /\ Sent' <= Sent /\ (wr = NoWrite => Sent' = Sent)
    BY <2>1, <1>0, <2>4, NoneTypes, SMTT(20) DEF Sent
  <2>6. Sent <= supplied \/ (Sent = supplied + 1 /\ noMoreInput) =>
        Sent' <= supplied \/ (Sent' = supplied + 1 /\ noMoreInput)
    BY <1>0, <2>5
  <2>7. wpc # "encode" => wr = NoWrite
    BY <1>1 DEF HandInv
  <2>. QED
    BY <1>1, <2>1, <2>4, <2>5, <2>6, <2>7 DEF OutCount
<1>33. CASE CompilerDies
  <2>1. m'.pc = "dead"
    BY <1>33, CompilerDiesDoes
  <2>. QED
    BY <2>1 DEF OutCount, Live
<1>34. CASE UNCHANGED vars
  BY <1>1, <1>34
     DEF vars, shared, worker, history, TypeInv, OutCount, Live, Counted, Sent,
         Flushed, Taken, Given, HandInv, FlowInv
<1>. QED
  BY NextIs, <1>1, <1>2, <1>3, <1>4, <1>5, <1>6, <1>7, <1>8, <1>9, <1>10, <1>11, <1>12,
     <1>13, <1>14, <1>15, <1>16, <1>17, <1>18, <1>19, <1>20, <1>21, <1>22, <1>23,
     <1>24, <1>25, <1>26, <1>27, <1>28, <1>29, <1>30, <1>31, <1>32, <1>33, <1>34
     DEF Begins

\* FaultInv is kept.
LEMMA FaultStep ==
    ASSUME CompressorInv, [Next]_vars
    PROVE  FaultInv'
<1>1. TypeInv /\ HandInv /\ FlowInv /\ FaultInv /\ OutCount
  BY DEF CompressorInv
<1>2. ASSUME NEW call \in {"Compress", "Finish"}, NEW count \in Nat, call = "Finish" => count = 0,
            Begin(call, count)
      PROVE  FaultInv'
  BY <1>1, <1>2, NoneTypes, BeginDoes
     DEF TypeInv, FlowInv, HandInv, FaultInv, MustEnd, Closed, Events
<1>3. CASE SetNoMoreInput
  BY <1>1, <1>3, NoneTypes, SetNoMoreInputDoes
     DEF TypeInv, FlowInv, HandInv, FaultInv, MustEnd, Closed, Events
<1>4. CASE EnterCompress
  BY <1>1, <1>4, NoneTypes, EnterCompressDoes
     DEF TypeInv, FlowInv, HandInv, FaultInv, MustEnd, Closed, Events
<1>5. CASE CompressLoop
  <2>1. /\ m.pc = "top" /\ m.call = "Compress"
        /\ m'.pc \in {"idle", "progress"} \/ (m.finished /\ m'.pc = "raised")
        /\ UNCHANGED <<ev, wpc, enc, encodeResult, faults>>
    BY <1>5, CompressLoopDoes, NoneTypes
  <2>2. /\ ev["WorkerEncodeFinished"] => encodeResult # "none"
        /\ encodeResult = "SZ_OK" => noMoreInput /\ inRing.count = 0
        /\ m.started /\ ~ev["TerminateWorker"]
    BY <1>1, <2>1 DEF OutCount, Live, FlowInv, HandInv, Closed
  <2>. QED
    BY <1>1, <2>1, <2>2 DEF FaultInv, HandInv, FlowInv, Closed, Ending, TypeInv
<1>6. CASE FinishLoop
  BY <1>1, <1>6, NoneTypes, FinishLoopDoes
     DEF TypeInv, FlowInv, HandInv, FaultInv, MustEnd, Closed, Events
<1>7. CASE SatisfyWorkerWait
  BY <1>1, <1>7, NoneTypes, SatisfyWorkerWaitDoes
     DEF TypeInv, FlowInv, HandInv, FaultInv, MustEnd, Closed, Events
<1>8. CASE UpdateProgress
  <2>1. /\ (m'.pc = "flush" /\ faults' = faults) \/ faults' = faults + 1
        /\ UNCHANGED <<ev, wpc, enc, encodeResult>>
    BY <1>8, UpdateProgressDoes, NoneTypes
  <2>. QED
    BY <1>1, <2>1 DEF FaultInv, TypeInv
<1>9. CASE FlushOutputBuffer
  BY <1>1, <1>9, NoneTypes, FlushOutputBufferDoes
     DEF TypeInv, FlowInv, HandInv, FaultInv, MustEnd, Closed, Events
<1>10. CASE CallWriteProc
  BY <1>1, <1>10, NoneTypes, CallWriteProcDoes
     DEF TypeInv, FlowInv, HandInv, FaultInv, MustEnd, Closed, Events
<1>11. CASE ReadToCallbackDone
  BY <1>1, <1>11, NoneTypes, ReadToCallbackDoneDoes
     DEF TypeInv, FlowInv, HandInv, FaultInv, MustEnd, Closed, Events
<1>12. CASE FlushReturns
  BY <1>1, <1>12, NoneTypes, FlushReturnsDoes
     DEF TypeInv, FlowInv, HandInv, FaultInv, MustEnd, Closed, Events
<1>13. CASE WriteInput
  BY <1>1, <1>13, NoneTypes, WriteInputDoes
     DEF TypeInv, FlowInv, HandInv, FaultInv, MustEnd, Closed, Events
<1>14. CASE PublishInput
  BY <1>1, <1>14, NoneTypes, PublishInputDoes
     DEF TypeInv, FlowInv, HandInv, FaultInv, MustEnd, Closed, Events
<1>15. CASE WaitForWorkerEvent
  BY <1>1, <1>15, NoneTypes, WaitForWorkerEventDoes
     DEF TypeInv, FlowInv, HandInv, FaultInv, MustEnd, Closed, Events
<1>16. CASE CheckResult
  <2>1. /\ m.pc = "check"
        /\ m'.pc = "idle" \/ encodeResult # "SZ_OK" \/ inRing.count # 0
        /\ m'.pc \in {"idle", "raised"}
        /\ UNCHANGED <<ev, wpc, enc, encodeResult, faults>>
    BY <1>16, CheckResultDoes, NoneTypes
  <2>2. /\ ev["WorkerEncodeFinished"] => encodeResult # "none"
        /\ encodeResult = "SZ_OK" => noMoreInput /\ inRing.count = 0
        /\ m.started /\ ~ev["TerminateWorker"]
    BY <1>1, <2>1 DEF OutCount, Live, FlowInv, HandInv, Closed
  <2>. QED
    BY <1>1, <2>1, <2>2 DEF FaultInv, HandInv, FlowInv, TypeInv
<1>17. CASE Free
  BY <1>1, <1>17, NoneTypes, FreeDoes
     DEF TypeInv, FlowInv, HandInv, FaultInv, MustEnd, Closed, Events
<1>18. CASE Join
  BY <1>1, <1>18, NoneTypes, JoinDoes
     DEF TypeInv, FlowInv, HandInv, FaultInv, MustEnd, Closed, Events
<1>19. CASE WorkerThreadProc
  BY <1>1, <1>19, NoneTypes, WorkerThreadProcDoes
     DEF TypeInv, FlowInv, HandInv, FaultInv, MustEnd, Closed, Events
<1>20. CASE EndOfInput
  BY <1>1, <1>20, NoneTypes, EndOfInputDoes
     DEF TypeInv, FlowInv, HandInv, FaultInv, MustEnd, Closed, Events
<1>21. CASE ReadRing
  BY <1>1, <1>21, NoneTypes, ReadRingDoes
     DEF TypeInv, FlowInv, HandInv, FaultInv, MustEnd, Closed, Events
<1>22. CASE ReadDone
  BY <1>1, <1>22, NoneTypes, ReadDoneDoes
     DEF TypeInv, FlowInv, HandInv, FaultInv, MustEnd, Closed, Events
<1>23. CASE WaitForInput
  BY <1>1, <1>23, NoneTypes, WaitForInputDoes
     DEF TypeInv, FlowInv, HandInv, FaultInv, MustEnd, Closed, Events
<1>24. CASE WriteRing
  BY <1>1, <1>24, NoneTypes, WriteRingDoes
     DEF TypeInv, FlowInv, HandInv, FaultInv, MustEnd, Closed, Events
<1>25. CASE WriteDone
  BY <1>1, <1>25, NoneTypes, WriteDoneDoes
     DEF TypeInv, FlowInv, HandInv, FaultInv, MustEnd, Closed, Events
<1>26. CASE WaitForOutput
  BY <1>1, <1>26, NoneTypes, WaitForOutputDoes
     DEF TypeInv, FlowInv, HandInv, FaultInv, MustEnd, Closed, Events
<1>27. CASE EncoderReads
  BY <1>1, <1>27, NoneTypes, EncoderReadsDoes
     DEF TypeInv, FlowInv, HandInv, FaultInv, MustEnd, Closed, Events
<1>28. CASE EncoderWrites
  BY <1>1, <1>28, NoneTypes, EncoderWritesDoes
     DEF TypeInv, FlowInv, HandInv, FaultInv, MustEnd, Closed, Events
<1>29. CASE EncoderReturns
  BY <1>1, <1>29, NoneTypes, EncoderReturnsDoes
     DEF TypeInv, FlowInv, HandInv, FaultInv, MustEnd, Closed, Events
<1>30. CASE EncoderFails
  <2>1. /\ (MustEnd /\ faults' = faults) \/ faults' = faults + 1
        /\ UNCHANGED <<m, ev, wpc, encodeResult>>
    BY <1>30, EncoderFailsDoes, NoneTypes
  <2>. QED
    BY <1>1, <2>1 DEF FaultInv, TypeInv, MustEnd
<1>31. CASE Tick
  BY <1>1, <1>31, NoneTypes, TickDoes
     DEF TypeInv, FlowInv, HandInv, FaultInv, MustEnd, Closed, Events
<1>32. CASE WorkerDies
  BY <1>1, <1>32, NoneTypes, WorkerDiesDoes
     DEF TypeInv, FlowInv, HandInv, FaultInv, MustEnd, Closed, Events
<1>33. CASE CompilerDies
  <2>1. faults' = faults + 1
    BY <1>33, CompilerDiesDoes, NoneTypes
  <2>. QED
    BY <1>1, <2>1 DEF FaultInv, TypeInv
<1>34. CASE UNCHANGED vars
  BY <1>1, <1>34
     DEF vars, shared, worker, history, TypeInv, FlowInv, HandInv, FaultInv, MustEnd,
         Closed, Events
<1>. QED
  BY NextIs, <1>1, <1>2, <1>3, <1>4, <1>5, <1>6, <1>7, <1>8, <1>9, <1>10, <1>11, <1>12,
     <1>13, <1>14, <1>15, <1>16, <1>17, <1>18, <1>19, <1>20, <1>21, <1>22, <1>23,
     <1>24, <1>25, <1>26, <1>27, <1>28, <1>29, <1>30, <1>31, <1>32, <1>33, <1>34
     DEF Begins

\* CompressorInv holds at first.
LEMMA InitInv == Init => CompressorInv
<1>. SUFFICES ASSUME Init PROVE CompressorInv
  OBVIOUS
<1>1. /\ inRing = EmptyRing /\ outRing = EmptyRing
      /\ noMoreInput = FALSE /\ encodeResult = "none" /\ ev = [e \in Events |-> FALSE]
      /\ timer = FALSE /\ mt \in BOOLEAN /\ wpc = "await" /\ rd = NoRead /\ wr = NoWrite
      /\ enc = NewEncoder /\ supplied = 0 /\ accepted = 0 /\ written = <<>>
      /\ streams = 0 /\ faults = 0
  BY DEF Init
<1>2. /\ m \in MainType /\ m.pc = "idle" /\ m.call = "none" /\ m.left = 0 /\ m.wrote = 0
      /\ m.bytes = 0 /\ ~m.started
  BY DEF Init, MainType, MainPcs, Ending
<1>3. EmptyRing \in RingTypes /\ EmptyRing.count = 0 /\ EmptyRing.w = 0 /\ EmptyRing.r = 0
  <2>1. 0 \in 0 .. BufSize /\ 0 \in 0 .. BufSize - 1
    BY BufferAssumption
  <2>. QED
    BY <2>1 DEF EmptyRing, RingTypes, Item
<1>4. Len(NoRead.data) = 0 /\ Len(NoWrite.data) = 0 /\ Len(NewEncoder.pending) = 0 /\ Len(written) = 0
  BY <1>1, NoneTypes
<1>5. TypeInv
  <2>1. inRing \in RingTypes /\ outRing \in RingTypes
    BY <1>1, <1>3
  <2>2. ev \in [Events -> BOOLEAN]
    BY <1>1
  <2>3. written \in Seq(Item) /\ supplied \in Nat /\ accepted \in Nat /\ streams \in Nat /\ faults \in Nat
    BY <1>1
  <2>4. rd \in ReadType /\ wr \in WriteType /\ enc \in EncType
    BY <1>1, NoneTypes
  <2>. QED
    BY <1>1, <1>2, <2>1, <2>2, <2>3, <2>4 DEF TypeInv
<1>6. FlowInv
  BY <1>1, <1>2 DEF FlowInv, Closed, Ending
<1>7. HandInv
  BY <1>1, <1>2 DEF HandInv, Events
<1>8. WakeInv
  BY <1>1, <1>2 DEF WakeInv, Stale, Events
<1>9. MoveInv
  <2>1. BufSize \in Nat /\ BufSize > 0
    BY BufferAssumption
  <2>2. Aligned(inRing) /\ Aligned(outRing)
    BY <1>1, <1>3, <2>1 DEF Aligned
  <2>. QED
    BY <1>1, <1>2, <2>2, NoneTypes DEF MoveInv
<1>10. Taken = 0 /\ Given = 0 /\ Counted = 0 /\ Sent = 0
  <2>1. Taken = 0
    BY <1>1, <1>4, NoneTypes DEF Taken
  <2>2. Counted = 0
    BY <1>2, <1>4 DEF Counted
  <2>. QED
    BY <1>1, <1>3, <1>4, <2>1, <2>2 DEF Given, Sent
<1>11. InInv
  BY <1>1, <1>2, <1>3, <1>4, <1>10 DEF InInv
<1>12. EndInv
  BY <1>1, NoneTypes DEF EndInv
<1>13. OutData
  BY <1>1, <1>2, NoneTypes DEF OutData, Live
<1>14. OutCount
  BY <1>2 DEF OutCount, Live
<1>15. FaultInv
  BY <1>1, <1>2, NoneTypes DEF FaultInv
<1>. QED
  BY <1>5, <1>6, <1>7, <1>8, <1>9, <1>11, <1>12, <1>13, <1>14, <1>15 DEF CompressorInv

\* CompressorInv holds in every state: the two sides agree on where the data are,
\* in which order and how many, on the end of the input and on who waits for whom.
THEOREM CompressorInvariant == Spec => []CompressorInv
<1>1. CompressorInv /\ [Next]_vars => CompressorInv'
  BY TypeStep, FlowStep, HandStep, WakeStep, MoveStep, InStep, EndStep, OutDataStep,
     OutCountStep, FaultStep DEF CompressorInv
<1>. QED
  BY InitInv, <1>1, PTL DEF Spec

\* EndWaitOn... is signaled only to a worker that is in that wait, and
\* WorkerWaitingOn... only by one.
THEOREM WakeUpsAreFresh == Spec => []NoStaleWakeUp
<1>1. CompressorInv => NoStaleWakeUp
  BY DEF CompressorInv, WakeInv, Stale, NoStaleWakeUp
<1>. QED
  BY <1>1, CompressorInvariant, PTL

\* Without a fault neither Compress nor Finish raises.
THEOREM RaisesOnlyForACause == Spec => []RaisesForACause
<1>1. CompressorInv => RaisesForACause
  BY DEF CompressorInv, TypeInv, FaultInv, RaisesForACause
<1>. QED
  BY <1>1, CompressorInvariant, PTL

\* The model's index into the ring is that of the proof.
LEMMA PlaceIs ==
    ASSUME NEW ring \in RingTypes, NEW i \in 1 .. ring.count
    PROVE  (ring.r + i - 1) % BufSize = Place(ring, i)
<1>1. ring.count \in 0 .. BufSize /\ ring.r \in 0 .. BufSize - 1 /\ BufSize \in Nat /\ BufSize > 0
  BY BufferAssumption DEF RingTypes
<1>2. \A j, k \in Nat : k > 0 /\ j < k => j % k = j
  OBVIOUS
<1>3. \A j, k \in Nat : k > 0 /\ k <= j /\ j < 2 * k => j % k = j - k
  OBVIOUS
<1>4. ring.r + i - 1 \in Nat /\ ring.r + i - 1 < 2 * BufSize
  BY <1>1
<1>5. CASE ring.r + i <= BufSize
  BY <1>1, <1>2, <1>4, <1>5 DEF Place
<1>6. CASE ~(ring.r + i <= BufSize)
  BY <1>1, <1>3, <1>4, <1>6 DEF Place
<1>. QED
  BY <1>5, <1>6

\* Nothing is lost, repeated or overtaken on its way to the encoder.
THEOREM InputKeepsItsOrder == Spec => []InputInOrder
<1>1. CompressorInv => InputInOrder
  <2>. SUFFICES ASSUME CompressorInv, wpc = "encode", ~enc.failed
                PROVE  InputInOrder
    BY DEF InputInOrder
  <2>. DEFINE taken == IF rd.pc = "sub" THEN SubSeq(rd.data, 1, Len(rd.data) - rd.bytes)
                       ELSE rd.data
              all == enc.pending \o taken \o Unread
  <2>1. /\ TypeInv /\ InInv /\ MoveInv
        /\ inRing \in RingTypes /\ inRing.count \in Nat /\ supplied \in Nat
        /\ rd.data \in Seq(Item) /\ enc.pending \in Seq(Item) /\ rd.bytes \in Nat
        /\ Given \in Int /\ Taken \in Int
    BY CountsAre DEF CompressorInv, TypeInv, RingTypes, ReadType, EncType
  <2>2. /\ taken \in Seq(Item) /\ Len(taken) = Taken /\ Taken \in Nat
        /\ \A i \in 1 .. Len(taken) : taken[i] = Given + i
    <3>1. CASE rd.pc = "sub"
      <4>1. rd.bytes \in 1 .. Len(rd.data) /\ Len(rd.data) \in Nat
        BY <2>1, <3>1 DEF MoveInv
      <4>2. 1 \in 1 .. Len(rd.data) + 1 /\ Len(rd.data) - rd.bytes \in 1 - 1 .. Len(rd.data)
        BY <4>1
      <4>. DEFINE t == SubSeq(rd.data, 1, Len(rd.data) - rd.bytes)
      <4>3. /\ t \in Seq(Item) /\ Len(t) = Len(rd.data) - rd.bytes - 1 + 1
            /\ \A i \in 1 .. Len(t) : t[i] = rd.data[1 - 1 + i]
        BY <2>1, <4>2, SubSeqIs
      <4>4. taken = t
        BY <3>1
      <4>. HIDE DEF t, taken
      <4>5. Taken = Len(rd.data) - rd.bytes
        BY <3>1 DEF Taken
      <4>6. Len(t) = Taken /\ Taken \in Nat /\ Taken <= Len(rd.data)
        BY <4>1, <4>3, <4>5
      <4>7. ASSUME NEW i \in 1 .. Len(t) PROVE t[i] = Given + i
        <5>1. t[i] = rd.data[i] /\ i \in 1 .. Len(rd.data)
          BY <4>1, <4>3, <4>6
        <5>. QED
          BY <2>1, <5>1 DEF InInv
      <4>. QED
        BY <4>3, <4>4, <4>6, <4>7
    <3>2. CASE rd.pc # "sub"
      BY <2>1, <3>2 DEF Taken, InInv
    <3>. QED
      BY <3>1, <3>2
  <2>3. /\ Unread \in Seq(Item) /\ Len(Unread) = inRing.count
        /\ \A i \in 1 .. inRing.count : Unread[i] = supplied - inRing.count + i
    <3>1. \A i \in 1 .. inRing.count :
             inRing.buf[(inRing.r + i - 1) % BufSize] = supplied - inRing.count + i
      BY <2>1, PlaceIs DEF InInv
    <3>2. \A i \in 1 .. inRing.count : supplied - inRing.count + i \in Item
      BY <2>1 DEF InInv, Item
    <3>3. Unread \in [1 .. inRing.count -> Item]
      BY <3>1, <3>2 DEF Unread
    <3>4. \A i \in 1 .. inRing.count : Unread[i] = supplied - inRing.count + i
      BY <3>1 DEF Unread
    <3>5. Unread \in Seq(Item) /\ Len(Unread) = inRing.count
      BY <2>1, <3>3
    <3>. QED
      BY <3>4, <3>5
  <2>4. /\ Len(enc.pending) \in Nat
        /\ \A i \in 1 .. Len(enc.pending) : enc.pending[i] = Given - Len(enc.pending) + i
    <3>1. Len(enc.pending) \in Nat
      BY <2>1
    <3>2. \A i \in 1 .. Len(enc.pending) : enc.pending[i] = Given - Len(enc.pending) + i
      BY <2>1 DEF InInv
    <3>. QED
      BY <3>1, <3>2
  <2>5. supplied = Given + Taken + inRing.count
    BY <2>1 DEF Given
  <2>. DEFINE front == enc.pending \o taken
  <2>. HIDE DEF taken
  <2>6. /\ front \in Seq(Item) /\ Len(front) = Len(enc.pending) + Taken
        /\ \A i \in 1 .. Len(front) :
             front[i] = IF i <= Len(enc.pending) THEN enc.pending[i]
                        ELSE taken[i - Len(enc.pending)]
    <3>1. /\ enc.pending \o taken \in Seq(Item)
          /\ Len(enc.pending \o taken) = Len(enc.pending) + Len(taken)
          /\ \A i \in 1 .. Len(enc.pending) + Len(taken) :
               (enc.pending \o taken)[i] = IF i <= Len(enc.pending) THEN enc.pending[i]
                                           ELSE taken[i - Len(enc.pending)]
      BY <2>1, <2>2, ConcatIs, Zenon
    <3>2. front = enc.pending \o taken
      OBVIOUS
    <3>. HIDE DEF front
    <3>. QED
      BY <2>2, <3>1, <3>2, Zenon
  <2>7. all = front \o Unread
    OBVIOUS
  <2>. HIDE DEF front, all
  <2>8. /\ all \in Seq(Item) /\ Len(all) = Len(front) + inRing.count
        /\ \A i \in 1 .. Len(all) :
             all[i] = IF i <= Len(front) THEN front[i] ELSE Unread[i - Len(front)]
    <3>1. /\ front \o Unread \in Seq(Item)
          /\ Len(front \o Unread) = Len(front) + Len(Unread)
          /\ \A i \in 1 .. Len(front) + Len(Unread) :
               (front \o Unread)[i] = IF i <= Len(front) THEN front[i] ELSE Unread[i - Len(front)]
      BY <2>3, <2>6, ConcatIs, Zenon
    <3>. QED
      BY <2>3, <2>7, <3>1, Zenon
  <2>9. Len(front) \in Nat /\ supplied - Len(all) = Given - Len(enc.pending)
    <3>1. Len(enc.pending) \in Nat /\ Taken \in Nat /\ Given \in Int /\ inRing.count \in Nat
      BY <2>1, <2>2, <2>4
    <3>2. /\ Len(front) = Len(enc.pending) + Taken /\ Len(all) = Len(front) + inRing.count
          /\ supplied = Given + Taken + inRing.count
      BY <2>5, <2>6, <2>8
    <3>. QED
      BY <3>1, <3>2
  <2>10. ASSUME NEW i \in 1 .. Len(all)
         PROVE  all[i] = supplied - Len(all) + i
    <3>1. CASE i <= Len(enc.pending)
      <4>1. i \in 1 .. Len(enc.pending) /\ i \in 1 .. Len(front) /\ i <= Len(front)
        BY <2>2, <2>4, <2>6, <2>8, <2>9, <3>1
      <4>. QED
        BY <2>4, <2>6, <2>8, <2>9, <3>1, <4>1
    <3>2. CASE ~(i <= Len(enc.pending)) /\ i <= Len(front)
      <4>. DEFINE j == i - Len(enc.pending)
      <4>1. j \in 1 .. Len(taken) /\ i \in 1 .. Len(front)
        BY <2>2, <2>4, <2>6, <2>8, <2>9, <3>2
      <4>2. all[i] = taken[j]
        BY <2>6, <2>8, <3>2, <4>1
      <4>3. taken[j] = Given + j
        BY <2>2, <4>1
      <4>4. Given + j = supplied - Len(all) + i
        BY <2>1, <2>4, <2>9
      <4>. QED
        BY <4>2, <4>3, <4>4
    <3>3. CASE ~(i <= Len(front))
      <4>. DEFINE j == i - Len(front)
      <4>1. j \in 1 .. inRing.count
        BY <2>1, <2>8, <2>9, <3>3
      <4>2. all[i] = Unread[j]
        BY <2>8, <3>3
      <4>3. Unread[j] = supplied - inRing.count + j
        BY <2>3, <4>1
      <4>4. supplied - inRing.count + j = supplied - Len(all) + i
        BY <2>1, <2>8, <2>9
      <4>. QED
        BY <4>2, <4>3, <4>4
    <3>. QED
      BY <3>1, <3>2, <3>3
  <2>11. all = [i \in 1 .. Len(all) |-> supplied - Len(all) + i]
    BY <2>8, <2>10
  <2>. QED
    BY <2>11 DEF InputInOrder, all, taken
<1>. QED
  BY <1>1, CompressorInvariant, PTL

-----------------------------------------------------------------------------
(* The compressor is a CompressedStream                                    *)

\* The whole stream: the units in order and then the mark of its end.
LEMMA WholeIs ==
    ASSUME NEW n \in Nat
    PROVE  /\ Stream!Whole(n) \in Seq(Item) /\ Len(Stream!Whole(n)) = n + 1
           /\ \A i \in 1 .. n : Stream!Whole(n)[i] = i
           /\ Stream!Whole(n)[n + 1] = EndMark
<1>. DEFINE s == [i \in 1 .. n |-> i]
            t == <<EndMark>>
<1>1. \A i \in 1 .. n : i \in Item
  BY DEF Item
<1>2. s \in [1 .. n -> Item] /\ \A i \in 1 .. n : s[i] = i
  BY <1>1
<1>3. t \in Seq(Item) /\ Len(t) = 1 /\ t[1] = EndMark
  BY DEF Item
<1>4. Stream!Whole(n) = s \o t
  BY DEF Stream!Whole
<1>. HIDE DEF s, t
<1>5. s \in Seq(Item) /\ Len(s) = n
  BY <1>2
<1>6. /\ s \o t \in Seq(Item)
      /\ Len(s \o t) = Len(s) + Len(t)
      /\ \A i \in 1 .. Len(s) + Len(t) :
           (s \o t)[i] = IF i <= Len(s) THEN s[i] ELSE t[i - Len(s)]
  BY <1>3, <1>5, ConcatIs, Zenon
<1>. DEFINE w == s \o t
<1>7. /\ w \in Seq(Item) /\ Len(w) = n + 1
      /\ \A i \in 1 .. n + 1 : w[i] = IF i <= n THEN s[i] ELSE t[i - n]
  BY <1>3, <1>5, <1>6, Zenon
<1>8. Stream!Whole(n) = w
  BY <1>4
<1>. HIDE DEF w
<1>9. \A i \in 1 .. n : w[i] = i
  BY <1>2, <1>7
<1>10. w[n + 1] = EndMark
  <2>1. n + 1 \in 1 .. n + 1 /\ ~(n + 1 <= n) /\ (n + 1) - n = 1
    OBVIOUS
  <2>. QED
    BY <1>3, <1>7, <2>1
<1>. QED
  BY <1>7, <1>8, <1>9, <1>10, Zenon

\* A sequence that agrees with the stream is the beginning of it.
LEMMA PartIs ==
    ASSUME NEW s \in Seq(Item), NEW w \in Seq(Item), Len(s) <= Len(w),
           \A i \in 1 .. Len(s) : s[i] = w[i]
    PROVE  Stream!IsPartOf(s, w)
<1>. DEFINE t == SubSeq(w, 1, Len(s))
<1>1. Len(s) \in Nat /\ Len(w) \in Nat
  OBVIOUS
<1>2. 1 \in 1 .. Len(w) + 1 /\ Len(s) \in 1 - 1 .. Len(w)
  BY <1>1
<1>3. /\ t \in Seq(Item) /\ Len(t) = Len(s) - 1 + 1
      /\ \A i \in 1 .. Len(t) : t[i] = w[1 - 1 + i]
  BY <1>2, SubSeqIs
<1>4. Stream!IsPartOf(s, w) <=> s = t
  BY DEF Stream!IsPartOf
<1>. HIDE DEF t
<1>5. Len(t) = Len(s) /\ \A i \in 1 .. Len(s) : t[i] = s[i]
  BY <1>1, <1>3
<1>6. s = t
  BY <1>3, <1>5
<1>. QED
  BY <1>4, <1>6

\* What WriteProc has got is a part of what the stream is to become.
WrittenIsPart ==
  m.pc \notin Closed => Stream!IsPartOf(written, Stream!Whole(accepted))

\* What was written is always the beginning of the stream.
LEMMA PartOfTheStream == CompressorInv => WrittenIsPart
<1>. SUFFICES ASSUME CompressorInv, m.pc \notin Closed
              PROVE  Stream!IsPartOf(written, Stream!Whole(accepted))
  BY DEF WrittenIsPart
<1>1. TypeInv /\ FlowInv /\ MoveInv /\ OutData /\ OutCount
  BY DEF CompressorInv
<1>2. /\ written \in Seq(Item) /\ Len(written) \in Nat /\ accepted \in Nat /\ supplied \in Nat
      /\ m.left \in Nat /\ m.wrote \in Nat /\ m.size \in Nat /\ m.bytes \in Nat
      /\ outRing.count \in Nat /\ Len(wr.data) \in Nat
  BY <1>1 DEF TypeInv, MainType, RingTypes, WriteType
<1>. DEFINE whole == Stream!Whole(accepted)
<1>3. /\ whole \in Seq(Item) /\ Len(whole) = accepted + 1
      /\ \A i \in 1 .. accepted : whole[i] = i
      /\ whole[accepted + 1] = EndMark
  BY <1>2, WholeIs
<1>. HIDE DEF whole
<1>4. Len(written) <= Len(whole) /\ \A i \in 1 .. Len(written) : written[i] = whole[i]
  <2>1. CASE ~m.started
    <3>1. written = <<>>
      BY <1>1, <2>1 DEF FlowInv
    <3>2. Len(written) = 0
      BY <3>1
    <3>. QED
      BY <1>2, <1>3, <3>2
  <2>2. CASE m.started
    <3>1. Live
      BY <2>2 DEF Live, Closed
    <3>2. /\ accepted = supplied + m.left - m.wrote /\ m.wrote <= m.left
          /\ noMoreInput => m.call # "Compress"
          /\ m.call # "Compress" => m.left = 0
      BY <1>1, <2>2 DEF FlowInv, Ending
    <3>3. Sent <= supplied \/ (Sent = supplied + 1 /\ noMoreInput)
      BY <1>1, <3>1 DEF OutCount
    <3>4. Len(written) <= Sent
      <4>1. m.pc = "sub" => m.bytes <= outRing.count
        BY <1>1, <1>2 DEF MoveInv
      <4>2. Len(written) <= Counted + outRing.count /\ Counted \in Int
        BY <1>2, <4>1 DEF Counted
      <4>. QED
        BY <1>2, <4>2 DEF Sent
    <3>5. Sent \in Int
      BY <1>1, CountsAre
    <3>6. \A i \in 1 .. Len(written) : written[i] = Unit(i)
      BY <1>1, <3>1 DEF OutData
    <3>7. CASE Len(written) <= supplied
      <4>1. \A i \in 1 .. Len(written) : Unit(i) = i /\ i \in 1 .. accepted
        BY <1>2, <3>2, <3>7 DEF Unit
      <4>2. Len(written) <= accepted + 1
        BY <1>2, <3>2, <3>7
      <4>. QED
        BY <1>3, <3>6, <4>1, <4>2
    <3>8. CASE ~(Len(written) <= supplied)
      <4>1. Len(written) = supplied + 1 /\ noMoreInput
        BY <1>2, <3>3, <3>4, <3>5, <3>8
      <4>2. accepted = supplied
        BY <1>2, <3>2, <4>1
      <4>3. ASSUME NEW i \in 1 .. Len(written)
            PROVE  Unit(i) = whole[i]
        <5>1. CASE i <= supplied
          <6>1. i \in 1 .. accepted
            BY <1>2, <4>1, <4>2, <5>1
          <6>. QED
            BY <1>3, <5>1, <6>1 DEF Unit
        <5>2. CASE ~(i <= supplied)
          <6>1. i = accepted + 1
            BY <1>2, <4>1, <4>2, <5>2
          <6>. QED
            BY <1>3, <5>2, <6>1 DEF Unit
        <5>. QED
          BY <5>1, <5>2
      <4>. QED
        BY <1>3, <3>6, <4>1, <4>2, <4>3
    <3>. QED
      BY <3>7, <3>8
  <2>. QED
    BY <2>1, <2>2
<1>. QED
  BY <1>2, <1>3, <1>4, PartIs DEF whole

\* At the end of Finish it is all of it.
LEMMA WholeStream ==
    ASSUME CompressorInv, m.pc = "check", encodeResult = "SZ_OK"
    PROVE  written = Stream!Whole(accepted)
<1>1. TypeInv /\ FlowInv /\ HandInv /\ OutData /\ OutCount
  BY DEF CompressorInv
<1>2. /\ written \in Seq(Item) /\ Len(written) \in Nat /\ accepted \in Nat /\ supplied \in Nat
      /\ m.left \in Nat /\ m.wrote \in Nat
  BY <1>1 DEF TypeInv, MainType
<1>3. m.started /\ Live /\ m.call = "DrainAll"
  BY <1>1 DEF FlowInv, Closed, Live
<1>4. accepted = supplied
  <2>1. accepted = supplied + m.left - m.wrote /\ m.left = 0 /\ m.wrote = 0
    BY <1>1, <1>3 DEF FlowInv, Closed
  <2>. QED
    BY <1>2, <2>1
<1>5. Len(written) = supplied + 1
  <2>1. wpc # "encode"
    BY <1>1, <1>3 DEF OutCount
  <2>2. Len(wr.data) = 0
    BY <1>1, <2>1, NoneTypes DEF HandInv
  <2>3. Counted = Len(written)
    BY <1>2 DEF Counted
  <2>4. Sent = supplied + 1 /\ outRing.count = 0
    BY <1>1, <1>3 DEF OutCount
  <2>. QED
    BY <1>2, <2>2, <2>3, <2>4 DEF Sent
<1>. DEFINE whole == Stream!Whole(accepted)
<1>6. /\ whole \in Seq(Item) /\ Len(whole) = accepted + 1
      /\ \A i \in 1 .. accepted : whole[i] = i
      /\ whole[accepted + 1] = EndMark
  BY <1>2, WholeIs
<1>. HIDE DEF whole
<1>7. ASSUME NEW i \in 1 .. Len(written)
      PROVE  written[i] = whole[i]
  <2>1. written[i] = Unit(i)
    BY <1>1, <1>3 DEF OutData
  <2>2. CASE i <= supplied
    <3>1. i \in 1 .. accepted
      BY <1>2, <1>4, <1>5, <2>2
    <3>. QED
      BY <1>6, <2>1, <2>2, <3>1 DEF Unit
  <2>3. CASE ~(i <= supplied)
    <3>1. i = accepted + 1
      BY <1>2, <1>4, <1>5, <2>3
    <3>. QED
      BY <1>6, <2>1, <2>3, <3>1 DEF Unit
  <2>. QED
    BY <2>2, <2>3
<1>8. written = whole
  BY <1>2, <1>4, <1>5, <1>6, <1>7
<1>. QED
  BY <1>8 DEF whole

\* The phase that the caller sees, by the place in the code.
LEMMA PhaseIs ==
    /\ m.pc \in Closed => StreamPhase = "closed"
    /\ m.pc = "idle" => StreamPhase = "ready"
    /\ m.pc \notin Closed /\ m.pc # "idle" /\ m.call = "Compress" => StreamPhase = "compressing"
    /\ m.pc \notin Closed /\ m.pc # "idle" /\ m.call # "Compress" => StreamPhase = "finishing"
  BY DEF StreamPhase, Closed

\* The same of the next state.
LEMMA NextPhaseIs ==
    /\ m'.pc \in Closed => StreamPhase' = "closed"
    /\ m'.pc = "idle" => StreamPhase' = "ready"
    /\ m'.pc \notin Closed /\ m'.pc # "idle" /\ m'.call = "Compress" => StreamPhase' = "compressing"
    /\ m'.pc \notin Closed /\ m'.pc # "idle" /\ m'.call # "Compress" => StreamPhase' = "finishing"
  BY DEF StreamPhase, Closed


\* A step inside a call changes nothing that the caller sees, or raises.
LEMMA GoesOn ==
    ASSUME UNCHANGED <<accepted, written>>, m.pc \notin Closed, m.pc # "idle",
           \/ m'.pc \in Closed
           \/ m'.pc \notin Closed /\ m'.pc # "idle" /\ (m'.call = "Compress" <=> m.call = "Compress")
    PROVE  [Stream!Next]_<<StreamPhase, accepted, written>>
<1>1. CASE m'.pc \in Closed
  <2>1. StreamPhase \in {"compressing", "finishing"} /\ StreamPhase' = "closed"
    BY <1>1, PhaseIs, NextPhaseIs
  <2>. QED
    BY <2>1 DEF Stream!Next, Stream!Raise
<1>2. CASE m'.pc \notin Closed /\ m'.pc # "idle" /\ (m'.call = "Compress" <=> m.call = "Compress")
  <2>1. StreamPhase' = StreamPhase
    BY <1>2, PhaseIs, NextPhaseIs
  <2>. QED
    BY <2>1
<1>. QED
  BY <1>1, <1>2

\* Every step is one of CompressedStream, or leaves what it speaks of alone.
LEMMA StreamStep ==
    ASSUME CompressorInv, WrittenIsPart', [Next]_vars
    PROVE  [Stream!Next]_<<StreamPhase, accepted, written>>
<1>1. TypeInv /\ FlowInv /\ MoveInv
  BY DEF CompressorInv
<1>2. ASSUME NEW call \in {"Compress", "Finish"}, NEW count \in Nat,
            call = "Finish" => count = 0, call = "Compress" => count > 0,
            Begin(call, count)
      PROVE  [Stream!Next]_<<StreamPhase, accepted, written>>
  <2>1. m.pc = "idle" /\ m'.pc = "enter" /\ m'.call = call /\ accepted' = accepted + count /\ UNCHANGED written
    BY <1>2, BeginDoes
  <2>2. accepted \in Nat
    BY <1>1 DEF TypeInv
  <2>3. StreamPhase = "ready" /\ (call = "Compress" => StreamPhase' = "compressing")
        /\ (call = "Finish" => StreamPhase' = "finishing")
    BY <2>1, PhaseIs, NextPhaseIs DEF Closed
  <2>4. CASE call = "Compress"
    <3>1. accepted' > accepted
      BY <1>2, <2>1, <2>2, <2>4
    <3>. QED
      BY <2>1, <2>3, <2>4, <3>1 DEF Stream!Next, Stream!Compress
  <2>5. CASE call = "Finish"
    <3>1. accepted' = accepted
      BY <1>2, <2>1, <2>2, <2>5
    <3>. QED
      BY <2>1, <2>3, <2>5, <3>1 DEF Stream!Next, Stream!Finish
  <2>. QED
    BY <2>4, <2>5
<1>3. CASE SetNoMoreInput
  <2>1. /\ UNCHANGED <<accepted, written>> /\ m.pc = "enter"
        /\ m'.pc = "top" /\ m'.call = m.call
    BY <1>3, SetNoMoreInputDoes
  <2>. QED
    BY <1>1, <2>1, GoesOn DEF Closed
<1>4. CASE EnterCompress
  <2>1. /\ UNCHANGED <<accepted, written>> /\ m.pc = "enter"
        /\ m'.pc = "top" /\ m'.call = m.call
    BY <1>4, EnterCompressDoes
  <2>. QED
    BY <1>1, <2>1, GoesOn DEF Closed
<1>5. CASE CompressLoop
  <2>1. /\ UNCHANGED <<accepted, written>> /\ m.pc = "top" /\ m.call = "Compress"
        /\ m'.pc = "idle" \/ (m'.pc \in {"raised", "progress"} /\ m'.call = m.call)
    BY <1>5, CompressLoopDoes
  <2>2. CASE m'.pc = "idle"
    <3>1. StreamPhase = "compressing" /\ StreamPhase' = "ready"
      BY <2>1, <2>2, PhaseIs, NextPhaseIs DEF Closed
    <3>. QED
      BY <2>1, <3>1 DEF Stream!Next, Stream!Compressed
  <2>3. CASE m'.pc \in {"raised", "progress"} /\ m'.call = m.call
    BY <2>1, <2>3, GoesOn DEF Closed
  <2>. QED
    BY <2>1, <2>2, <2>3
<1>6. CASE FinishLoop
  <2>1. /\ UNCHANGED <<accepted, written>> /\ m.pc = "top"
        /\ m.call = "Finish" /\ m'.pc \in {"flush", "satisfy"} /\ m'.call \in {"Drain", "Finish"}
    BY <1>6, FinishLoopDoes
  <2>. QED
    BY <1>1, <2>1, GoesOn DEF Closed
<1>7. CASE SatisfyWorkerWait
  <2>1. /\ UNCHANGED <<accepted, written>> /\ m.pc \in {"satisfy", "wake"}
        /\ m'.pc \in {"wake", m.next} /\ m'.call = m.call
    BY <1>7, SatisfyWorkerWaitDoes
  <2>2. m.next \in {"progress", "wait", "top", "flush", "flushed"}
    BY <1>1, <2>1 DEF FlowInv
  <2>. QED
    BY <2>1, <2>2, GoesOn DEF Closed
<1>8. CASE UpdateProgress
  <2>1. /\ UNCHANGED <<accepted, written>> /\ m.pc = "progress"
        /\ m'.pc \in {"flush", "raised"} /\ m'.call = m.call
    BY <1>8, UpdateProgressDoes
  <2>. QED
    BY <1>1, <2>1, GoesOn DEF Closed
<1>9. CASE FlushOutputBuffer
  <2>1. /\ UNCHANGED <<accepted, written>> /\ m.pc = "flush"
        /\ m'.pc \in {"satisfy", "call"} /\ m'.call = m.call
    BY <1>9, FlushOutputBufferDoes
  <2>. QED
    BY <1>1, <2>1, GoesOn DEF Closed
<1>10. CASE CallWriteProc
  <2>. DEFINE k == ReadBytes(outRing, m.size)
              more == MoveOut(outRing, k)
  <2>1. /\ UNCHANGED accepted /\ m.pc = "call" /\ m'.call = m.call
        /\ \/ m'.pc = "sub" /\ written' = written \o more
           \/ m'.pc = "raised" /\ UNCHANGED written
    BY <1>10, CallWriteProcDoes
  <2>2. CASE m'.pc = "raised" /\ UNCHANGED written
    BY <2>1, <2>2, GoesOn DEF Closed
  <2>3. CASE m'.pc = "sub" /\ written' = written \o more
    <3>1. /\ outRing \in RingTypes /\ m.size \in Nat /\ outRing.count \in Nat
          /\ written \in Seq(Item)
      BY <1>1 DEF TypeInv, MainType, RingTypes
    <3>2. m.size > 0 /\ outRing.count > 0
      BY <1>1, <2>1, <3>1 DEF MoveInv
    <3>3. k \in 0 .. outRing.count /\ k <= BufSize - outRing.r /\ k > 0
      BY <3>1, <3>2, ReadBytesFit
    <3>. HIDE DEF k
    <3>4. more \in Seq(Item) /\ Len(more) = k
      BY <3>1, <3>3, MovedOut
    <3>. HIDE DEF more
    <3>5. Len(written') = Len(written) + k /\ Len(written) \in Nat
      BY <2>3, <3>1, <3>4, ConcatIs
    <3>6. Len(written') > Len(written)
      BY <3>1, <3>3, <3>5
    <3>7. StreamPhase \in {"compressing", "finishing"} /\ StreamPhase' = StreamPhase
      BY <2>1, <2>3, PhaseIs, NextPhaseIs DEF Closed
    <3>8. Stream!IsPartOf(written', Stream!Whole(accepted))
      BY <2>1, <2>3 DEF WrittenIsPart, Closed
    <3>. QED
      BY <2>1, <3>6, <3>7, <3>8 DEF Stream!Next, Stream!Emit
  <2>. QED
    BY <2>1, <2>2, <2>3
<1>11. CASE ReadToCallbackDone
  <2>1. /\ UNCHANGED <<accepted, written>> /\ m.pc = "sub"
        /\ m'.pc \in {"satisfy", "call"} /\ m'.call = m.call
    BY <1>11, ReadToCallbackDoneDoes
  <2>. QED
    BY <1>1, <2>1, GoesOn DEF Closed
<1>12. CASE FlushReturns
  <2>1. /\ UNCHANGED <<accepted, written>> /\ m.pc = "flushed"
        /\ m'.pc \in {"write", "wait", "flush", "check"}
        /\ m'.call = m.call \/ (m.call = "Drain" /\ m'.call = "DrainAll")
    BY <1>12, FlushReturnsDoes
  <2>. QED
    BY <1>1, <2>1, GoesOn DEF Closed
<1>13. CASE WriteInput
  <2>1. /\ UNCHANGED <<accepted, written>> /\ m.pc = "write"
        /\ m'.pc \in {"add", "satisfy", "top"} /\ m'.call = m.call
    BY <1>13, WriteInputDoes
  <2>. QED
    BY <1>1, <2>1, GoesOn DEF Closed
<1>14. CASE PublishInput
  <2>1. /\ UNCHANGED <<accepted, written>> /\ m.pc = "add"
        /\ m'.pc = "write" /\ m'.call = m.call
    BY <1>14, PublishInputDoes
  <2>. QED
    BY <1>1, <2>1, GoesOn DEF Closed
<1>15. CASE WaitForWorkerEvent
  <2>1. /\ UNCHANGED <<accepted, written>> /\ m.pc = "wait"
        /\ m'.pc \in {"top", "raised"} /\ m'.call = m.call
    BY <1>15, WaitForWorkerEventDoes
  <2>. QED
    BY <1>1, <2>1, GoesOn DEF Closed
<1>16. CASE CheckResult
  <2>1. /\ m.pc = "check"
        /\ \/ m'.pc = "raised" /\ UNCHANGED <<accepted, written>>
           \/ encodeResult = "SZ_OK" /\ m'.pc = "idle" /\ accepted' = 0 /\ written' = <<>>
    BY <1>16, CheckResultDoes
  <2>2. CASE m'.pc = "raised" /\ UNCHANGED <<accepted, written>>
    BY <2>1, <2>2, GoesOn DEF Closed
  <2>3. CASE encodeResult = "SZ_OK" /\ m'.pc = "idle" /\ accepted' = 0 /\ written' = <<>>
    <3>1. m.call = "DrainAll"
      BY <1>1, <2>1 DEF FlowInv
    <3>2. StreamPhase = "finishing" /\ StreamPhase' = "ready"
      BY <2>1, <2>3, <3>1, PhaseIs, NextPhaseIs DEF Closed
    <3>3. written = Stream!Whole(accepted)
      BY <2>1, <2>3, WholeStream
    <3>. QED
      BY <2>3, <3>2, <3>3 DEF Stream!Next, Stream!Finished
  <2>. QED
    BY <2>1, <2>2, <2>3
<1>17. CASE Free
  <2>1. UNCHANGED <<accepted, written>> /\ m.pc \in {"idle", "raised"} /\ m'.pc = "join"
    BY <1>17, FreeDoes
  <2>2. /\ StreamPhase \in {"ready", "closed"} /\ StreamPhase' = "closed"
    BY <2>1, PhaseIs, NextPhaseIs DEF Closed
  <2>. QED
    BY <2>1, <2>2 DEF Stream!Next, Stream!Free
<1>18. CASE Join
  <2>1. UNCHANGED <<accepted, written>> /\ m.pc = "join" /\ m'.pc = "freed"
    BY <1>18, JoinDoes
  <2>2. /\ StreamPhase = "closed" /\ StreamPhase' = "closed"
    BY <2>1, PhaseIs, NextPhaseIs DEF Closed
  <2>. QED
    BY <2>1, <2>2
<1>19. CASE WorkerThreadProc
  <2>1. UNCHANGED <<m, accepted, written>>
    BY <1>19, WorkerThreadProcDoes
  <2>. QED
    BY <2>1 DEF StreamPhase
<1>20. CASE EndOfInput
  <2>1. UNCHANGED <<m, accepted, written>>
    BY <1>20, EndOfInputDoes
  <2>. QED
    BY <2>1 DEF StreamPhase
<1>21. CASE ReadRing
  <2>1. UNCHANGED <<m, accepted, written>>
    BY <1>21, ReadRingDoes
  <2>. QED
    BY <2>1 DEF StreamPhase
<1>22. CASE ReadDone
  <2>1. UNCHANGED <<m, accepted, written>>
    BY <1>22, ReadDoneDoes
  <2>. QED
    BY <2>1 DEF StreamPhase
<1>23. CASE WaitForInput
  <2>1. UNCHANGED <<m, accepted, written>>
    BY <1>23, WaitForInputDoes
  <2>. QED
    BY <2>1 DEF StreamPhase
<1>24. CASE WriteRing
  <2>1. UNCHANGED <<m, accepted, written>>
    BY <1>24, WriteRingDoes
  <2>. QED
    BY <2>1 DEF StreamPhase
<1>25. CASE WriteDone
  <2>1. UNCHANGED <<m, accepted, written>>
    BY <1>25, WriteDoneDoes
  <2>. QED
    BY <2>1 DEF StreamPhase
<1>26. CASE WaitForOutput
  <2>1. UNCHANGED <<m, accepted, written>>
    BY <1>26, WaitForOutputDoes
  <2>. QED
    BY <2>1 DEF StreamPhase
<1>27. CASE EncoderReads
  <2>1. UNCHANGED <<m, accepted, written>>
    BY <1>27, EncoderReadsDoes
  <2>. QED
    BY <2>1 DEF StreamPhase
<1>28. CASE EncoderWrites
  <2>1. UNCHANGED <<m, accepted, written>>
    BY <1>28, EncoderWritesDoes
  <2>. QED
    BY <2>1 DEF StreamPhase
<1>29. CASE EncoderReturns
  <2>1. UNCHANGED <<m, accepted, written>>
    BY <1>29, EncoderReturnsDoes
  <2>. QED
    BY <2>1 DEF StreamPhase
<1>30. CASE EncoderFails
  <2>1. UNCHANGED <<m, accepted, written>>
    BY <1>30, EncoderFailsDoes
  <2>. QED
    BY <2>1 DEF StreamPhase
<1>31. CASE Tick
  <2>1. UNCHANGED <<m, accepted, written>>
    BY <1>31, TickDoes
  <2>. QED
    BY <2>1 DEF StreamPhase
<1>32. CASE WorkerDies
  <2>1. UNCHANGED <<m, accepted, written>>
    BY <1>32, WorkerDiesDoes
  <2>. QED
    BY <2>1 DEF StreamPhase
<1>33. CASE CompilerDies
  <2>1. UNCHANGED <<accepted, written>> /\ m'.pc = "dead"
    BY <1>33, CompilerDiesDoes
  <2>2. StreamPhase' = "closed" /\ StreamPhase \in {"ready", "compressing", "finishing", "closed"}
    BY <2>1, PhaseIs, NextPhaseIs DEF Closed
  <2>. QED
    BY <2>1, <2>2 DEF Stream!Next, Stream!Free, Stream!Raise
<1>34. CASE UNCHANGED vars
  BY <1>34 DEF vars, history, StreamPhase
<1>. QED
  BY <1>1, NextIs, <1>2, <1>3, <1>4, <1>5, <1>6, <1>7, <1>8, <1>9, <1>10, <1>11, <1>12,
     <1>13, <1>14, <1>15, <1>16, <1>17, <1>18, <1>19, <1>20, <1>21, <1>22, <1>23,
     <1>24, <1>25, <1>26, <1>27, <1>28, <1>29, <1>30, <1>31, <1>32, <1>33, <1>34
     DEF Begins

\* The compressor keeps the promise of CompressedStream: what WriteProc gets is the
\* compressed form of the input, complete and in order when Finish returns.
THEOREM ImplementsCompressedStream == Spec => StreamSpec
<1>1. Init => Stream!Init
  <2>. SUFFICES ASSUME Init PROVE Stream!Init
    OBVIOUS
  <2>1. m.pc = "idle" /\ accepted = 0 /\ written = <<>>
    BY DEF Init
  <2>. QED
    BY <2>1, PhaseIs DEF Stream!Init
<1>2. CompressorInv /\ WrittenIsPart' /\ [Next]_vars =>
        [Stream!Next]_<<StreamPhase, accepted, written>>
  BY StreamStep
<1>3. Spec => []WrittenIsPart
  BY PartOfTheStream, CompressorInvariant, PTL
<1>. QED
  BY <1>1, <1>2, <1>3, CompressorInvariant, PTL
     DEF Spec, StreamSpec, Stream!Spec, Stream!sVars

=============================================================================
