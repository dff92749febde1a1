-------------------------- MODULE FileExtractorProofs --------------------------
(***************************************************************************)
(* Proofs about FileExtractor and the CompressionHandler it reads from:    *)
(* for any scripts, sizes of slices and buffers, faults and order of       *)
(* calls, Setup reads the stream of a chunk where the compiler wrote it.   *)
(***************************************************************************)
EXTENDS FileExtractor, SequenceTheorems, FiniteSetTheorems, WellFoundedInduction, TLAPS

(* Places in slices.  The units of all slices are numbered; those of slice *)
(* s begin behind Before(on, s).                                           *)

Occupied(on, n) == UNION {{s} \X (1..Len(on[s].data)) : s \in 1..n}
Before(on, s) == Cardinality(Occupied(on, s - 1))

StreamUnit == [codec : Codecs, pos : Nat, unit : Int \X Int, key : Seq(Int)]
ReadUnit == [codec : Codecs \cup {"none"}, pos : Nat, unit : Int \X Int, key : Seq(Int)]
Cell == StreamUnit \cup {ChunkId}
Slice == [data : Seq(Cell), sealed : BOOLEAN]
LocationEntry == [firstSlice : Nat, lastSlice : Nat, startOffset : Nat, suboffset : Nat,
                  size : Nat, compressedSize : Nat, compressed : BOOLEAN, encrypted : BOOLEAN]

Handler ==
  [left : Nat, started : BOOLEAN, firstSlice : Nat, startOffset : Nat,
   bytesRead : Nat, bytesWritten : Nat, compressed : BOOLEAN, encrypted : BOOLEAN,
   class : Codecs, pending : Seq(StreamUnit), out : Seq(StreamUnit)]

(* Chunks: c is an entry, or the handler.                                  *)

SameChunk(e, c) == e.firstSlice = c.firstSlice /\ e.startOffset = c.startOffset
StartOf(on, c) == Before(on, c.firstSlice) + c.startOffset + 1

\* What is in place j of the stream of chunk c; whole when it has ended.
Stands(es, c, whole, j, u) ==
  /\ u = EndMark => whole
  /\ \A i \in DOMAIN es : SameChunk(es[i], c) =>
       /\ u = EndMark => es[i].suboffset + es[i].size < j
       /\ \A k \in 1..es[i].size : es[i].suboffset + k = j => u = <<i, k>>
Right(es, c, class, whole, j, v) ==
  /\ v.unit \in Int \X Int
  /\ v = [codec |-> class, pos |-> j, unit |-> v.unit, key |-> NoKey]
  /\ Stands(es, c, whole, j, v.unit)
Stored(es, c, class, whole, j, v) ==
  /\ v.unit \in Int \X Int
  /\ v = [codec |-> class, pos |-> j, unit |-> v.unit,
          key |-> IF c.encrypted THEN <<c.firstSlice, c.startOffset, j>> ELSE NoKey]
  /\ Stands(es, c, whole, j, v.unit)

\* Units that stand behind the first n of the stream.
RightFrom(es, c, class, whole, n, units) ==
  \A k \in 1..Len(units) : Right(es, c, class, whole, n + k, units[k])
StoredFrom(es, c, class, whole, n, units) ==
  \A k \in 1..Len(units) : Stored(es, c, class, whole, n + k, units[k])

Placed(on, c) ==
  /\ c.firstSlice \in DOMAIN on
  /\ c.startOffset < Len(on[c.firstSlice].data)
  /\ on[c.firstSlice].data[c.startOffset + 1] = ChunkId

\* All there is, is up to the n-th unit of the chunk.
EndsAt(on, c, n) == Before(on, Len(on) + 1) = StartOf(on, c) + n

\* The first n units of the chunk's stream are where a reader looks for them.
Holds(on, es, c, class, whole, n) ==
  \A s \in DOMAIN on : \A p \in 1..Len(on[s].data) :
    LET j == Before(on, s) + p - StartOf(on, c)
    IN  j \in 1..n => Stored(es, c, class, whole, j, on[s].data[p])

\* All of the chunk is, and the entry says so.
Finished(on, es, e, class) ==
  /\ Placed(on, e)
  /\ e.lastSlice \in e.firstSlice..Len(on)
  /\ e.suboffset + e.size <= e.compressedSize
  /\ StartOf(on, e) + e.compressedSize <= Before(on, e.lastSlice + 1)
  /\ Holds(on, es, e, class, TRUE, e.compressedSize)

(* The inductive invariant of the compiler.                                *)

Open == ch.started \/ cpc = "finalize"
FileAt(i) == script.files[i]

CTypes ==
  /\ script \in Scripts
  /\ cpc \in {"next", "finalize", "enter", "compress", "compiled", "aborted"}
  /\ file \in Nat \ {0} /\ toRead \in Nat
  /\ ch \in Handler
  /\ slices \in Seq(Slice) /\ Len(slices) > 0
  /\ fl \in Seq(LocationEntry)

CControl ==
  /\ cpc \in {"enter", "compress"} => ch.started /\ file <= Len(script.files)
  /\ cpc \in {"finalize", "compiled"} => ~ch.started
  /\ ~Open => ch.out = <<>>
  /\ cpc = "compiled" => file > Len(script.files)
  /\ Len(fl) = IF cpc = "compress" THEN file ELSE file - 1
  /\ file <= Len(script.files) + 1

Sealed ==
  script.spanning => \A s \in DOMAIN slices :
                       s < Len(slices) \/ cpc = "compiled" => slices[s].sealed

\* The entries are those of the files.
Entries ==
  /\ Len(fl) <= Len(script.files)
  /\ \A i \in DOMAIN fl :
       /\ fl[i].size = FileAt(i).size
       /\ fl[i].compressed = FileAt(i).compressed
       /\ fl[i].encrypted = FileAt(i).encrypted

\* Entries of the same chunk tell the same about it.
Agree ==
  \A i, k \in DOMAIN fl : SameChunk(fl[i], fl[k]) =>
    /\ fl[i].compressed = fl[k].compressed /\ fl[i].encrypted = fl[k].encrypted
    /\ fl[i].lastSlice = fl[k].lastSlice /\ fl[i].compressedSize = fl[k].compressedSize
    /\ GetCompressorClass(FileAt(i)) = GetCompressorClass(FileAt(k))

\* The chunk that is being written.
ChunkInv ==
  Open =>
    /\ Placed(slices, ch)
    /\ ch.compressed \/ ch.class = "stored"
    /\ EndsAt(slices, ch, ch.bytesWritten)
    /\ Holds(slices, fl, ch, ch.class, ~ch.started, ch.bytesWritten)
    /\ RightFrom(fl, ch, ch.class, ~ch.started, ch.bytesWritten, ch.out)
    /\ RightFrom(fl, ch, ch.class, ~ch.started, ch.bytesWritten + Len(ch.out), ch.pending)
    /\ ch.started => ch.bytesWritten + Len(ch.out) + Len(ch.pending) = ch.bytesRead
    /\ ~ch.started => ch.bytesWritten + Len(ch.out) >= ch.bytesRead
    /\ \A i \in DOMAIN fl : InChunk(fl[i]) =>
         /\ fl[i].lastSlice = 0 /\ fl[i].compressedSize = 0
         /\ fl[i].compressed = ch.compressed /\ fl[i].encrypted = ch.encrypted
         /\ GetCompressorClass(FileAt(i)) = ch.class
         /\ IF cpc = "compress" /\ i < file THEN fl[i].suboffset + fl[i].size <= fl[file].suboffset
            ELSE fl[i].suboffset + fl[i].size <= ch.bytesRead + (IF cpc = "compress" THEN toRead ELSE 0)
    /\ cpc = "enter" =>
         /\ FileAt(file).compressed = ch.compressed /\ FileAt(file).encrypted = ch.encrypted
         /\ GetCompressorClass(FileAt(file)) = ch.class
    /\ cpc = "compress" =>
         InChunk(fl[file]) /\ fl[file].suboffset + fl[file].size = ch.bytesRead + toRead
         /\ toRead <= fl[file].size

FinishedInv ==
  \A i \in DOMAIN fl : (Open /\ InChunk(fl[i])) \/
    Finished(slices, fl, fl[i], GetCompressorClass(FileAt(i)))

Layout == Entries /\ Agree /\ FinishedInv
CompilerInv ==
  CTypes /\ (cpc # "aborted" => CControl /\ Sealed /\ Layout /\ ChunkInv)

(* The inductive invariant of the extractor.                               *)

Rest(e) == e.compressedSize - x.bytesLeft
Class(f) == GetCompressorClass(FileAt(f))
Decoder == dec[x.compressed]
InPiece == IF call.pc \in {"decode", "read"} THEN call.size - call.want ELSE 0
Coming == IF call.pc = "read" THEN call.inbuf ELSE <<>>

Reader ==
  [opened : Nat, pos : Nat, firstSlice : Nat, lastSlice : Nat, startOffset : Nat,
   bytesLeft : Nat, read : Nat, needReset : BOOLEAN, compressed : BOOLEAN,
   encrypted : BOOLEAN, crypt : Seq(Int)]
Call ==
  [pc : {"idle", "restart", "seek", "loop", "decode", "read"}, file : Nat,
   purpose : {"discard", "extract"}, verify : BOOLEAN, left : Nat, size : Nat, want : Nat,
   toRead : Nat, inbuf : Seq(ReadUnit), out : Seq(Int \X Int),
   outcome : {"none", "ok", "refused", "ioerror", "corrupted", "cancelled", "internal"},
   cause : SUBSET {"refused", "ioerror", "corrupted", "cancelled", "nokey", "damaged"}]
Decompressor == [buf : Seq(ReadUnit), next : Nat \ {0}]

XTypes ==
  /\ x \in Reader
  /\ dec \in [BOOLEAN -> Decompressor]
  /\ keySet \in BOOLEAN /\ tainted \in BOOLEAN
  /\ call \in Call
  /\ last.file \in Nat

\* The extractor is at the same place of the chunk of fl[f] in all it keeps:
\* in the account of what is left, in the slices and in the key stream, ...
OnPlace(f) ==
  LET e == fl[f] IN
  /\ SameChunk(x, e) /\ x.lastSlice = e.lastSlice
  /\ x.compressed = e.compressed /\ x.encrypted = e.encrypted
  /\ x.bytesLeft <= e.compressedSize
  /\ x.opened \in e.firstSlice..e.lastSlice /\ x.pos <= Len(slices[x.opened].data)
  /\ Before(slices, x.opened) + x.pos = StartOf(slices, e) + Rest(e)
  /\ x.encrypted => x.crypt = <<e.firstSlice, e.startOffset, Rest(e)>>

\* ... and in what the decompressor has consumed and what it still holds.
InOrder(f) ==
  LET e == fl[f] IN
  /\ Decoder.next + Len(Decoder.buf) + Len(Coming) = Rest(e) + 1
  /\ Decoder.next = x.read + InPiece + 1
  /\ ~tainted =>
       /\ RightFrom(fl, e, Class(f), TRUE, Decoder.next - 1, Decoder.buf)
       /\ RightFrom(fl, e, Class(f), TRUE, Decoder.next - 1, Coming)

InStep(f) == OnPlace(f) /\ InOrder(f)

XInStep ==
  /\ x.firstSlice # 0 /\ ~x.needReset => \E f \in DOMAIN fl : InStep(f)
  /\ call.pc \in {"seek", "loop", "decode", "read"} => InStep(call.file) /\ ~x.needReset

Progress ==
  /\ call.pc # "idle" => /\ cpc = "compiled" /\ call.file \in DOMAIN fl /\ DecoderLoaded
                         /\ call.outcome = "none"
  /\ cpc # "compiled" => x = Nowhere /\ call = NoCall
  /\ call.pc = "restart" =>
       x.firstSlice = 0 /\ ~x.needReset /\ dec[Entry.compressed] = FreshDecompressor
  /\ call.pc \in {"restart", "seek"} =>
       call.purpose = "discard" /\ (call.pc = "seek" => x.read <= Entry.suboffset)
  /\ call.purpose = "discard" /\ call.pc # "idle" => call.out = <<>>
  /\ call.pc \in {"loop", "decode", "read"} =>
       /\ call.purpose = "discard" => x.read + call.left = Entry.suboffset
       /\ call.purpose = "extract" =>
            /\ x.read + call.left = Entry.suboffset + Entry.size
            /\ Entry.suboffset + Len(call.out) + 1 = Decoder.next
            /\ ~tainted => \A k \in 1..Len(call.out) : call.out[k] = <<call.file, k>>
  /\ call.pc \in {"decode", "read"} => call.want <= call.size /\ call.size <= call.left
  /\ call.pc = "read" => /\ Decoder.buf = <<>> /\ call.want > 0
                         /\ call.toRead \in 1..x.bytesLeft

Extracted ==
  call.outcome = "ok" =>
    /\ call.pc = "idle"
    /\ call.verify \/ ~tainted => call.out = Original(call.file)

ExtractorInv == XTypes /\ XInStep /\ Progress /\ Extracted

(* Why a call fails: the methods Setup has the decompressors of, and what  *)
(* lets it recover from damaged data.                                      *)

OwnMethods == \A s \in Scripts : s.method \in {"none", "zip", "lzma", "lzma2"}

Recovery ==
  /\ call.outcome = "corrupted" => call.pc = "idle" /\ call.file \in DOMAIN fl /\ MustRestart(fl[call.file])
  /\ /\ last = [file |-> call.file, outcome |-> "corrupted"]
     /\ tainted /\ call.outcome \in {"none", "corrupted"}
     => "damaged" \in call.cause
-----------------------------------------------------------------------------
(* Places.                                                                 *)

LEMMA FunSeq ==
  ASSUME NEW S, NEW n \in Nat, NEW f \in [1..n -> S]
  PROVE  f \in Seq(S) /\ Len(f) = n
OBVIOUS

LEMMA FromHas ==
  ASSUME NEW S, NEW s \in Seq(S), NEW n \in 0..Len(s)
  PROVE  /\ From(s, n) \in Seq(S) /\ Len(From(s, n)) = Len(s) - n
         /\ \A k \in 1..(Len(s) - n) : From(s, n)[k] = s[n + k]
<1>1. Len(s) \in Nat /\ n \in Nat
  OBVIOUS
<1> QED
  BY <1>1 DEF From

LEMMA ConcatBehind ==
  ASSUME NEW S, NEW s \in Seq(S), NEW t \in Seq(S)
  PROVE  /\ Len(s \o t) = Len(s) + Len(t)
         /\ \A k \in 1..Len(s) : (s \o t)[k] = s[k]
         /\ \A k \in 1..Len(t) : (s \o t)[Len(s) + k] = t[k]
<1>1. /\ Len(s \o t) = Len(s) + Len(t)
      /\ \A i \in 1..(Len(s) + Len(t)) : (s \o t)[i] = IF i <= Len(s) THEN s[i] ELSE t[i - Len(s)]
  BY ConcatProperties
<1>2. Len(s) \in Nat /\ Len(t) \in Nat
  OBVIOUS
<1> QED
  BY <1>1, <1>2

LEMMA FirstFinite ==
  ASSUME NEW n \in Nat
  PROVE  IsFiniteSet(1..n) /\ Cardinality(1..n) = n
<1>1. 1 \in Int /\ n \in Int
  OBVIOUS
<1>2. IsFiniteSet(1..n) /\ Cardinality(1..n) = IF 1 > n THEN 0 ELSE n - 1 + 1
  BY <1>1, FS_Interval
<1> QED
  BY <1>2

LEMMA OccupiedFinite ==
  ASSUME NEW on \in Seq(Slice), NEW n \in 0..Len(on)
  PROVE  IsFiniteSet(Occupied(on, n))
<1> DEFINE T == {{s} \X (1..Len(on[s].data)) : s \in 1..n}
<1>1. IsFiniteSet(1..n)
  BY FirstFinite
<1>2. IsFiniteSet(T)
  <2> DEFINE f == [s \in 1..n |-> {s} \X (1..Len(on[s].data))]
  <2>1. f \in Surjection(1..n, T)
    BY DEF Surjection
  <2> HIDE DEF f, T
  <2> QED
    BY <1>1, <2>1, FS_Surjection
<1>3. ASSUME NEW s \in 1..n PROVE IsFiniteSet({s} \X (1..Len(on[s].data)))
  <2>1. s \in 1..Len(on)
    OBVIOUS
  <2>2. on[s] \in Slice
    BY <2>1, ElementOfSeq
  <2>3. Len(on[s].data) \in Nat
    BY <2>2 DEF Slice
  <2>4. IsFiniteSet(1..Len(on[s].data)) /\ IsFiniteSet({s})
    BY <2>3, FirstFinite, FS_Singleton
  <2> QED
    BY <2>4, FS_Product
<1>4. IsFiniteSet(UNION T)
  <2>1. \A U \in T : IsFiniteSet(U)
    BY <1>3
  <2> HIDE DEF T
  <2> QED
    BY <1>2, <2>1, FS_UNION
<1> QED
  BY <1>4 DEF Occupied

LEMMA SliceType ==
  ASSUME NEW on \in Seq(Slice), NEW s \in 1..Len(on)
  PROVE  on[s] \in Slice /\ on[s].data \in Seq(Cell) /\ Len(on[s].data) \in Nat /\ Len(on) \in Nat
<1>1. on[s] \in Slice
  BY ElementOfSeq
<1> QED
  BY <1>1 DEF Slice

LEMMA BeforeType ==
  ASSUME NEW on \in Seq(Slice), NEW s \in 1..(Len(on) + 1)
  PROVE  Before(on, s) \in Nat
<1>1. Len(on) \in Nat /\ s - 1 \in 0..Len(on)
  OBVIOUS
<1> QED
  BY <1>1, OccupiedFinite, FS_CardinalityType DEF Before

\* The units of one slice more.
LEMMA BeforeNext ==
  ASSUME NEW on \in Seq(Slice), NEW s \in 1..Len(on)
  PROVE  Before(on, s + 1) = Before(on, s) + Len(on[s].data)
<1> DEFINE A == Occupied(on, s - 1)
           B == {s} \X (1..Len(on[s].data))
<1>1. Len(on) \in Nat /\ s - 1 \in 0..Len(on) /\ Len(on[s].data) \in Nat /\ (s + 1) - 1 = s
  BY SliceType
<1>2. Occupied(on, s) = A \cup B
  <2>1. 1..s = (1..(s - 1)) \cup {s}
    OBVIOUS
  <2> QED
    BY <2>1 DEF Occupied
<1>3. A \cap B = {}
  <2> SUFFICES ASSUME NEW c, c \in A, c \in B PROVE FALSE
    OBVIOUS
  <2>1. PICK t \in 1..(s - 1) : c \in {t} \X (1..Len(on[t].data))
    BY DEF Occupied
  <2>2. c[1] = t /\ c[1] = s
    BY <2>1
  <2> QED
    BY <2>1, <2>2
<1>4. IsFiniteSet(A)
  BY <1>1, OccupiedFinite
<1>5. IsFiniteSet(B) /\ Cardinality(B) = Len(on[s].data)
  <2> DEFINE n == Len(on[s].data)
             I == 1..n
  <2>1. IsFiniteSet({s}) /\ Cardinality({s}) = 1
    BY FS_Singleton
  <2>2. IsFiniteSet(I) /\ Cardinality(I) = n
    BY <1>1, FirstFinite
  <2> HIDE DEF n, I
  <2>3. IsFiniteSet({s} \X I) /\ Cardinality({s} \X I) = 1 * n
    BY <2>1, <2>2, FS_Product
  <2> QED
    BY <1>1, <2>3 DEF n, I
<1> HIDE DEF A, B
<1>6. Cardinality(A \cup B) = Cardinality(A) + Cardinality(B)
  <2>1. Cardinality(A \cup B) = Cardinality(A) + Cardinality(B) - Cardinality(A \cap B)
    BY <1>4, <1>5, FS_Union
  <2>2. Cardinality(A \cap B) = 0
    BY <1>3, FS_EmptySet
  <2>3. Cardinality(A) \in Nat /\ Cardinality(B) \in Nat
    BY <1>4, <1>5, FS_CardinalityType
  <2> QED
    BY <2>1, <2>2, <2>3
<1> QED
  BY <1>1, <1>2, <1>5, <1>6 DEF Before, A

LEMMA BeforeFirst ==
  ASSUME NEW on
  PROVE  Before(on, 1) = 0
<1>1. Occupied(on, 1 - 1) = {}
  BY DEF Occupied
<1> QED
  BY <1>1, FS_EmptySet DEF Before

LEMMA BeforeMonotone ==
  ASSUME NEW on \in Seq(Slice), NEW s \in 1..(Len(on) + 1), NEW t \in s..(Len(on) + 1)
  PROVE  Before(on, s) <= Before(on, t)
<1>1. Len(on) \in Nat /\ t - 1 \in 0..Len(on)
  OBVIOUS
<1>2. Occupied(on, s - 1) \subseteq Occupied(on, t - 1)
  <2>1. 1..(s - 1) \subseteq 1..(t - 1)
    OBVIOUS
  <2> QED
    BY <2>1 DEF Occupied
<1>3. IsFiniteSet(Occupied(on, t - 1))
  BY <1>1, OccupiedFinite
<1> QED
  BY <1>2, <1>3, FS_Subset DEF Before

\* Slices s and what is behind them do not count.
LEMMA BeforeSame ==
  ASSUME NEW on, NEW more, NEW s \in Int,
         \A t \in 1..(s - 1) : Len(more[t].data) = Len(on[t].data)
  PROVE  Before(more, s) = Before(on, s)
<1>1. Occupied(more, s - 1) = Occupied(on, s - 1)
  BY DEF Occupied
<1> QED
  BY <1>1 DEF Before

\* Slices grow at the end.
Grown(on, more) ==
  /\ Len(on) <= Len(more)
  /\ \A s \in 1..Len(on) :
       /\ Len(on[s].data) <= Len(more[s].data)
       /\ s < Len(on) => Len(on[s].data) = Len(more[s].data)
       /\ \A p \in 1..Len(on[s].data) : more[s].data[p] = on[s].data[p]

LEMMA GrownBefore ==
  ASSUME NEW on \in Seq(Slice), NEW more \in Seq(Slice), Grown(on, more), Len(on) > 0
  PROVE  /\ \A s \in 1..Len(on) : Before(more, s) = Before(on, s)
         /\ Before(on, Len(on) + 1) <= Before(more, Len(on) + 1)
         /\ \A s \in 1..(Len(on) + 1) : Before(on, s) <= Before(more, s)
<1>1. Len(on) \in Nat /\ Len(more) \in Nat /\ Len(on) <= Len(more)
  BY DEF Grown
<1>2. ASSUME NEW s \in 1..Len(on) PROVE Before(more, s) = Before(on, s)
  <2>1. \A t \in 1..(s - 1) : t \in 1..Len(on) /\ t < Len(on)
    BY <1>1
  <2> QED
    BY <2>1, BeforeSame DEF Grown
<1>3. Before(on, Len(on) + 1) <= Before(more, Len(on) + 1)
  <2> DEFINE n == Len(on)
  <2>1. n \in 1..Len(on) /\ n \in 1..Len(more)
    BY <1>1
  <2>2. Before(on, n + 1) = Before(on, n) + Len(on[n].data)
    BY <2>1, BeforeNext
  <2>3. Before(more, n + 1) = Before(more, n) + Len(more[n].data)
    BY <2>1, BeforeNext
  <2>4. Len(on[n].data) <= Len(more[n].data) /\ Before(more, n) = Before(on, n)
    BY <1>2, <2>1 DEF Grown
  <2>5. Len(on[n].data) \in Nat /\ Len(more[n].data) \in Nat /\ Before(on, n) \in Nat
    <3>1. n \in 1..(Len(on) + 1)
      BY <1>1, <2>1
    <3> QED
      BY <2>1, <3>1, SliceType, BeforeType
  <2> HIDE DEF n
  <2>6. Before(on, n + 1) <= Before(more, n + 1)
    BY <2>2, <2>3, <2>4, <2>5
  <2> QED
    BY <2>6 DEF n
<1>4. \A s \in 1..Len(on) : Before(on, s) \in Nat
  BY <1>1, BeforeType
<1>5. ASSUME NEW s \in 1..(Len(on) + 1) PROVE Before(on, s) <= Before(more, s)
  <2>1. CASE s = Len(on) + 1
    BY <1>3, <2>1
  <2>2. CASE s # Len(on) + 1
    <3>1. s \in 1..Len(on)
      BY <1>1, <2>2
    <3>2. Before(on, s) = Before(more, s) /\ Before(on, s) \in Nat
      BY <1>2, <1>4, <3>1
    <3> QED
      BY <3>2
  <2> QED
    BY <2>1, <2>2
<1> QED
  BY <1>2, <1>3, <1>5

\* A unit with an old number is where it was.
LEMMA GrownCell ==
  ASSUME NEW on \in Seq(Slice), NEW more \in Seq(Slice), Grown(on, more), Len(on) > 0,
         NEW s \in 1..Len(more), NEW p \in 1..Len(more[s].data),
         Before(more, s) + p <= Before(on, Len(on) + 1)
  PROVE  /\ s \in 1..Len(on) /\ p \in 1..Len(on[s].data)
         /\ more[s].data[p] = on[s].data[p] /\ Before(more, s) = Before(on, s)
<1> DEFINE n == Len(on)
<1>1. n \in Nat \ {0} /\ Len(more) \in Nat /\ n <= Len(more) /\ n \in 1..Len(on)
  BY DEF Grown
<1>2. s \in 1..(Len(more) + 1) /\ Before(more, s) \in Nat /\ Len(more[s].data) \in Nat
  <2>1. s \in 1..(Len(more) + 1)
    BY <1>1
  <2> QED
    BY <2>1, BeforeType, SliceType
<1>3. s <= n
  <2> SUFFICES ASSUME s > n PROVE FALSE
    BY <1>1, <1>2
  <2>1. n + 1 \in 1..(Len(more) + 1) /\ s \in (n + 1)..(Len(more) + 1)
    BY <1>1, <1>2
  <2>2. Before(more, n + 1) <= Before(more, s)
    BY <2>1, BeforeMonotone
  <2>3. Before(on, n + 1) <= Before(more, n + 1)
    BY GrownBefore
  <2>4. Before(on, n + 1) \in Nat /\ Before(more, n + 1) \in Nat
    <3>1. n + 1 \in 1..(Len(on) + 1)
      BY <1>1
    <3> QED
      BY <2>1, <3>1, BeforeType
  <2> HIDE DEF n
  <2>5. Before(more, s) + p <= Before(on, n + 1)
    BY DEF n
  <2> QED
    BY <1>2, <2>2, <2>3, <2>4, <2>5
<1>4. s \in 1..Len(on)
  BY <1>1, <1>2, <1>3
<1>5. Before(more, s) = Before(on, s)
  BY <1>4, GrownBefore
<1>6. Before(on, s + 1) = Before(on, s) + Len(on[s].data) /\ Len(on[s].data) \in Nat
  BY <1>4, BeforeNext, SliceType
<1>7. Before(on, s + 1) >= Before(more, s) + p \/ s < n
  <2>1. CASE s = n
    <3>1. Before(on, s + 1) = Before(on, Len(on) + 1)
      BY <2>1
    <3>2. Before(on, s) \in Nat
      BY <1>2, <1>5
    <3> HIDE DEF n
    <3> QED
      BY <1>2, <1>6, <3>1, <3>2
  <2> QED
    BY <1>1, <1>2, <1>3, <2>1
<1>8. p <= Len(on[s].data)
  <2>1. CASE s < n
    <3>1. Len(on[s].data) = Len(more[s].data)
      BY <1>4, <2>1 DEF Grown
    <3> QED
      BY <1>2, <3>1
  <2>2. CASE Before(on, s + 1) >= Before(more, s) + p
    BY <1>2, <1>5, <1>6, <2>2
  <2> QED
    BY <1>7, <2>1, <2>2
<1>9. p \in 1..Len(on[s].data)
  BY <1>6, <1>8
<1> QED
  BY <1>4, <1>5, <1>9 DEF Grown
-----------------------------------------------------------------------------
(* Chunks.                                                                 *)

LEMMA StartType ==
  ASSUME NEW on \in Seq(Slice), NEW c, c.startOffset \in Nat, Placed(on, c)
  PROVE  /\ c.firstSlice \in 1..Len(on) /\ StartOf(on, c) \in Nat
         /\ StartOf(on, c) <= Before(on, c.firstSlice + 1)
         /\ StartOf(on, c) <= Before(on, Len(on) + 1)
<1> DEFINE f == c.firstSlice
<1>1. f \in 1..Len(on) /\ f \in 1..(Len(on) + 1) /\ f + 1 \in 1..(Len(on) + 1)
      /\ Len(on) + 1 \in (f + 1)..(Len(on) + 1)
  BY DEF Placed
<1>2. Before(on, f) \in Nat
  BY <1>1, BeforeType
<1>3. Before(on, f + 1) = Before(on, f) + Len(on[f].data) /\ Len(on[f].data) \in Nat
  BY <1>1, BeforeNext, SliceType
<1>4. Before(on, f + 1) <= Before(on, Len(on) + 1)
  BY <1>1, BeforeMonotone
<1>5. Before(on, Len(on) + 1) \in Nat
  <2>1. Len(on) + 1 \in 1..(Len(on) + 1)
    BY <1>1
  <2> QED
    BY <2>1, BeforeType
<1>6. StartOf(on, c) = Before(on, f) + c.startOffset + 1 /\ c.startOffset < Len(on[f].data)
  BY DEF StartOf, Placed
<1>7. StartOf(on, c) \in Nat /\ StartOf(on, c) <= Before(on, f + 1)
      /\ StartOf(on, c) <= Before(on, Len(on) + 1)
  <2> DEFINE b == Before(on, f)
             n == Before(on, f + 1)
             t == Before(on, Len(on) + 1)
             l == Len(on[f].data)
             o == c.startOffset
             a == StartOf(on, c)
  <2>1. b \in Nat /\ t \in Nat /\ l \in Nat /\ o \in Nat /\ n = b + l /\ n <= t /\ a = b + o + 1 /\ o < l
    BY <1>2, <1>3, <1>4, <1>5, <1>6
  <2> HIDE DEF b, n, t, l, o, a
  <2>2. a \in Nat /\ a <= n /\ a <= t
    BY <2>1
  <2> QED
    BY <2>2 DEF a, n, t
<1> HIDE DEF f
<1> QED
  BY <1>1, <1>7 DEF f

LEMMA PlacedGrown ==
  ASSUME NEW on \in Seq(Slice), NEW more \in Seq(Slice), Grown(on, more), Len(on) > 0,
         NEW c, c.startOffset \in Nat, Placed(on, c)
  PROVE  Placed(more, c) /\ StartOf(more, c) = StartOf(on, c)
<1> DEFINE f == c.firstSlice
           o == c.startOffset
<1>1. f \in 1..Len(on) /\ o < Len(on[f].data) /\ on[f].data[o + 1] = ChunkId
  BY DEF Placed
<1>2. Len(on[f].data) \in Nat /\ f \in 1..Len(more)
  BY <1>1, SliceType DEF Grown
<1>3. Len(more[f].data) \in Nat
  BY <1>2, SliceType
<1>4. /\ Len(on[f].data) <= Len(more[f].data)
      /\ \A p \in 1..Len(on[f].data) : more[f].data[p] = on[f].data[p]
  BY <1>1 DEF Grown
<1>5. o + 1 \in 1..Len(on[f].data) /\ o < Len(more[f].data)
  <2> DEFINE a == Len(on[f].data)
             b == Len(more[f].data)
  <2>1. o \in Nat /\ a \in Nat /\ b \in Nat /\ o < a /\ a <= b
    BY <1>1, <1>2, <1>3, <1>4
  <2> HIDE DEF o, a, b
  <2>2. o + 1 \in 1..a /\ o < b
    BY <2>1
  <2> QED
    BY <2>2 DEF a, b
<1>6. more[f].data[o + 1] = ChunkId
  BY <1>1, <1>4, <1>5
<1>7. Before(more, f) = Before(on, f)
  BY <1>1, GrownBefore
<1> QED
  BY <1>2, <1>5, <1>6, <1>7 DEF Placed, StartOf

\* The entries of a chunk keep what they say of its files, or are more.
Follows(es, v, upd, w, c, n) ==
  \A j \in 1..n : \A u : Stands(es, c, v, j, u) => Stands(upd, c, w, j, u)

LEMMA StandsSame ==
  ASSUME NEW es, NEW upd, NEW c, NEW n, NEW w,
         \A i \in DOMAIN upd : SameChunk(upd[i], c) =>
           /\ i \in DOMAIN es /\ SameChunk(es[i], c)
           /\ es[i].suboffset = upd[i].suboffset /\ es[i].size = upd[i].size
  PROVE  Follows(es, w, upd, w, c, n)
<1> SUFFICES ASSUME NEW j \in 1..n, NEW u, Stands(es, c, w, j, u),
                    NEW i \in DOMAIN upd, SameChunk(upd[i], c)
             PROVE  /\ u = EndMark => upd[i].suboffset + upd[i].size < j
                    /\ \A k \in 1..upd[i].size : upd[i].suboffset + k = j => u = <<i, k>>
  BY DEF Follows, Stands
<1>1. /\ i \in DOMAIN es /\ SameChunk(es[i], c)
      /\ es[i].suboffset = upd[i].suboffset /\ es[i].size = upd[i].size
  OBVIOUS
<1>2. /\ u = EndMark => es[i].suboffset + es[i].size < j
      /\ \A k \in 1..es[i].size : es[i].suboffset + k = j => u = <<i, k>>
  BY <1>1 DEF Stands
<1> QED
  BY <1>1, <1>2

LEMMA HoldsGrown ==
  ASSUME NEW on \in Seq(Slice), NEW more \in Seq(Slice), Grown(on, more), Len(on) > 0,
         NEW c, c.startOffset \in Nat, Placed(on, c), NEW n \in Nat,
         StartOf(on, c) + n <= Before(on, Len(on) + 1),
         NEW es, NEW upd, NEW class, NEW v, NEW w,
         Follows(es, v, upd, w, c, n), Holds(on, es, c, class, v, n)
  PROVE  Holds(more, upd, c, class, w, n)
<1> SUFFICES ASSUME NEW s \in DOMAIN more, NEW p \in 1..Len(more[s].data),
                    Before(more, s) + p - StartOf(more, c) \in 1..n
             PROVE  Stored(upd, c, class, w, Before(more, s) + p - StartOf(more, c), more[s].data[p])
  BY DEF Holds
<1>1. StartOf(more, c) = StartOf(on, c) /\ StartOf(on, c) \in Nat
  BY PlacedGrown, StartType
<1>2. s \in 1..Len(more) /\ Before(more, s) \in Nat
  <2>1. s \in 1..Len(more) /\ s \in 1..(Len(more) + 1)
    OBVIOUS
  <2> QED
    BY <2>1, BeforeType
<1>3. Before(on, Len(on) + 1) \in Nat
  <2>1. Len(on) + 1 \in 1..(Len(on) + 1)
    OBVIOUS
  <2> QED
    BY <2>1, BeforeType
<1>4. Before(more, s) + p <= Before(on, Len(on) + 1)
  <2>1. p \in Nat
    BY <1>2, SliceType
  <2> QED
    BY <1>1, <1>2, <1>3, <2>1
<1>5. /\ s \in 1..Len(on) /\ p \in 1..Len(on[s].data)
      /\ more[s].data[p] = on[s].data[p] /\ Before(more, s) = Before(on, s)
  BY <1>2, <1>4, GrownCell
<1> DEFINE j == Before(on, s) + p - StartOf(on, c)
<1>6. j = Before(more, s) + p - StartOf(more, c) /\ j \in 1..n
  BY <1>1, <1>5
<1>7. s \in DOMAIN on
  BY <1>5
<1> HIDE DEF j
<1>8. Stored(es, c, class, v, j, on[s].data[p])
  BY <1>5, <1>6, <1>7 DEF Holds, j
<1>9. Stored(upd, c, class, w, j, on[s].data[p])
  BY <1>6, <1>8 DEF Stored, Follows
<1> QED
  BY <1>5, <1>6, <1>9

\* What has been finished stays so.
LEMMA FinishedGrown ==
  ASSUME NEW on \in Seq(Slice), NEW more \in Seq(Slice), Grown(on, more), Len(on) > 0,
         NEW e \in LocationEntry, NEW es, NEW upd, NEW class,
         Follows(es, TRUE, upd, TRUE, e, e.compressedSize), Finished(on, es, e, class)
  PROVE  Finished(more, upd, e, class)
<1> DEFINE n == e.compressedSize
           l == e.lastSlice
<1>1. n \in Nat /\ e.startOffset \in Nat /\ e.firstSlice \in Nat /\ l \in Nat
  BY DEF LocationEntry
<1>2. /\ Placed(on, e) /\ l \in e.firstSlice..Len(on) /\ e.suboffset + e.size <= n
      /\ StartOf(on, e) + n <= Before(on, l + 1) /\ Holds(on, es, e, class, TRUE, n)
  BY DEF Finished
<1>3. Placed(more, e) /\ StartOf(more, e) = StartOf(on, e) /\ StartOf(on, e) \in Nat
      /\ e.firstSlice \in 1..Len(on)
  BY <1>1, <1>2, PlacedGrown, StartType
<1>4. Len(on) \in Nat /\ Len(more) \in Nat /\ Len(on) <= Len(more) /\ l \in 1..Len(on)
  BY <1>1, <1>2, <1>3 DEF Grown
<1>5. l + 1 \in 1..(Len(on) + 1) /\ l + 1 \in 1..(Len(more) + 1)
      /\ Len(on) + 1 \in (l + 1)..(Len(on) + 1) /\ Len(on) + 1 \in 1..(Len(on) + 1)
  BY <1>4
<1>6. /\ Before(on, l + 1) <= Before(more, l + 1)
      /\ Before(on, l + 1) <= Before(on, Len(on) + 1)
      /\ Before(on, l + 1) \in Nat /\ Before(more, l + 1) \in Nat
      /\ Before(on, Len(on) + 1) \in Nat
  BY <1>5, GrownBefore, BeforeMonotone, BeforeType
<1>7. StartOf(on, e) + n <= Before(on, Len(on) + 1) /\ StartOf(on, e) + n <= Before(more, l + 1)
  BY <1>1, <1>2, <1>3, <1>6
<1>8. Holds(more, upd, e, class, TRUE, n)
  BY <1>1, <1>2, <1>7, HoldsGrown
<1>9. l \in e.firstSlice..Len(more)
  BY <1>1, <1>2, <1>4
<1> QED
  BY <1>2, <1>3, <1>7, <1>8, <1>9 DEF Finished

\* Units that follow the chunk in the last slice belong to it.
LEMMA HoldsMoreAt ==
  ASSUME NEW on \in Seq(Slice), NEW more \in Seq(Slice), Grown(on, more), Len(on) > 0,
         NEW c, c.startOffset \in Nat, Placed(on, c), NEW n \in Nat,
         StartOf(on, c) + n = Before(on, Len(on) + 1), NEW es, NEW class, NEW w,
         Holds(on, es, c, class, w, n),
         NEW m \in Nat, NEW o \in Nat, Before(more, Len(more)) + o = Before(on, Len(on) + 1),
         Len(more[Len(more)].data) = o + m,
         \A k \in 1..m : Stored(es, c, class, w, n + k, more[Len(more)].data[o + k])
  PROVE  /\ Holds(more, es, c, class, w, n + m)
         /\ StartOf(more, c) + n + m = Before(more, Len(more) + 1)
<1> DEFINE z == Len(more)
<1>1. z \in Nat \ {0} /\ z \in 1..Len(more) /\ Len(on) \in Nat
  BY DEF Grown
<1>2. StartOf(more, c) = StartOf(on, c) /\ StartOf(on, c) \in Nat
  BY PlacedGrown, StartType
<1>3. Before(more, z) \in Nat /\ Before(on, Len(on) + 1) \in Nat
  <2>1. z \in 1..(Len(more) + 1) /\ Len(on) + 1 \in 1..(Len(on) + 1)
    BY <1>1
  <2> QED
    BY <2>1, BeforeType
<1>4. Before(more, z + 1) = Before(more, z) + (o + m)
  BY <1>1, BeforeNext
<1>5. StartOf(more, c) + n + m = Before(more, z + 1)
  BY <1>2, <1>3, <1>4
<1>6. ASSUME NEW s \in DOMAIN more, NEW p \in 1..Len(more[s].data),
             Before(more, s) + p - StartOf(more, c) \in 1..(n + m)
      PROVE  Stored(es, c, class, w, Before(more, s) + p - StartOf(more, c), more[s].data[p])
  <2> DEFINE j == Before(more, s) + p - StartOf(more, c)
  <2>1. s \in 1..z /\ s \in 1..(Len(more) + 1) /\ Before(more, s) \in Nat /\ p \in Nat
        /\ Len(more[s].data) \in Nat
    <3>1. s \in 1..z /\ s \in 1..(Len(more) + 1)
      BY <1>1
    <3> QED
      BY <3>1, BeforeType, SliceType
  <2>2. j \in 1..(n + m) /\ j \in Int
    BY <1>6
  <2>3. CASE j <= n
    <3>1. Before(more, s) + p <= Before(on, Len(on) + 1)
      <4> DEFINE b == Before(more, s)
                 a == StartOf(on, c)
                 t == Before(on, Len(on) + 1)
      <4>1. b \in Nat /\ a \in Nat /\ t \in Nat /\ p \in Nat /\ a + n = t
        BY <1>2, <1>3, <2>1
      <4>2. b + p - a <= n
        BY <1>2, <2>3
      <4> HIDE DEF b, a, t, j
      <4>3. b + p <= t
        BY <4>1, <4>2
      <4> QED
        BY <4>3 DEF b, t
    <3>2. /\ s \in 1..Len(on) /\ p \in 1..Len(on[s].data)
          /\ more[s].data[p] = on[s].data[p] /\ Before(more, s) = Before(on, s)
      BY <1>1, <2>1, <3>1, GrownCell
    <3>3. Before(on, s) + p - StartOf(on, c) = j /\ j \in 1..n /\ s \in DOMAIN on
      BY <1>2, <2>2, <2>3, <3>2
    <3> HIDE DEF j
    <3>4. Stored(es, c, class, w, j, on[s].data[p])
      BY <3>2, <3>3 DEF Holds
    <3> QED
      BY <3>2, <3>4 DEF j
  <2>4. CASE j > n
    <3>1. s = z
      <4> SUFFICES ASSUME s # z PROVE FALSE
        OBVIOUS
      <4>1. s \in 1..Len(more) /\ s + 1 \in 1..(Len(more) + 1) /\ z \in (s + 1)..(Len(more) + 1)
        BY <1>1, <2>1
      <4>2. Before(more, s + 1) = Before(more, s) + Len(more[s].data)
        BY <4>1, BeforeNext
      <4>3. Before(more, s + 1) <= Before(more, z) /\ Before(more, s + 1) \in Nat
        BY <4>1, BeforeMonotone, BeforeType
      <4>4. Before(more, s) + p <= Before(more, z)
        <5> DEFINE b == Before(more, s)
                   n2 == Before(more, s + 1)
                   t == Before(more, z)
                   l == Len(more[s].data)
        <5>1. b \in Nat /\ n2 \in Nat /\ t \in Nat /\ l \in Nat /\ n2 = b + l /\ n2 <= t /\ p \in 1..l
          BY <1>3, <2>1, <4>2, <4>3
        <5> HIDE DEF b, n2, t, l, j
        <5>2. b + p <= t
          BY <5>1
        <5> QED
          BY <5>2 DEF b, t
      <4>5. Before(more, s) + p > StartOf(on, c) + n
        BY <1>2, <2>1, <2>4
      <4> HIDE DEF j, z
      <4>6. Before(more, z) + o = StartOf(on, c) + n
        BY DEF z
      <4> DEFINE u == Before(more, s)
                 t == Before(more, z)
                 a == StartOf(on, c)
      <4>7. u \in Nat /\ t \in Nat /\ a \in Nat /\ p \in Nat
        BY <1>2, <1>3, <2>1
      <4>8. u + p <= t /\ u + p > a + n /\ t + o = a + n
        BY <4>4, <4>5, <4>6
      <4> HIDE DEF u, t, a
      <4> QED
        BY <4>7, <4>8
    <3> DEFINE k == p - o
    <3>2. Before(more, s) + p - StartOf(on, c) = n + k
      <4> DEFINE b == Before(more, s)
                 a == StartOf(on, c)
      <4>1. b \in Nat /\ a \in Nat /\ p \in Nat /\ b + o = a + n
        BY <1>2, <1>3, <2>1, <3>1
      <4> HIDE DEF b, a, j
      <4>2. b + p - a = n + k
        BY <4>1
      <4> QED
        BY <4>2 DEF b, a
    <3>3. p <= o + m
      BY <3>1
    <3>4. k \in 1..m /\ o + k = p /\ j = n + k
      <4>1. j = n + k
        BY <1>2, <3>2
      <4>2. k >= 1
        BY <2>1, <2>4, <4>1
      <4> HIDE DEF j
      <4> QED
        BY <2>1, <3>3, <4>1, <4>2
    <3> HIDE DEF k, j
    <3>5. Stored(es, c, class, w, n + k, more[z].data[o + k])
      BY <3>4
    <3> QED
      BY <3>1, <3>4, <3>5 DEF j
  <2> QED
    BY <2>2, <2>3, <2>4
<1> QED
  BY <1>5, <1>6 DEF Holds

LEMMA HoldsMore ==
  ASSUME NEW on \in Seq(Slice), NEW more \in Seq(Slice), Grown(on, more), Len(on) > 0,
         NEW c, c.startOffset \in Nat, Placed(on, c), NEW n \in Nat,
         EndsAt(on, c, n), NEW es, NEW class, NEW w,
         Holds(on, es, c, class, w, n),
         NEW d \in Seq(Cell), Before(more, Len(more)) + Len(d) = Before(on, Len(on) + 1),
         NEW units \in Seq(Cell), more[Len(more)].data = d \o units,
         StoredFrom(es, c, class, w, n, units)
  PROVE  Holds(more, es, c, class, w, n + Len(units))
<1> DEFINE m == Len(units)
           o == Len(d)
<1>1. /\ m \in Nat /\ o \in Nat /\ Len(more[Len(more)].data) = o + m
      /\ \A k \in 1..m : more[Len(more)].data[o + k] = units[k]
  BY ConcatBehind
<1>2. \A k \in 1..m : Stored(es, c, class, w, n + k, more[Len(more)].data[o + k])
  BY <1>1 DEF StoredFrom
<1>3. Before(more, Len(more)) + o = Before(on, Len(on) + 1)
  OBVIOUS
<1> HIDE DEF m, o
<1>4. Holds(more, es, c, class, w, n + m)
  BY <1>1, <1>2, <1>3, HoldsMoreAt DEF EndsAt
<1> QED
  BY <1>4 DEF m

LEMMA HoldsMoreEnd ==
  ASSUME NEW on \in Seq(Slice), NEW more \in Seq(Slice), Grown(on, more), Len(on) > 0,
         NEW c, c.startOffset \in Nat, Placed(on, c), NEW n \in Nat,
         EndsAt(on, c, n),
         NEW d \in Seq(Cell), Before(more, Len(more)) + Len(d) = Before(on, Len(on) + 1),
         NEW units \in Seq(Cell), more[Len(more)].data = d \o units
  PROVE  EndsAt(more, c, n + Len(units))
<1> DEFINE m == Len(units)
           o == Len(d)
           z == Len(more)
<1>1. m \in Nat /\ o \in Nat /\ Len(more[z].data) = o + m
  BY ConcatBehind
<1>2. StartOf(more, c) = StartOf(on, c) /\ StartOf(on, c) \in Nat
  BY PlacedGrown, StartType
<1>3. z \in 1..Len(more) /\ z \in 1..(Len(more) + 1)
  BY DEF Grown
<1>4. Before(more, z + 1) = Before(more, z) + Len(more[z].data) /\ Before(more, z) \in Nat
  BY <1>3, BeforeNext, BeforeType
<1>5. Before(more, z) + o = StartOf(on, c) + n
  BY DEF EndsAt
<1> HIDE DEF m, o, z
<1>6. Before(more, z + 1) = StartOf(more, c) + (n + m)
  <2> DEFINE a == StartOf(on, c)
             b == Before(more, z)
             t == Before(more, z + 1)
             l == Len(more[z].data)
  <2>1. a \in Nat /\ b \in Nat /\ t = b + l /\ l = o + m /\ b + o = a + n
    BY <1>1, <1>2, <1>4, <1>5
  <2> HIDE DEF a, b, t, l
  <2>2. t = a + (n + m)
    BY <1>1, <2>1
  <2> QED
    BY <1>2, <2>2 DEF a, t
<1> QED
  BY <1>6 DEF m, z, EndsAt
-----------------------------------------------------------------------------
(* What is written.                                                        *)

LEMMA ChunkSame ==
  ASSUME NEW c, NEW d, SameChunk(d, c), d.encrypted = c.encrypted,
         NEW on, NEW es, NEW class, NEW w
  PROVE  /\ StartOf(on, d) = StartOf(on, c)
         /\ Placed(on, c) => Placed(on, d)
         /\ \A j, v : Right(es, c, class, w, j, v) => Right(es, d, class, w, j, v)
         /\ \A n : Holds(on, es, c, class, w, n) => Holds(on, es, d, class, w, n)
<1>1. d.firstSlice = c.firstSlice /\ d.startOffset = c.startOffset
  BY DEF SameChunk
<1>2. StartOf(on, d) = StartOf(on, c)
  BY <1>1 DEF StartOf
<1>3. Placed(on, c) => Placed(on, d)
  BY <1>1 DEF Placed
<1>4. \A j, u : Stands(es, c, w, j, u) => Stands(es, d, w, j, u)
  BY <1>1 DEF Stands, SameChunk
<1>5. \A j, v : Right(es, c, class, w, j, v) => Right(es, d, class, w, j, v)
  BY <1>4 DEF Right
<1>6. \A j, v : Stored(es, c, class, w, j, v) => Stored(es, d, class, w, j, v)
  BY <1>1, <1>4 DEF Stored
<1>7. \A n : Holds(on, es, c, class, w, n) => Holds(on, es, d, class, w, n)
  BY <1>2, <1>6 DEF Holds
<1> QED
  BY <1>2, <1>3, <1>5, <1>7

LEMMA SliceFields ==
  ASSUME NEW y \in Slice, NEW b \in BOOLEAN, NEW d \in Seq(Cell)
  PROVE  /\ [y EXCEPT !.sealed = b] \in Slice /\ [y EXCEPT !.sealed = b].data = y.data
         /\ [y EXCEPT !.sealed = b].sealed = b
         /\ [y EXCEPT !.data = d] \in Slice /\ [y EXCEPT !.data = d].data = d
         /\ [y EXCEPT !.data = d].sealed = y.sealed
  BY DEF Slice

LEMMA EmptySliceType == EmptySlice \in Slice /\ EmptySlice.data = <<>> /\ Len(EmptySlice.data) = 0
  BY DEF EmptySlice, Slice

LEMMA EndSliceDoes ==
  ASSUME slices \in Seq(Slice), Len(slices) > 0
  PROVE  /\ EndSlice \in Seq(Slice) /\ Len(EndSlice) = Len(slices)
         /\ \A s \in 1..Len(slices) :
              /\ EndSlice[s].data = slices[s].data
              /\ EndSlice[s].sealed = (s = Len(slices) \/ slices[s].sealed)
<1>1. CurSlice \in 1..Len(slices) /\ CurSlice = Len(slices)
  BY DEF CurSlice
<1>2. slices[CurSlice] \in Slice
  BY <1>1, ElementOfSeq
<1> DEFINE y == [slices[CurSlice] EXCEPT !.sealed = TRUE]
<1>3. y \in Slice /\ y.data = slices[CurSlice].data /\ y.sealed = TRUE
  BY <1>2, SliceFields DEF Slice
<1>4. EndSlice = [slices EXCEPT ![CurSlice] = y]
  BY DEF EndSlice
<1> HIDE DEF y
<1>5. /\ EndSlice \in Seq(Slice) /\ Len(EndSlice) = Len(slices)
      /\ \A s \in 1..Len(slices) : EndSlice[s] = IF s = CurSlice THEN y ELSE slices[s]
  BY <1>1, <1>3, <1>4, ExceptSeq
<1>6. \A s \in 1..Len(slices) : slices[s].sealed \in BOOLEAN
  BY SliceType DEF Slice
<1> QED
  BY <1>1, <1>3, <1>5, <1>6

LEMMA NewSliceDoes ==
  ASSUME slices \in Seq(Slice), Len(slices) > 0
  PROVE  /\ NewSlice \in Seq(Slice)
         /\ script.spanning =>
              /\ Len(NewSlice) = Len(slices) + 1
              /\ NewSlice[Len(slices) + 1] = EmptySlice
              /\ \A s \in 1..Len(slices) :
                   /\ NewSlice[s].data = slices[s].data
                   /\ NewSlice[s].sealed = (s = Len(slices) \/ slices[s].sealed)
<1>1. CASE ~script.spanning
  BY <1>1, EndSliceDoes DEF NewSlice
<1>2. CASE script.spanning
  <2>1. NewSlice = Append(EndSlice, EmptySlice)
    BY <1>2 DEF NewSlice
  <2>2. /\ NewSlice \in Seq(Slice) /\ Len(NewSlice) = Len(EndSlice) + 1
        /\ \A s \in 1..Len(EndSlice) : NewSlice[s] = EndSlice[s]
        /\ NewSlice[Len(EndSlice) + 1] = EmptySlice
    BY <2>1, EndSliceDoes, EmptySliceType, AppendProperties
  <2> QED
    BY <2>2, EndSliceDoes
<1> QED
  BY <1>1, <1>2

LEMMA WriteToDoes ==
  ASSUME NEW on \in Seq(Slice), Len(on) > 0, NEW units \in Seq(Cell)
  PROVE  /\ WriteTo(on, units) \in Seq(Slice) /\ Len(WriteTo(on, units)) = Len(on)
         /\ WriteTo(on, units)[Len(on)].data = on[Len(on)].data \o units
         /\ \A s \in 1..Len(on) : WriteTo(on, units)[s].sealed = on[s].sealed
         /\ \A s \in 1..(Len(on) - 1) : WriteTo(on, units)[s] = on[s]
<1> DEFINE n == Len(on)
           d == on[n].data \o units
           y == [on[n] EXCEPT !.data = d]
<1>1. n \in 1..Len(on)
  OBVIOUS
<1>2. on[n] \in Slice /\ on[n].data \in Seq(Cell)
  BY <1>1, SliceType
<1>3. d \in Seq(Cell)
  BY <1>2
<1>4. WriteTo(on, units) = [on EXCEPT ![n] = y]
  BY DEF WriteTo
<1> HIDE DEF d
<1>5. y \in Slice /\ y.data = d /\ y.sealed = on[n].sealed
  BY <1>2, <1>3, SliceFields DEF Slice
<1> HIDE DEF y, n
<1>6. /\ WriteTo(on, units) \in Seq(Slice) /\ Len(WriteTo(on, units)) = Len(on)
      /\ \A s \in 1..Len(on) : WriteTo(on, units)[s] = IF s = n THEN y ELSE on[s]
  BY <1>1, <1>4, <1>5, ExceptSeq
<1>7. \A s \in 1..(Len(on) - 1) : s \in 1..Len(on) /\ s # n
  BY DEF n
<1>8. WriteTo(on, units)[n].data = d
  BY <1>1, <1>5, <1>6
<1> QED
  BY <1>5, <1>6, <1>7, <1>8 DEF n, d

\* Units are written to the last slice, or to a new one.
LEMMA Extended ==
  ASSUME slices \in Seq(Slice), Len(slices) > 0, NEW units \in Seq(Cell), NEW on,
         on = slices \/ (script.spanning /\ on = NewSlice), NEW more, more = WriteTo(on, units)
  PROVE  /\ more \in Seq(Slice) /\ Len(more) = Len(on) /\ Len(on) \in Nat \ {0}
         /\ Len(on) >= Len(slices) /\ on \in Seq(Slice)
         /\ Grown(slices, more)
         /\ more[Len(more)].data = on[Len(on)].data \o units
         /\ on[Len(on)].data \in Seq(Cell)
         /\ Before(more, Len(more)) + Len(on[Len(on)].data) = Before(slices, Len(slices) + 1)
         /\ script.spanning /\ (\A s \in 1..(Len(slices) - 1) : slices[s].sealed) =>
              \A s \in 1..(Len(more) - 1) : more[s].sealed
         /\ on = slices \/ (Len(on) = Len(slices) + 1 /\ on[Len(on)].data = <<>>)
<1> DEFINE n == Len(slices)
<1>1. n \in Nat \ {0} /\ n \in 1..Len(slices)
  OBVIOUS
<1>2. /\ on \in Seq(Slice) /\ Len(on) > 0 /\ Len(on) \in {n, n + 1} /\ Len(on) \in Nat
      /\ \A s \in 1..n : on[s].data = slices[s].data
      /\ Len(on) = n + 1 => on[Len(on)].data = <<>>
      /\ Len(on) = n => on = slices
      /\ script.spanning /\ (\A s \in 1..(n - 1) : slices[s].sealed) =>
           \A s \in 1..(Len(on) - 1) : on[s].sealed
  <2>1. CASE on = slices
    BY <1>1, <2>1
  <2>2. CASE script.spanning /\ on = NewSlice
    <3>1. /\ on \in Seq(Slice) /\ Len(on) = n + 1 /\ on[n + 1] = EmptySlice
          /\ \A s \in 1..n : /\ on[s].data = slices[s].data
                              /\ on[s].sealed = (s = n \/ slices[s].sealed)
      BY <2>2, NewSliceDoes
    <3>2. on[n + 1].data = <<>>
      BY <3>1, EmptySliceType
    <3> HIDE DEF n
    <3>3. \A s \in 1..n : s = n \/ s \in 1..(n - 1)
      BY <1>1
    <3>4. (\A s \in 1..(n - 1) : slices[s].sealed) => \A s \in 1..n : on[s].sealed
      BY <3>1, <3>3
    <3>5. Len(on) - 1 = n /\ Len(on) > 0 /\ Len(on) # n
      BY <1>1, <3>1
    <3> QED
      BY <1>1, <3>1, <3>2, <3>4, <3>5
  <2> QED
    BY <2>1, <2>2
<1>3. /\ more \in Seq(Slice) /\ Len(more) = Len(on)
      /\ more[Len(on)].data = on[Len(on)].data \o units
      /\ \A s \in 1..Len(on) : more[s].sealed = on[s].sealed
      /\ \A s \in 1..(Len(on) - 1) : more[s] = on[s]
  BY <1>2, WriteToDoes
<1>4. Len(on) \in 1..Len(on)
  BY <1>2
<1>5. on[Len(on)].data \in Seq(Cell)
  BY <1>2, <1>4, SliceType
<1>6. ASSUME NEW s \in 1..n
      PROVE  /\ Len(slices[s].data) <= Len(more[s].data)
             /\ s < n => Len(slices[s].data) = Len(more[s].data)
             /\ \A p \in 1..Len(slices[s].data) : more[s].data[p] = slices[s].data[p]
  <2>1. slices[s].data \in Seq(Cell) /\ on[s].data = slices[s].data
    BY <1>2, SliceType
  <2>2. CASE s < Len(on)
    <3>1. s \in 1..(Len(on) - 1)
      BY <1>2, <2>2
    <3>2. more[s].data = slices[s].data
      BY <1>3, <2>1, <3>1
    <3> QED
      BY <2>1, <3>2
  <2>3. CASE s = Len(on)
    <3>1. more[s].data = slices[s].data \o units
      BY <1>3, <2>1, <2>3
    <3>2. s = n
      BY <1>1, <1>2, <2>3
    <3> DEFINE d == slices[s].data
    <3>3. d \in Seq(Cell) /\ more[s].data = d \o units
      BY <2>1, <3>1
    <3> HIDE DEF d
    <3>4. Len(d) <= Len(more[s].data) /\ \A p \in 1..Len(d) : more[s].data[p] = d[p]
      BY <3>3
    <3> QED
      BY <3>2, <3>4 DEF d
  <2> QED
    BY <1>1, <1>2, <2>2, <2>3
<1>7. Grown(slices, more)
  <2>1. Len(slices) <= Len(more)
    BY <1>1, <1>2, <1>3
  <2> QED
    BY <1>6, <2>1 DEF Grown
<1>8. Before(more, Len(more)) + Len(on[Len(on)].data) = Before(slices, n + 1)
  <2>1. CASE Len(on) = n
    <3>1. Before(slices, n + 1) = Before(slices, n) + Len(slices[n].data)
      BY <1>1, BeforeNext
    <3>2. Before(more, n) = Before(slices, n)
      BY <1>1, <1>3, <1>7, GrownBefore
    <3>3. on[n].data = slices[n].data
      BY <1>1, <1>2
    <3> HIDE DEF n
    <3> QED
      BY <1>3, <2>1, <3>1, <3>2, <3>3
  <2>2. CASE Len(on) = n + 1
    <3>1. Len(on[Len(on)].data) = 0
      BY <1>2, <2>2
    <3>2. \A t \in 1..((n + 1) - 1) : t \in 1..n /\ t \in 1..(Len(on) - 1)
      BY <1>1, <2>2
    <3>3. \A t \in 1..((n + 1) - 1) : Len(more[t].data) = Len(slices[t].data)
      BY <1>2, <1>3, <3>2
    <3>4. n + 1 \in Int
      BY <1>1
    <3> HIDE DEF n
    <3>5. Before(more, n + 1) = Before(slices, n + 1)
      BY <3>3, <3>4, BeforeSame
    <3>6. Before(slices, n + 1) \in Nat
      <4>1. n + 1 \in 1..(Len(slices) + 1)
        BY <1>1 DEF n
      <4> QED
        BY <4>1, BeforeType
    <3> QED
      BY <1>3, <2>2, <3>1, <3>5, <3>6
  <2> QED
    BY <1>2, <2>1, <2>2
<1>9. script.spanning /\ (\A s \in 1..(n - 1) : slices[s].sealed) =>
        \A s \in 1..(Len(more) - 1) : more[s].sealed
  <2>1. \A s \in 1..(Len(on) - 1) : s \in 1..Len(on)
    BY <1>2
  <2> QED
    BY <1>2, <1>3, <2>1
<1> QED
  BY <1>1, <1>2, <1>3, <1>5, <1>7, <1>8, <1>9
-----------------------------------------------------------------------------
(* The compiler.                                                           *)

LEMMA ScriptHas ==
  ASSUME script \in Scripts
  PROVE  /\ script \in ScriptType /\ script.files \in Seq(FileType) /\ Len(script.files) \in Nat
         /\ script.method \in Methods
         /\ script.spanning \in BOOLEAN
         /\ \A i \in 1..Len(script.files) :
              /\ FileAt(i) \in FileType /\ FileAt(i).size \in Nat
              /\ FileAt(i).compressed \in BOOLEAN /\ FileAt(i).encrypted \in BOOLEAN
<1>1. script \in ScriptType
  BY ScriptAssumption
<1>2. script.files \in Seq(FileType) /\ script.method \in Methods /\ script.spanning \in BOOLEAN
  BY <1>1 DEF ScriptType
<1>3. \A i \in 1..Len(script.files) : FileAt(i) \in FileType
  BY <1>2, ElementOfSeq DEF FileAt
<1> QED
  BY <1>1, <1>2, <1>3 DEF FileType

LEMMA ClassType ==
  ASSUME script \in Scripts, NEW f \in FileType
  PROVE  GetCompressorClass(f) \in Codecs
<1>1. script.method \in Methods
  BY ScriptHas
<1>2. f.strategy \in Strategies
  BY DEF FileType
<1>3. \A c \in {"brotli", "zstd"} : IfFound(c) \in Codecs
  BY DEF IfFound, Codecs
<1>4. FactoryClass(f) \in Codecs
  BY <1>1, <1>2, <1>3 DEF FactoryClass, Methods, Strategies, Codecs
<1> QED
  BY <1>4 DEF GetCompressorClass, Codecs

LEMMA GrownSame ==
  ASSUME NEW on \in Seq(Slice)
  PROVE  Grown(on, on)
<1>1. \A s \in 1..Len(on) : Len(on[s].data) \in Nat
  BY SliceType
<1> QED
  BY <1>1 DEF Grown

\* The entries stay, and so does what has been finished.
LEMMA FinishedKept ==
  ASSUME CTypes, FinishedInv, script' = script, fl' = fl, slices' \in Seq(Slice),
         Grown(slices, slices'),
         \A i \in DOMAIN fl : Open /\ InChunk(fl[i]) => Open' /\ InChunk(fl[i])'
  PROVE  FinishedInv'
<1> SUFFICES ASSUME NEW i \in DOMAIN fl, ~(Open /\ InChunk(fl[i]))
             PROVE  Finished(slices', fl', fl'[i], GetCompressorClass(FileAt(i))')
  BY DEF FinishedInv
<1>1. Finished(slices, fl, fl[i], GetCompressorClass(FileAt(i)))
  BY DEF FinishedInv
<1>2. slices \in Seq(Slice) /\ Len(slices) > 0 /\ fl[i] \in LocationEntry
  BY ElementOfSeq DEF CTypes
<1>3. Follows(fl, TRUE, fl, TRUE, fl[i], fl[i].compressedSize)
  BY DEF Follows
<1>4. Finished(slices', fl, fl[i], GetCompressorClass(FileAt(i)))
  BY <1>1, <1>2, <1>3, FinishedGrown
<1>5. GetCompressorClass(FileAt(i))' = GetCompressorClass(FileAt(i))
  BY DEF GetCompressorClass, FactoryClass, FileAt
<1> QED
  BY <1>4, <1>5

LEMMA AbortKeeps ==
  ASSUME CompilerInv, AbortCompile
  PROVE  CompilerInv'
<1>1. slices \in Seq(Slice) /\ Len(slices) > 0
  BY DEF CompilerInv, CTypes
<1>2. slices' \in Seq(Slice) /\ Len(slices') > 0
  <2>1. NewSlice \in Seq(Slice)
    BY <1>1, NewSliceDoes
  <2>2. CASE script.spanning
    BY <1>1, <2>1, <2>2, NewSliceDoes DEF AbortCompile
  <2>3. CASE ~script.spanning
    BY <1>1, <2>1, <2>3, EndSliceDoes DEF AbortCompile, NewSlice
  <2> QED
    BY <2>2, <2>3
<1>3. CTypes'
  BY <1>2 DEF CompilerInv, CTypes, AbortCompile
<1> QED
  BY <1>3 DEF CompilerInv, AbortCompile

Sent(units) == IF ch.encrypted THEN Encrypt(units) ELSE units

\* What WriteProc makes of n units of the output.
LEMMA Written ==
  ASSUME CTypes, NEW n \in 1..Len(ch.out), NEW w \in BOOLEAN,
         RightFrom(fl, ch, ch.class, w, ch.bytesWritten, ch.out),
         NEW units \in Seq(StreamUnit), Len(units) = n, \A k \in 1..n : units[k] = ch.out[k]
  PROVE  /\ Sent(units) \in Seq(Cell) /\ Len(Sent(units)) = n
         /\ StoredFrom(fl, ch, ch.class, w, ch.bytesWritten, Sent(units))
<1> DEFINE sent == Sent(units)
<1>0. sent = IF ch.encrypted THEN Encrypt(units) ELSE units
  BY DEF Sent
<1> HIDE DEF sent
<1>1. ch \in Handler /\ ch.out \in Seq(StreamUnit)
  BY DEF CTypes, Handler
<1>2. ch.firstSlice \in Nat /\ ch.startOffset \in Nat /\ ch.bytesWritten \in Nat /\ ch.class \in Codecs
      /\ ch.encrypted \in BOOLEAN
  BY <1>1 DEF Handler
<1>3. units \in Seq(StreamUnit) /\ Len(units) = n /\ \A k \in 1..n : units[k] = ch.out[k]
  OBVIOUS
<1>4. DOMAIN units = 1..n
  BY <1>3
<1>5. ASSUME NEW k \in 1..n
      PROVE  /\ units[k] \in StreamUnit
             /\ Right(fl, ch, ch.class, w, ch.bytesWritten + k, units[k])
  BY <1>3, <1>1, ElementOfSeq DEF RightFrom
<1>6. CASE ~ch.encrypted
  <2>1. sent = units
    BY <1>0, <1>6
  <2>2. sent \in Seq(Cell) /\ Len(sent) = n
    <3>1. StreamUnit \subseteq Cell
      BY DEF Cell
    <3> QED
      BY <2>1, <1>3, <3>1, SeqMonotonic
  <2>3. \A k \in 1..n : Stored(fl, ch, ch.class, w, ch.bytesWritten + k, sent[k])
    BY <2>1, <1>5, <1>6 DEF Right, Stored, NoKey
  <2> QED
    <3>1. \A k \in 1..Len(sent) : Stored(fl, ch, ch.class, w, ch.bytesWritten + k, sent[k])
      BY <1>2, <2>2, <2>3
    <3>2. StoredFrom(fl, ch, ch.class, w, ch.bytesWritten, sent)
      BY <3>1 DEF StoredFrom
    <3> QED
      BY <2>2, <3>2 DEF sent
<1>7. CASE ch.encrypted
  <2>1. sent = [k \in 1..n |-> [units[k] EXCEPT !.key = <<ch.firstSlice, ch.startOffset, ch.bytesWritten + k>>]]
    BY <1>0, <1>4, <1>7 DEF Encrypt
  <2>2. ASSUME NEW k \in 1..n
        PROVE  /\ sent[k] \in StreamUnit
               /\ Stored(fl, ch, ch.class, w, ch.bytesWritten + k, sent[k])
    <3> DEFINE key == <<ch.firstSlice, ch.startOffset, ch.bytesWritten + k>>
               v == units[k]
    <3>1. key \in Seq(Int)
      BY <1>2
    <3>2. /\ v \in StreamUnit
          /\ v.unit \in Int \X Int
          /\ v = [codec |-> ch.class, pos |-> ch.bytesWritten + k, unit |-> v.unit, key |-> NoKey]
          /\ Stands(fl, ch, w, ch.bytesWritten + k, v.unit)
      BY <1>5 DEF Right
    <3>3. sent[k] = [v EXCEPT !.key = key]
      BY <2>1
    <3> HIDE DEF v, key
    <3>a. v.codec = ch.class /\ v.pos = ch.bytesWritten + k
      BY <3>2
    <3>b. sent[k] = [codec |-> v.codec, pos |-> v.pos, unit |-> v.unit, key |-> key]
      BY <3>2, <3>3 DEF StreamUnit
    <3>4. sent[k] = [codec |-> ch.class, pos |-> ch.bytesWritten + k, unit |-> v.unit, key |-> key]
      BY <3>a, <3>b
    <3>5. sent[k] \in StreamUnit /\ sent[k].unit = v.unit
      <4>1. ch.class \in Codecs /\ ch.bytesWritten + k \in Nat /\ v.unit \in Int \X Int
        <5>1. v.codec \in Codecs /\ v.pos \in Nat
          BY <3>2 DEF StreamUnit
        <5> QED
          BY <3>2, <3>a, <5>1
      <4>2. sent[k] \in StreamUnit
        BY <3>1, <3>4, <4>1 DEF StreamUnit
      <4>3. sent[k].unit = v.unit
        BY <3>4
      <4> QED
        BY <4>2, <4>3
    <3> QED
      BY <1>7, <3>2, <3>4, <3>5 DEF Stored, key
  <2>3. sent \in Seq(StreamUnit) /\ Len(sent) = n
    <3>1. sent \in [1..n -> StreamUnit]
      BY <2>1, <2>2
    <3>2. n \in Nat
      BY <1>1
    <3> QED
      BY <3>1, <3>2, FunSeq
  <2>4. sent \in Seq(Cell)
    <3>1. StreamUnit \subseteq Cell
      BY DEF Cell
    <3> QED
      BY <2>3, <3>1, SeqMonotonic
  <2> QED
    <3>1. \A k \in 1..Len(sent) : Stored(fl, ch, ch.class, w, ch.bytesWritten + k, sent[k])
      BY <1>2, <2>2, <2>3
    <3>2. StoredFrom(fl, ch, ch.class, w, ch.bytesWritten, sent)
      BY <3>1 DEF StoredFrom
    <3> QED
      BY <2>3, <2>4, <3>2 DEF sent
<1> QED
  BY <1>2, <1>6, <1>7

LEMMA WriteProcKeeps ==
  ASSUME CompilerInv, WriteProc
  PROVE  CompilerInv'
<1>1. cpc # "aborted" /\ ch.out # <<>>
  BY DEF WriteProc
<1>2. CTypes /\ CControl /\ Sealed /\ Entries /\ Agree /\ FinishedInv /\ ChunkInv
  BY <1>1 DEF CompilerInv, Layout
<1>3. CASE ch.left = 0 /\ ~script.spanning
  BY <1>3, AbortKeeps DEF WriteProc
<1>4. CASE ~(ch.left = 0 /\ ~script.spanning)
  <2> DEFINE full == ch.left = 0
             left == IF full THEN SliceSize ELSE ch.left
             n == Fits(left, Len(ch.out))
             units == SubSeq(ch.out, 1, n)
             sent == IF ch.encrypted THEN Encrypt(units) ELSE units
             on == IF full THEN NewSlice ELSE slices
  <2>1. /\ slices' = WriteTo(on, sent)
        /\ ch' = [ch EXCEPT !.left = left - n, !.bytesWritten = @ + n, !.out = From(@, n)]
        /\ UNCHANGED <<script, cpc, file, toRead, fl>>
    BY <1>4 DEF WriteProc
  <2>2. ch \in Handler /\ ch.out \in Seq(StreamUnit) /\ ch.bytesWritten \in Nat /\ ch.left \in Nat
        /\ ch.startOffset \in Nat /\ ch.started \in BOOLEAN /\ ch.bytesRead \in Nat
        /\ ch.pending \in Seq(StreamUnit)
    BY <1>2 DEF CTypes, Handler
  <2>3. left \in Nat /\ left > 0 /\ Len(ch.out) \in Nat /\ Len(ch.out) > 0
    BY <1>1, <2>2, SizeAssumption
  <2>4. n \in 1..Len(ch.out) /\ left - n \in Nat /\ n \in Nat
    BY <2>3 DEF Fits, Least
  <2>5. Open
    BY <1>1, <1>2 DEF CControl
  <2>6. slices \in Seq(Slice) /\ Len(slices) > 0
    BY <1>2 DEF CTypes
  <2> HIDE DEF n, units, sent, on
  <2>7. RightFrom(fl, ch, ch.class, ~ch.started, ch.bytesWritten, ch.out)
    BY <1>2, <2>5 DEF ChunkInv
  <2>8. /\ sent \in Seq(Cell) /\ Len(sent) = n
        /\ StoredFrom(fl, ch, ch.class, ~ch.started, ch.bytesWritten, sent)
    <3> DEFINE w == ~ch.started
    <3>1. w \in BOOLEAN /\ RightFrom(fl, ch, ch.class, w, ch.bytesWritten, ch.out)
      BY <2>7
    <3>2. units \in Seq(StreamUnit) /\ Len(units) = n /\ \A k \in 1..n : units[k] = ch.out[k]
      BY <2>2, <2>4 DEF units
    <3>3. sent = Sent(units)
      BY DEF sent, Sent
    <3> HIDE DEF w
    <3>4. sent \in Seq(Cell)
      BY <1>2, <2>4, <3>1, <3>2, <3>3, Written
    <3>5. Len(sent) = n
      BY <1>2, <2>4, <3>1, <3>2, <3>3, Written
    <3>6. StoredFrom(fl, ch, ch.class, w, ch.bytesWritten, sent)
      BY <1>2, <2>4, <3>1, <3>2, <3>3, Written
    <3> QED
      BY <3>4, <3>5, <3>6 DEF w
  <2>9. on = slices \/ (script.spanning /\ on = NewSlice)
    BY <1>4 DEF on
  <2>10. /\ slices' \in Seq(Slice) /\ Len(slices') = Len(on) /\ Len(on) \in Nat \ {0}
         /\ Len(on) >= Len(slices) /\ on \in Seq(Slice)
         /\ Grown(slices, slices')
         /\ slices'[Len(slices')].data = on[Len(on)].data \o sent
         /\ on[Len(on)].data \in Seq(Cell)
         /\ Before(slices', Len(slices')) + Len(on[Len(on)].data) = Before(slices, Len(slices) + 1)
         /\ script.spanning /\ (\A s \in 1..(Len(slices) - 1) : slices[s].sealed) =>
              \A s \in 1..(Len(slices') - 1) : slices'[s].sealed
    <3>1. sent \in Seq(Cell) /\ slices' = WriteTo(on, sent)
      BY <2>1, <2>8
    <3> DEFINE more == slices'
    <3>2. more = WriteTo(on, sent)
      BY <3>1
    <3> HIDE DEF more
    <3>3. more \in Seq(Slice) /\ Len(more) = Len(on)
      BY <2>6, <2>9, <3>1, <3>2, Extended
    <3>4. Len(on) \in Nat \ {0} /\ Len(on) >= Len(slices) /\ on \in Seq(Slice)
      BY <2>6, <2>9, <3>1, <3>2, Extended
    <3>5. Grown(slices, more)
      BY <2>6, <2>9, <3>1, <3>2, Extended
    <3>6. more[Len(more)].data = on[Len(on)].data \o sent
      BY <2>6, <2>9, <3>1, <3>2, Extended
    <3>7. on[Len(on)].data \in Seq(Cell)
      BY <2>6, <2>9, <3>1, <3>2, Extended
    <3>8. Before(more, Len(more)) + Len(on[Len(on)].data) = Before(slices, Len(slices) + 1)
      BY <2>6, <2>9, <3>1, <3>2, Extended
    <3>9. script.spanning /\ (\A s \in 1..(Len(slices) - 1) : slices[s].sealed) =>
            \A s \in 1..(Len(more) - 1) : more[s].sealed
      BY <2>6, <2>9, <3>1, <3>2, Extended
    <3> QED
      BY <3>3, <3>4, <3>5, <3>6, <3>7, <3>8, <3>9 DEF more
  <2>11. /\ ch' \in Handler
         /\ ch'.started = ch.started /\ ch'.firstSlice = ch.firstSlice
         /\ ch'.startOffset = ch.startOffset /\ ch'.bytesRead = ch.bytesRead
         /\ ch'.bytesWritten = ch.bytesWritten + n /\ ch'.compressed = ch.compressed
         /\ ch'.encrypted = ch.encrypted /\ ch'.class = ch.class
         /\ ch'.pending = ch.pending /\ ch'.out = From(ch.out, n)
    <3>1. From(ch.out, n) \in Seq(StreamUnit)
      BY <2>2, <2>4 DEF From
    <3>2. ch.bytesWritten + n \in Nat
      BY <2>2, <2>4
    <3> HIDE DEF left
    <3> QED
      BY <2>1, <2>2, <2>4, <3>1, <3>2 DEF Handler
  <2>12. SameChunk(ch', ch) /\ ch'.encrypted = ch.encrypted
    BY <2>11 DEF SameChunk
  <2>13. (~ch.started)' = ~ch.started /\ Open'
    BY <2>1, <2>5, <2>11 DEF Open
  <2>14. ASSUME NEW e PROVE InChunk(e)' = InChunk(e)
    BY <2>11 DEF InChunk
  <2>15. CTypes'
    BY <1>2, <2>1, <2>10, <2>11 DEF CTypes
  <2>16. CControl'
    BY <1>2, <2>1, <2>11, <2>13 DEF CControl, At
  <2>17. Sealed'
    <3>1. cpc' # "compiled"
      BY <1>2, <2>1, <2>5 DEF CControl, Open
    <3>2. script.spanning => \A s \in 1..(Len(slices) - 1) : slices[s].sealed
      BY <1>2, <2>6 DEF Sealed
    <3>3. script.spanning => \A s \in 1..(Len(slices') - 1) : slices'[s].sealed
      BY <2>10, <3>2
    <3>4. \A s \in DOMAIN slices' : s < Len(slices') => s \in 1..(Len(slices') - 1)
      BY <2>10
    <3> QED
      BY <2>1, <3>1, <3>3, <3>4 DEF Sealed
  <2>18. Entries'
    BY <1>2, <2>1 DEF Entries, FileAt
  <2>19. Agree'
    BY <1>2, <2>1 DEF Agree, FileAt, GetCompressorClass, FactoryClass
  <2>20. FinishedInv'
    BY <1>2, <2>1, <2>10, <2>13, <2>14, FinishedKept
  <2>21. ChunkInv'
    <3>1. Placed(slices', ch') /\ StartOf(slices', ch') = StartOf(slices', ch)
      <4>1. Placed(slices, ch)
        BY <1>2, <2>5 DEF ChunkInv
      <4>2. Placed(slices', ch)
        BY <2>2, <2>6, <2>10, <4>1, PlacedGrown
      <4> QED
        BY <2>12, <4>2, ChunkSame
    <3>2. /\ Holds(slices', fl, ch, ch.class, ~ch.started, ch.bytesWritten + n)
          /\ EndsAt(slices', ch, ch.bytesWritten + n)
      <4> DEFINE d == on[Len(on)].data
                 w == ~ch.started
                 more == slices'
                 b == ch.bytesWritten
      <4>1. /\ Placed(slices, ch)
            /\ EndsAt(slices, ch, b)
            /\ Holds(slices, fl, ch, ch.class, w, b)
        BY <1>2, <2>5 DEF ChunkInv
      <4>2. d \in Seq(Cell) /\ more[Len(more)].data = d \o sent /\ b \in Nat
            /\ more \in Seq(Slice) /\ Grown(slices, more)
            /\ Before(more, Len(more)) + Len(d) = Before(slices, Len(slices) + 1)
            /\ StoredFrom(fl, ch, ch.class, w, b, sent) /\ sent \in Seq(Cell)
        BY <2>2, <2>8, <2>10, <4>1
      <4> HIDE DEF d, w, more, b
      <4>3. Holds(more, fl, ch, ch.class, w, b + Len(sent))
        BY <2>2, <2>6, <4>1, <4>2, HoldsMore
      <4>4. EndsAt(more, ch, b + Len(sent))
        BY <2>2, <2>6, <4>1, <4>2, HoldsMoreEnd
      <4> QED
        BY <2>8, <4>3, <4>4 DEF w, more, b
    <3>3. Holds(slices', fl', ch', ch'.class, (~ch.started)', ch'.bytesWritten)
      <4>1. Holds(slices', fl, ch', ch.class, ~ch.started, ch.bytesWritten + n)
        BY <2>12, <3>2, ChunkSame
      <4> QED
        BY <2>1, <2>11, <2>13, <4>1
    <3>5. EndsAt(slices', ch', ch'.bytesWritten)
      BY <2>11, <3>1, <3>2 DEF EndsAt
    <3>6. \A j, v : Right(fl, ch, ch.class, ~ch.started, j, v) =>
            Right(fl', ch', ch'.class, (~ch.started)', j, v)
      <4> DEFINE w == ~ch.started
      <4>1. (~ch.started)' = w
        BY <2>13
      <4> HIDE DEF w
      <4>2. \A j, v : Right(fl, ch, ch.class, w, j, v) => Right(fl, ch', ch.class, w, j, v)
        BY <2>12, ChunkSame
      <4> QED
        BY <2>1, <2>11, <4>1, <4>2 DEF w
    <3>7. Len(ch'.out) = Len(ch.out) - n /\ \A k \in 1..Len(ch'.out) : ch'.out[k] = ch.out[n + k]
      <4> DEFINE o == ch.out
                 r == ch'.out
      <4>1. o \in Seq(StreamUnit) /\ n \in 0..Len(o) /\ r = From(o, n)
        BY <2>2, <2>3, <2>4, <2>11
      <4> HIDE DEF o, r, n
      <4>2. Len(r) = Len(o) - n
        BY <4>1, FromHas
      <4>3. \A k \in 1..(Len(o) - n) : From(o, n)[k] = o[n + k]
        BY <4>1, FromHas
      <4>4. \A k \in 1..Len(r) : r[k] = o[n + k]
        BY <4>1, <4>2, <4>3
      <4> QED
        BY <4>2, <4>4 DEF o, r
    <3>8. RightFrom(fl', ch', ch'.class, (~ch.started)', ch'.bytesWritten, ch'.out)
      <4> SUFFICES ASSUME NEW k \in 1..Len(ch'.out)
                   PROVE  Right(fl', ch', ch'.class, (~ch.started)', ch'.bytesWritten + k, ch'.out[k])
        BY DEF RightFrom
      <4>1. n + k \in 1..Len(ch.out) /\ ch'.bytesWritten + k = ch.bytesWritten + (n + k)
        BY <2>2, <2>3, <2>4, <2>11, <3>7
      <4>2. Right(fl, ch, ch.class, ~ch.started, ch.bytesWritten + (n + k), ch.out[n + k])
        BY <2>7, <4>1 DEF RightFrom
      <4> QED
        BY <3>6, <3>7, <4>1, <4>2
    <3>9. ch'.bytesWritten + Len(ch'.out) = ch.bytesWritten + Len(ch.out)
      BY <2>2, <2>3, <2>4, <2>11, <3>7
    <3>10. RightFrom(fl', ch', ch'.class, (~ch.started)', ch'.bytesWritten + Len(ch'.out), ch'.pending)
      <4> SUFFICES ASSUME NEW k \in 1..Len(ch'.pending)
                   PROVE  Right(fl', ch', ch'.class, (~ch.started)', ch'.bytesWritten + Len(ch'.out) + k, ch'.pending[k])
        BY DEF RightFrom
      <4>1. Right(fl, ch, ch.class, ~ch.started, ch.bytesWritten + Len(ch.out) + k, ch.pending[k])
        BY <1>2, <2>5, <2>11 DEF ChunkInv, RightFrom
      <4> QED
        BY <2>11, <3>6, <3>9, <4>1
    <3>11. /\ ch'.compressed \/ ch'.class = "stored"
           /\ ch'.started => ch'.bytesWritten + Len(ch'.out) + Len(ch'.pending) = ch'.bytesRead
           /\ ~ch'.started => ch'.bytesWritten + Len(ch'.out) >= ch'.bytesRead
      BY <1>2, <2>5, <2>11, <3>9 DEF ChunkInv
    <3>12. \A i \in DOMAIN fl : InChunk(fl[i]) =>
         /\ fl[i].lastSlice = 0 /\ fl[i].compressedSize = 0
         /\ fl[i].compressed = ch'.compressed /\ fl[i].encrypted = ch'.encrypted
         /\ GetCompressorClass(FileAt(i))' = ch'.class
         /\ IF cpc' = "compress" /\ i < file' THEN fl[i].suboffset + fl[i].size <= fl[file].suboffset
            ELSE fl[i].suboffset + fl[i].size <= ch'.bytesRead + (IF cpc' = "compress" THEN toRead' ELSE 0)
      BY <1>2, <2>1, <2>5, <2>11 DEF ChunkInv, FileAt, GetCompressorClass, FactoryClass
    <3>13. /\ cpc' = "enter" =>
                /\ FileAt(file)'.compressed = ch'.compressed /\ FileAt(file)'.encrypted = ch'.encrypted
                /\ GetCompressorClass(FileAt(file))' = ch'.class
           /\ cpc' = "compress" =>
                InChunk(fl[file])' /\ fl[file].suboffset + fl[file].size = ch'.bytesRead + toRead'
                /\ toRead' <= fl[file].size
      BY <1>2, <2>1, <2>5, <2>11, <2>14 DEF ChunkInv, FileAt, GetCompressorClass, FactoryClass
    <3> QED
      BY <2>1, <2>14, <3>1, <3>3, <3>5, <3>8, <3>10, <3>11, <3>12, <3>13 DEF ChunkInv
  <2> QED
    BY <2>15, <2>16, <2>17, <2>18, <2>19, <2>20, <2>21 DEF CompilerInv, Layout
<1> QED
  BY <1>3, <1>4

LEMMA RightFromConcat ==
  ASSUME NEW es, NEW c, NEW class, NEW w, NEW n \in Nat,
         NEW S, NEW s \in Seq(S), NEW t \in Seq(S),
         RightFrom(es, c, class, w, n, s), RightFrom(es, c, class, w, n + Len(s), t)
  PROVE  RightFrom(es, c, class, w, n, s \o t)
<1>1. /\ Len(s \o t) = Len(s) + Len(t) /\ Len(s) \in Nat /\ Len(t) \in Nat
      /\ \A k \in 1..Len(s) : (s \o t)[k] = s[k]
      /\ \A k \in 1..Len(t) : (s \o t)[Len(s) + k] = t[k]
  BY ConcatBehind
<1> SUFFICES ASSUME NEW k \in 1..Len(s \o t)
             PROVE  Right(es, c, class, w, n + k, (s \o t)[k])
  BY DEF RightFrom
<1>2. CASE k <= Len(s)
  <2>1. k \in 1..Len(s)
    BY <1>1, <1>2
  <2>2. Right(es, c, class, w, n + k, s[k])
    BY <2>1 DEF RightFrom
  <2> QED
    BY <1>1, <2>1, <2>2
<1>3. CASE k > Len(s)
  <2> DEFINE j == k - Len(s)
  <2>1. j \in 1..Len(t) /\ k = Len(s) + j
    BY <1>1, <1>3
  <2>2. (s \o t)[k] = t[j]
    BY <1>1, <2>1
  <2>3. Right(es, c, class, w, (n + Len(s)) + j, t[j])
    BY <2>1 DEF RightFrom
  <2>4. (n + Len(s)) + j = n + k
    BY <1>1, <2>1
  <2> QED
    BY <2>2, <2>3, <2>4
<1> QED
  BY <1>1, <1>2, <1>3

LEMMA RightFromParts ==
  ASSUME NEW es, NEW c, NEW class, NEW w, NEW n \in Nat,
         NEW S, NEW s \in Seq(S), NEW k \in 0..Len(s), RightFrom(es, c, class, w, n, s)
  PROVE  /\ RightFrom(es, c, class, w, n, SubSeq(s, 1, k))
         /\ RightFrom(es, c, class, w, n + k, From(s, k))
         /\ SubSeq(s, 1, k) \in Seq(S) /\ From(s, k) \in Seq(S)
         /\ Len(SubSeq(s, 1, k)) = k /\ Len(From(s, k)) = Len(s) - k
<1> DEFINE p == SubSeq(s, 1, k)
           q == From(s, k)
<1>1. /\ Len(s) \in Nat /\ k \in Nat
      /\ p \in Seq(S) /\ Len(p) = k /\ \A i \in 1..k : p[i] = s[i]
      /\ q \in Seq(S) /\ Len(q) = Len(s) - k /\ \A i \in 1..(Len(s) - k) : q[i] = s[k + i]
  BY DEF From
<1> HIDE DEF p, q
<1>2. RightFrom(es, c, class, w, n, p)
  <2> SUFFICES ASSUME NEW i \in 1..Len(p) PROVE Right(es, c, class, w, n + i, p[i])
    BY DEF RightFrom
  <2>1. i \in 1..Len(s) /\ p[i] = s[i]
    BY <1>1
  <2> QED
    BY <2>1 DEF RightFrom
<1>3. RightFrom(es, c, class, w, n + k, q)
  <2> SUFFICES ASSUME NEW i \in 1..Len(q) PROVE Right(es, c, class, w, (n + k) + i, q[i])
    BY DEF RightFrom
  <2>1. k + i \in 1..Len(s) /\ q[i] = s[k + i] /\ (n + k) + i = n + (k + i)
    BY <1>1
  <2>2. Right(es, c, class, w, n + (k + i), s[k + i])
    BY <2>1 DEF RightFrom
  <2> QED
    BY <2>1, <2>2
<1> QED
  BY <1>1, <1>2, <1>3 DEF p, q

LEMMA RightFromFollows ==
  ASSUME NEW es, NEW upd, NEW c, NEW class, NEW v, NEW w, NEW m \in Nat, NEW n \in Nat,
         NEW S, NEW s \in Seq(S), n + Len(s) <= m, Follows(es, v, upd, w, c, m),
         RightFrom(es, c, class, v, n, s)
  PROVE  RightFrom(upd, c, class, w, n, s)
<1> SUFFICES ASSUME NEW k \in 1..Len(s) PROVE Right(upd, c, class, w, n + k, s[k])
  BY DEF RightFrom
<1>1. n + k \in 1..m
  OBVIOUS
<1>2. Right(es, c, class, v, n + k, s[k])
  BY DEF RightFrom
<1> QED
  BY <1>1, <1>2 DEF Right, Follows

LEMMA HoldsFollows ==
  ASSUME NEW on, NEW es, NEW upd, NEW c, NEW class, NEW v, NEW w, NEW n,
         Follows(es, v, upd, w, c, n), Holds(on, es, c, class, v, n)
  PROVE  Holds(on, upd, c, class, w, n)
<1>1. \A j \in 1..n : \A u : Stored(es, c, class, v, j, u) => Stored(upd, c, class, w, j, u)
  BY DEF Stored, Follows
<1> QED
  BY <1>1 DEF Holds

LEMMA RightFromSame ==
  ASSUME NEW c, NEW d, SameChunk(d, c), NEW es, NEW class, NEW w, NEW n, NEW s,
         RightFrom(es, c, class, w, n, s)
  PROVE  RightFrom(es, d, class, w, n, s)
<1>1. \A j, u : Stands(es, c, w, j, u) => Stands(es, d, w, j, u)
  BY DEF Stands, SameChunk
<1> QED
  BY <1>1 DEF RightFrom, Right

\* That the stream has ended is no less true of what is in it.
LEMMA EndedFollows ==
  ASSUME NEW es, NEW c, NEW n
  PROVE  Follows(es, FALSE, es, TRUE, c, n)
BY DEF Follows, Stands

LEMMA RightFromEmpty ==
  ASSUME NEW es, NEW c, NEW class, NEW w, NEW n
  PROVE  RightFrom(es, c, class, w, n, <<>>)
BY DEF RightFrom

LEMMA EndChunkKeeps ==
  ASSUME CompilerInv, EndChunk
  PROVE  CompilerInv'
<1>1. /\ cpc = "next" /\ ch.out = <<>> /\ ch.started /\ cpc' = "finalize"
      /\ ch' = [ch EXCEPT !.started = FALSE, !.pending = <<>>, !.out = ch.pending \o FinishStream]
      /\ UNCHANGED <<script, file, toRead, slices, fl>>
  BY DEF EndChunk, At
<1>2. CTypes /\ CControl /\ Sealed /\ Entries /\ Agree /\ FinishedInv /\ ChunkInv /\ Open
  BY <1>1 DEF CompilerInv, Layout, Open
<1>3. ch \in Handler /\ ch.pending \in Seq(StreamUnit) /\ ch.bytesWritten \in Nat
      /\ ch.bytesRead \in Nat /\ ch.class \in Codecs /\ ch.started = TRUE /\ (~ch.started) = FALSE
      /\ slices \in Seq(Slice) /\ Len(ch.pending) \in Nat /\ ch.startOffset \in Nat
  BY <1>1, <1>2 DEF CTypes, Handler
<1> DEFINE stream == FinishStream
           out == ch.pending \o stream
           m == ch.bytesWritten + Len(ch.pending)
<1>4. m = ch.bytesRead /\ RightFrom(fl, ch, ch.class, FALSE, ch.bytesWritten, ch.pending)
      /\ Holds(slices, fl, ch, ch.class, FALSE, ch.bytesWritten)
  <2>1. ch.bytesWritten + Len(ch.out) = ch.bytesWritten
    BY <1>1, <1>3
  <2>2. /\ RightFrom(fl, ch, ch.class, ~ch.started, ch.bytesWritten, ch.pending)
        /\ Holds(slices, fl, ch, ch.class, ~ch.started, ch.bytesWritten)
        /\ (ch.bytesWritten + Len(ch.out)) + Len(ch.pending) = ch.bytesRead
    BY <1>1, <1>2, <2>1 DEF ChunkInv
  <2> QED
    BY <1>3, <2>1, <2>2
<1>5. stream \in Seq(StreamUnit) /\ RightFrom(fl, ch, ch.class, TRUE, m, stream)
  <2>1. CASE ch.class = "stored"
    <3>1. stream = <<>>
      BY <2>1 DEF FinishStream
    <3> HIDE DEF stream
    <3>2. stream \in Seq(StreamUnit)
      BY <3>1
    <3>3. RightFrom(fl, ch, ch.class, TRUE, m, stream)
      BY <3>1, RightFromEmpty
    <3> QED
      BY <3>2, <3>3
  <2>2. CASE ch.class # "stored"
    <3> DEFINE v == [codec |-> ch.class, pos |-> ch.bytesRead + 1, unit |-> EndMark, key |-> NoKey]
    <3>1. stream = <<v>>
      BY <2>2 DEF FinishStream
    <3>2. v \in StreamUnit /\ v.unit = EndMark /\ EndMark \in Int \X Int
      BY <1>3 DEF StreamUnit, EndMark, NoKey
    <3>3. Stands(fl, ch, TRUE, ch.bytesRead + 1, EndMark)
      <4> SUFFICES ASSUME NEW i \in DOMAIN fl, SameChunk(fl[i], ch)
                   PROVE  /\ fl[i].suboffset + fl[i].size < ch.bytesRead + 1
                          /\ \A k \in 1..fl[i].size : fl[i].suboffset + k = ch.bytesRead + 1 => EndMark = <<i, k>>
        BY DEF Stands
      <4>1. InChunk(fl[i])
        BY DEF InChunk, SameChunk
      <4>2. fl[i].suboffset + fl[i].size <= ch.bytesRead + 0
        BY <1>1, <1>2, <4>1 DEF ChunkInv
      <4>3. fl[i] \in LocationEntry
        BY <1>2, ElementOfSeq DEF CTypes
      <4>4. fl[i].suboffset \in Nat /\ fl[i].size \in Nat
        BY <4>3 DEF LocationEntry
      <4> QED
        BY <1>3, <4>2, <4>4
    <3>4. Right(fl, ch, ch.class, TRUE, ch.bytesRead + 1, v)
      BY <3>2, <3>3 DEF Right
    <3> HIDE DEF v
    <3>5. stream \in Seq(StreamUnit) /\ Len(stream) = 1 /\ stream[1] = v
      BY <3>1, <3>2
    <3>6. \A k \in 1..Len(stream) : k = 1
      BY <3>5
    <3> QED
      BY <1>4, <3>4, <3>5, <3>6 DEF RightFrom
  <2> QED
    BY <2>1, <2>2
<1>6. RightFrom(fl, ch, ch.class, TRUE, ch.bytesWritten, ch.pending)
  <2>1. Follows(fl, FALSE, fl, TRUE, ch, m)
    BY EndedFollows
  <2>2. m \in Nat /\ ch.bytesWritten + Len(ch.pending) <= m
    BY <1>3
  <2> HIDE DEF m
  <2> QED
    BY <1>3, <1>4, <2>1, <2>2, RightFromFollows
<1>7. RightFrom(fl, ch, ch.class, TRUE, ch.bytesWritten, out) /\ out \in Seq(StreamUnit)
      /\ Len(out) \in Nat /\ Len(out) >= Len(ch.pending)
  <2> HIDE DEF stream
  <2>1. out \in Seq(StreamUnit) /\ Len(out) = Len(ch.pending) + Len(stream) /\ Len(stream) \in Nat
    BY <1>3, <1>5, ConcatProperties
  <2>2. RightFrom(fl, ch, ch.class, TRUE, ch.bytesWritten, out)
    BY <1>3, <1>5, <1>6, RightFromConcat
  <2> HIDE DEF out
  <2>3. Len(out) \in Nat /\ Len(out) >= Len(ch.pending)
    BY <1>3, <2>1
  <2> QED
    BY <2>1, <2>2, <2>3
<1>8. Holds(slices, fl, ch, ch.class, TRUE, ch.bytesWritten)
  BY <1>4, EndedFollows, HoldsFollows
<1> HIDE DEF out, stream, m
<1>9. /\ ch' \in Handler /\ ch'.started = FALSE /\ ch'.pending = <<>> /\ ch'.out = out
      /\ ch'.firstSlice = ch.firstSlice /\ ch'.startOffset = ch.startOffset
      /\ ch'.bytesRead = ch.bytesRead /\ ch'.bytesWritten = ch.bytesWritten
      /\ ch'.compressed = ch.compressed /\ ch'.encrypted = ch.encrypted /\ ch'.class = ch.class
  <2>1. ch' = [ch EXCEPT !.started = FALSE, !.pending = <<>>, !.out = out]
    BY <1>1 DEF out, stream
  <2>2. <<>> \in Seq(StreamUnit) /\ out \in Seq(StreamUnit)
    BY <1>7
  <2> QED
    BY <1>3, <2>1, <2>2 DEF Handler
<1>10. SameChunk(ch', ch) /\ (\A e : InChunk(e)' = InChunk(e)) /\ Open' /\ (~ch.started)' = TRUE
  BY <1>1, <1>9 DEF SameChunk, InChunk, Open
<1>11. CTypes'
  BY <1>1, <1>2, <1>9 DEF CTypes
<1>12. CControl'
  BY <1>1, <1>2, <1>9, <1>10 DEF CControl
<1>13. Sealed' /\ Entries' /\ Agree'
  BY <1>1, <1>2 DEF Sealed, Entries, Agree, FileAt, GetCompressorClass, FactoryClass
<1>14. FinishedInv'
  BY <1>1, <1>2, <1>3, <1>10, GrownSame, FinishedKept
<1>15. ChunkInv'
  <2>1. /\ Placed(slices, ch') /\ Holds(slices, fl, ch', ch.class, TRUE, ch.bytesWritten)
        /\ StartOf(slices, ch') = StartOf(slices, ch)
    BY <1>2, <1>8, <1>9, <1>10, ChunkSame DEF ChunkInv
  <2>2. EndsAt(slices, ch', ch.bytesWritten)
    BY <1>2, <2>1 DEF ChunkInv, EndsAt
  <2>3. RightFrom(fl, ch', ch.class, TRUE, ch.bytesWritten, out)
    BY <1>7, <1>10, RightFromSame
  <2>4. RightFrom(fl, ch', ch.class, TRUE, ch.bytesWritten + Len(out), <<>>)
    BY RightFromEmpty
  <2>5. ch.compressed \/ ch.class = "stored"
    BY <1>2 DEF ChunkInv
  <2>6. ch.bytesWritten + Len(out) >= ch.bytesRead
    BY <1>3, <1>4, <1>7 DEF m
  <2>7. \A i \in DOMAIN fl : InChunk(fl[i]) =>
         /\ fl[i].lastSlice = 0 /\ fl[i].compressedSize = 0
         /\ fl[i].compressed = ch.compressed /\ fl[i].encrypted = ch.encrypted
         /\ GetCompressorClass(FileAt(i))' = ch.class
         /\ fl[i].suboffset + fl[i].size <= ch.bytesRead + 0
    BY <1>1, <1>2 DEF ChunkInv, FileAt, GetCompressorClass, FactoryClass
  <2>8. /\ Placed(slices, ch)' /\ EndsAt(slices, ch, ch.bytesWritten)'
        /\ Holds(slices, fl, ch, ch.class, ~ch.started, ch.bytesWritten)'
        /\ RightFrom(fl, ch, ch.class, ~ch.started, ch.bytesWritten, ch.out)'
        /\ RightFrom(fl, ch, ch.class, ~ch.started, ch.bytesWritten + Len(ch.out), ch.pending)'
    BY <1>1, <1>9, <1>10, <2>1, <2>2, <2>3, <2>4
  <2> QED
    BY <1>1, <1>9, <1>10, <2>5, <2>6, <2>7, <2>8 DEF ChunkInv
<1> QED
  BY <1>11, <1>12, <1>13, <1>14, <1>15 DEF CompilerInv, Layout

LEMMA FinalizeChunkKeeps ==
  ASSUME CompilerInv, FinalizeChunk
  PROVE  CompilerInv'
<1>1. /\ cpc = "finalize" /\ ch.out = <<>> /\ cpc' = "next"
      /\ fl' = [i \in DOMAIN fl |->
                  IF InChunk(fl[i])
                  THEN [fl[i] EXCEPT !.lastSlice = CurSlice, !.compressedSize = ch.bytesWritten]
                  ELSE fl[i]]
      /\ UNCHANGED <<script, file, toRead, ch, slices>>
  BY DEF FinalizeChunk, At
<1>2. CTypes /\ CControl /\ Sealed /\ Entries /\ Agree /\ FinishedInv /\ ChunkInv /\ Open
  BY <1>1 DEF CompilerInv, Layout, Open
<1>3. ch \in Handler /\ ch.bytesWritten \in Nat /\ ch.bytesRead \in Nat /\ ch.started = FALSE
      /\ slices \in Seq(Slice) /\ Len(slices) \in Nat /\ Len(slices) > 0 /\ (~ch.started) = TRUE
      /\ ch.startOffset \in Nat /\ ch.firstSlice \in Nat
  <2>1. ch \in Handler /\ slices \in Seq(Slice) /\ Len(slices) > 0 /\ ~ch.started
    BY <1>1, <1>2 DEF CTypes, CControl
  <2>2. ch.bytesWritten \in Nat /\ ch.bytesRead \in Nat /\ ch.started \in BOOLEAN
        /\ ch.startOffset \in Nat /\ ch.firstSlice \in Nat
    BY <2>1 DEF Handler
  <2> QED
    BY <2>1, <2>2
<1>4. fl \in Seq(LocationEntry) /\ DOMAIN fl = 1..Len(fl) /\ Len(fl) \in Nat
  BY <1>2 DEF CTypes
<1>5. ASSUME NEW i \in DOMAIN fl
      PROVE  /\ fl[i] \in LocationEntry /\ fl'[i] \in LocationEntry
             /\ fl'[i].firstSlice = fl[i].firstSlice /\ fl'[i].startOffset = fl[i].startOffset
             /\ fl'[i].suboffset = fl[i].suboffset /\ fl'[i].size = fl[i].size
             /\ fl'[i].compressed = fl[i].compressed /\ fl'[i].encrypted = fl[i].encrypted
             /\ InChunk(fl[i]) => fl'[i].lastSlice = Len(slices) /\ fl'[i].compressedSize = ch.bytesWritten
             /\ ~InChunk(fl[i]) => fl'[i] = fl[i]
  <2>1. fl[i] \in LocationEntry
    BY <1>4, ElementOfSeq
  <2>2. CASE ~InChunk(fl[i])
    BY <1>1, <2>1, <2>2
  <2>3. CASE InChunk(fl[i])
    <3>1. fl'[i] = [fl[i] EXCEPT !.lastSlice = Len(slices), !.compressedSize = ch.bytesWritten]
      BY <1>1, <2>3 DEF CurSlice
    <3> QED
      BY <1>3, <2>1, <2>3, <3>1 DEF LocationEntry
  <2> QED
    BY <2>2, <2>3
<1>6. fl' \in Seq(LocationEntry) /\ Len(fl') = Len(fl) /\ DOMAIN fl' = DOMAIN fl
  <2>1. fl' \in [1..Len(fl) -> LocationEntry]
    BY <1>1, <1>4, <1>5
  <2> QED
    BY <1>4, <2>1, FunSeq
<1>7. ASSUME NEW c, NEW n
      PROVE  Follows(fl, TRUE, fl', TRUE, c, n)
  <2>1. \A i \in DOMAIN fl' : SameChunk(fl'[i], c) =>
          /\ i \in DOMAIN fl /\ SameChunk(fl[i], c)
          /\ fl[i].suboffset = fl'[i].suboffset /\ fl[i].size = fl'[i].size
    BY <1>5, <1>6 DEF SameChunk
  <2> QED
    BY <2>1, StandsSame
<1>8. ASSUME NEW i
      PROVE  GetCompressorClass(FileAt(i))' = GetCompressorClass(FileAt(i)) /\ FileAt(i)' = FileAt(i)
  BY <1>1 DEF GetCompressorClass, FactoryClass, FileAt
<1>9. CTypes'
  BY <1>1, <1>2, <1>6 DEF CTypes
<1>10. CControl' /\ ~Open'
  BY <1>1, <1>2, <1>3, <1>6 DEF CControl, Open
<1>11. Sealed'
  BY <1>1, <1>2 DEF Sealed
<1>12. Entries'
  <2>1. \A i \in DOMAIN fl : fl'[i].size = FileAt(i).size /\ fl'[i].compressed = FileAt(i).compressed
                             /\ fl'[i].encrypted = FileAt(i).encrypted
    BY <1>2, <1>5 DEF Entries
  <2>2. Len(fl') <= Len(script'.files)
    BY <1>1, <1>2, <1>6 DEF Entries
  <2> QED
    BY <1>6, <1>8, <2>1, <2>2 DEF Entries
<1>13. Agree'
  <2> SUFFICES ASSUME NEW i \in DOMAIN fl, NEW k \in DOMAIN fl, SameChunk(fl'[i], fl'[k])
               PROVE  /\ fl'[i].compressed = fl'[k].compressed /\ fl'[i].encrypted = fl'[k].encrypted
                      /\ fl'[i].lastSlice = fl'[k].lastSlice /\ fl'[i].compressedSize = fl'[k].compressedSize
                      /\ GetCompressorClass(FileAt(i)) = GetCompressorClass(FileAt(k))
    BY <1>6, <1>8 DEF Agree
  <2>1. SameChunk(fl[i], fl[k]) /\ (InChunk(fl[i]) <=> InChunk(fl[k]))
    BY <1>5 DEF SameChunk, InChunk
  <2>2. /\ fl[i].compressed = fl[k].compressed /\ fl[i].encrypted = fl[k].encrypted
        /\ fl[i].lastSlice = fl[k].lastSlice /\ fl[i].compressedSize = fl[k].compressedSize
        /\ GetCompressorClass(FileAt(i)) = GetCompressorClass(FileAt(k))
    BY <1>2, <2>1 DEF Agree
  <2>3. CASE InChunk(fl[i])
    BY <1>5, <2>1, <2>2, <2>3
  <2>4. CASE ~InChunk(fl[i])
    BY <1>5, <2>1, <2>2, <2>4
  <2> QED
    BY <2>3, <2>4
<1>14. FinishedInv'
  <2> SUFFICES ASSUME NEW i \in DOMAIN fl
               PROVE  Finished(slices, fl', fl'[i], GetCompressorClass(FileAt(i)))
    BY <1>1, <1>6, <1>8 DEF FinishedInv
  <2> DEFINE class == GetCompressorClass(FileAt(i))
  <2>1. CASE ~InChunk(fl[i])
    <3>1. Finished(slices, fl, fl[i], class) /\ fl'[i] = fl[i]
      BY <1>2, <1>5, <2>1 DEF FinishedInv
    <3> HIDE DEF class
    <3>2. Finished(slices, fl', fl[i], class)
      BY <1>3, <1>5, <1>7, <3>1, GrownSame, FinishedGrown
    <3> QED
      BY <3>1, <3>2 DEF class
  <2>2. CASE InChunk(fl[i])
    <3> DEFINE e == fl'[i]
    <3>0. /\ fl[i].compressed = ch.compressed /\ fl[i].encrypted = ch.encrypted
          /\ class = ch.class
          /\ IF cpc = "compress" /\ i < file THEN fl[i].suboffset + fl[i].size <= fl[file].suboffset
             ELSE fl[i].suboffset + fl[i].size
                    <= ch.bytesRead + (IF cpc = "compress" THEN toRead ELSE 0)
      BY <1>2, <2>2 DEF ChunkInv
    <3>1. SameChunk(e, ch) /\ e.encrypted = ch.encrypted /\ class = ch.class
          /\ fl[i].suboffset + fl[i].size <= ch.bytesRead + 0
      <4>1. /\ e.firstSlice = fl[i].firstSlice /\ e.startOffset = fl[i].startOffset
            /\ e.compressed = fl[i].compressed /\ e.encrypted = fl[i].encrypted
        BY <1>5
      <4>2. fl[i].suboffset + fl[i].size <= ch.bytesRead + 0
        BY <1>1, <3>0
      <4> HIDE DEF e, class
      <4>3. SameChunk(e, ch)
        BY <2>2, <3>0, <4>1 DEF InChunk, SameChunk
      <4> QED
        BY <3>0, <4>1, <4>2, <4>3
    <3>2. Placed(slices, ch) /\ EndsAt(slices, ch, ch.bytesWritten)
          /\ Holds(slices, fl, ch, ch.class, TRUE, ch.bytesWritten)
      BY <1>2, <1>3 DEF ChunkInv
    <3>3. Holds(slices, fl', ch, ch.class, TRUE, ch.bytesWritten)
      BY <1>7, <3>2, HoldsFollows
    <3>4. ch.bytesWritten + Len(ch.out) >= ch.bytesRead /\ Len(ch.out) = 0
      BY <1>1, <1>2, <1>3 DEF ChunkInv
    <3>5. /\ e.lastSlice = Len(slices) /\ e.compressedSize = ch.bytesWritten /\ e \in LocationEntry
          /\ e.suboffset = fl[i].suboffset /\ e.size = fl[i].size
      BY <1>5, <2>2
    <3>6. fl[i].suboffset \in Nat /\ fl[i].size \in Nat
      BY <1>5 DEF LocationEntry
    <3> HIDE DEF e
    <3>7. /\ Placed(slices, e) /\ StartOf(slices, e) = StartOf(slices, ch)
          /\ Holds(slices, fl', e, ch.class, TRUE, ch.bytesWritten)
      BY <3>1, <3>2, <3>3, ChunkSame
    <3>8. e.suboffset + e.size <= e.compressedSize
      BY <1>3, <3>1, <3>4, <3>5, <3>6
    <3>9. e.lastSlice \in e.firstSlice..Len(slices)
      <4>1. e.firstSlice = ch.firstSlice /\ ch.firstSlice \in DOMAIN slices
        BY <3>1, <3>2 DEF SameChunk, Placed
      <4> QED
        BY <1>3, <3>5, <4>1
    <3>10. StartOf(slices, e) + e.compressedSize <= Before(slices, e.lastSlice + 1)
      <4>1. StartOf(slices, ch) \in Nat
        BY <1>3, <3>2, StartType
      <4> QED
        BY <1>3, <3>2, <3>5, <3>7, <4>1 DEF EndsAt
    <3>11. Finished(slices, fl', e, ch.class)
      BY <3>5, <3>7, <3>8, <3>9, <3>10 DEF Finished
    <3> QED
      BY <3>1, <3>11 DEF e
  <2> QED
    BY <2>1, <2>2
<1>15. ChunkInv'
  BY <1>10 DEF ChunkInv
<1> QED
  BY <1>9, <1>10, <1>11, <1>12, <1>13, <1>14, <1>15 DEF CompilerInv, Layout

LEMMA NewChunkKeeps ==
  ASSUME CompilerInv, NewChunk
  PROVE  CompilerInv'
<1> DEFINE f == script.files[file]
           full == ch.left < 2
           on == IF full THEN NewSlice ELSE slices
           sent == <<ChunkId>>
           raises == CompressorRaises(GetCompressorClass(f))
<1>1. cpc = "next" /\ ch.out = <<>> /\ ~ch.started /\ file <= Len(script.files)
  <2>1. file \in Nat /\ Len(script.files) \in Nat
    BY ScriptHas DEF CompilerInv, CTypes
  <2> QED
    BY <2>1 DEF NewChunk, At, NoMoreFiles
<1>2. CTypes /\ CControl /\ Sealed /\ Entries /\ Agree /\ FinishedInv /\ ~Open
  BY <1>1 DEF CompilerInv, Layout, Open
<1>3. CASE full /\ ~script.spanning
  BY <1>3, AbortKeeps DEF NewChunk
<1>4. CASE ~(full /\ ~script.spanning)
  <2>1. /\ slices' = WriteTo(on, sent)
        /\ ch' = [left |-> (IF full THEN SliceSize ELSE ch.left) - 1,
                  started |-> ~raises,
                  firstSlice |-> Len(on), startOffset |-> Len(on[Len(on)].data),
                  bytesRead |-> 0, bytesWritten |-> 0,
                  compressed |-> f.compressed,
                  encrypted |-> IF raises THEN ch.encrypted ELSE f.encrypted,
                  class |-> IF raises THEN ch.class ELSE GetCompressorClass(f),
                  pending |-> <<>>, out |-> <<>>]
        /\ cpc' = IF raises THEN "aborted" ELSE "enter"
        /\ UNCHANGED <<script, file, toRead, fl>>
    BY <1>4 DEF NewChunk
  <2>2. ch \in Handler /\ ch.left \in Nat /\ slices \in Seq(Slice) /\ Len(slices) > 0 /\ Len(slices) \in Nat
    BY <1>2 DEF CTypes, Handler
  <2>3. sent \in Seq(Cell) /\ Len(sent) = 1 /\ sent[1] = ChunkId
    BY DEF Cell
  <2>4. on = slices \/ (script.spanning /\ on = NewSlice)
    BY <1>4
  <2> HIDE DEF on, sent
  <2>5. /\ slices' \in Seq(Slice) /\ Len(slices') = Len(on) /\ Len(on) \in Nat \ {0}
        /\ Len(on) >= Len(slices) /\ on \in Seq(Slice)
        /\ Grown(slices, slices')
        /\ slices'[Len(slices')].data = on[Len(on)].data \o sent
        /\ on[Len(on)].data \in Seq(Cell)
        /\ script.spanning /\ (\A s \in 1..(Len(slices) - 1) : slices[s].sealed) =>
             \A s \in 1..(Len(slices') - 1) : slices'[s].sealed
        /\ on = slices \/ (Len(on) = Len(slices) + 1 /\ on[Len(on)].data = <<>>)
    BY <2>1, <2>2, <2>3, <2>4, Extended
  <2> DEFINE d == on[Len(on)].data
             o == Len(d)
             z == Len(slices')
  <2>6. /\ d \in Seq(Cell) /\ o \in Nat /\ z \in Nat \ {0} /\ z = Len(on)
        /\ Len(slices'[z].data) = o + 1 /\ slices'[z].data[o + 1] = ChunkId
    <3> HIDE DEF d
    <3>0. d \in Seq(Cell)
      BY <2>5 DEF d
    <3>1. slices'[z].data = d \o sent
      BY <2>5 DEF d
    <3>2. sent \in Seq(Cell)
      BY <2>3
    <3>3. Len(d \o sent) = Len(d) + Len(sent)
      BY <3>0, <3>2, ConcatBehind
    <3>4. \A k \in 1..Len(sent) : (d \o sent)[Len(d) + k] = sent[k]
      BY <3>0, <3>2, ConcatBehind
    <3> QED
      BY <2>3, <2>5, <3>0, <3>1, <3>3, <3>4
  <2>7. FileAt(file) \in FileType /\ FileAt(file) = f /\ f.compressed \in BOOLEAN /\ f.encrypted \in BOOLEAN
        /\ GetCompressorClass(f) \in Codecs
    <3>1. file \in 1..Len(script.files)
      BY <1>1, <1>2, ScriptHas DEF CTypes
    <3> QED
      BY <1>2, <3>1, ScriptHas, ClassType DEF CTypes, FileAt
  <2> HIDE DEF f, raises
  <2>8. ch' \in Handler /\ ch'.firstSlice = z /\ ch'.startOffset = o
         /\ ch'.bytesRead = 0 /\ ch'.bytesWritten = 0 /\ ch'.compressed = f.compressed
         /\ ch'.pending = <<>> /\ ch'.out = <<>> /\ ch'.started = ~raises
         /\ (~raises => ch'.encrypted = f.encrypted /\ ch'.class = GetCompressorClass(f))
    <3> DEFINE left == (IF full THEN SliceSize ELSE ch.left) - 1
               encrypted == IF raises THEN ch.encrypted ELSE f.encrypted
               class == IF raises THEN ch.class ELSE GetCompressorClass(f)
               started == ~raises
    <3>1. <<>> \in Seq(StreamUnit)
      OBVIOUS
    <3>2. left \in Nat
      BY <2>2, SizeAssumption
    <3>3. ch' = [left |-> left, started |-> started, firstSlice |-> z, startOffset |-> o,
                 bytesRead |-> 0, bytesWritten |-> 0,
                 compressed |-> f.compressed, encrypted |-> encrypted,
                 class |-> class, pending |-> <<>>, out |-> <<>>]
      BY <2>1, <2>6
    <3>4. encrypted \in BOOLEAN /\ class \in Codecs
      BY <2>2, <2>7 DEF Handler
    <3>5. started \in BOOLEAN
      OBVIOUS
    <3>6. ~raises => encrypted = f.encrypted /\ class = GetCompressorClass(f)
      OBVIOUS
    <3> HIDE DEF left, encrypted, class, started, z, o
    <3>7. ch' \in Handler
      BY <2>6, <2>7, <3>1, <3>2, <3>3, <3>4, <3>5 DEF Handler
    <3>8. /\ ch'.firstSlice = z /\ ch'.startOffset = o
          /\ ch'.bytesRead = 0 /\ ch'.bytesWritten = 0 /\ ch'.compressed = f.compressed
          /\ ch'.encrypted = encrypted /\ ch'.class = class
          /\ ch'.pending = <<>> /\ ch'.out = <<>> /\ ch'.started = started
      BY <3>3
    <3> QED
      BY <3>6, <3>7, <3>8 DEF started
  <2>9. CTypes'
    BY <1>2, <2>1, <2>5, <2>8 DEF CTypes
  <2>10. CASE raises
    BY <2>1, <2>9, <2>10 DEF CompilerInv
  <2> SUFFICES ASSUME ~raises
               PROVE  CompilerInv'
    BY <2>10
  <2>11. /\ ch'.started = TRUE /\ ch'.firstSlice = z /\ ch'.startOffset = o
        /\ ch'.bytesRead = 0 /\ ch'.bytesWritten = 0 /\ ch'.compressed = f.compressed
        /\ ch'.encrypted = f.encrypted /\ ch'.class = GetCompressorClass(f)
        /\ ch'.pending = <<>> /\ ch'.out = <<>> /\ ch' \in Handler /\ cpc' = "enter"
    BY <2>1, <2>8
  <2>12. Open' /\ (~ch.started)' = FALSE
    BY <2>11 DEF Open
  <2>13. ASSUME NEW i \in DOMAIN fl
         PROVE  ~InChunk(fl[i])'
    <3>1. Finished(slices, fl, fl[i], GetCompressorClass(FileAt(i)))
      BY <1>2 DEF FinishedInv
    <3>2. fl[i].firstSlice \in DOMAIN slices /\ fl[i].startOffset < Len(slices[fl[i].firstSlice].data)
      BY <3>1 DEF Finished, Placed
    <3>3. fl[i] \in LocationEntry
      BY <1>2, ElementOfSeq DEF CTypes
    <3>4. fl[i].startOffset \in Nat
      BY <3>3 DEF LocationEntry
    <3> SUFFICES ASSUME fl[i].startOffset = o, fl[i].firstSlice = z PROVE FALSE
      BY <2>1, <2>11 DEF InChunk
    <3>5. CASE on = slices
      BY <2>6, <3>2, <3>5
    <3>6. CASE Len(on) = Len(slices) + 1
      BY <2>2, <2>6, <3>2, <3>6
    <3> QED
      BY <2>5, <3>5, <3>6
  <2>14. CControl'
    BY <1>1, <1>2, <2>1, <2>11, <2>12 DEF CControl
  <2>15. Sealed'
    <3>1. script.spanning => \A s \in 1..(Len(slices) - 1) : slices[s].sealed
      BY <1>2, <2>2 DEF Sealed
    <3>2. script.spanning => \A s \in 1..(Len(slices') - 1) : slices'[s].sealed
      BY <2>5, <3>1
    <3>3. \A s \in DOMAIN slices' : s < Len(slices') => s \in 1..(Len(slices') - 1)
      BY <2>5
    <3> QED
      BY <2>1, <3>2, <3>3 DEF Sealed
  <2>16. Entries' /\ Agree'
    BY <1>2, <2>1 DEF Entries, Agree, FileAt, GetCompressorClass, FactoryClass
  <2>17. FinishedInv'
    BY <1>2, <2>1, <2>5, FinishedKept
  <2>18. ChunkInv'
    <3>1. Placed(slices', ch')
      <4>1. z \in DOMAIN slices'
        BY <2>5, <2>6
      <4> QED
        BY <2>6, <2>11, <4>1 DEF Placed
    <3>2. EndsAt(slices', ch', 0)
      <4>1. z \in 1..Len(slices') /\ z \in 1..(Len(slices') + 1)
        BY <2>6
      <4>2. Before(slices', z + 1) = Before(slices', z) + Len(slices'[z].data) /\ Before(slices', z) \in Nat
        BY <2>5, <4>1, BeforeNext, BeforeType
      <4>3. StartOf(slices', ch') = Before(slices', z) + o + 1
        BY <2>11 DEF StartOf
      <4> QED
        BY <2>6, <4>2, <4>3 DEF EndsAt
    <3>3. Holds(slices', fl, ch', ch'.class, FALSE, 0)
      BY DEF Holds
    <3>4. /\ RightFrom(fl, ch', ch'.class, FALSE, 0, <<>>)
          /\ RightFrom(fl, ch', ch'.class, FALSE, 0 + Len(<<>>), <<>>)
      BY RightFromEmpty
    <3>5. /\ Placed(slices, ch)' /\ EndsAt(slices, ch, ch.bytesWritten)'
          /\ Holds(slices, fl, ch, ch.class, ~ch.started, ch.bytesWritten)'
          /\ RightFrom(fl, ch, ch.class, ~ch.started, ch.bytesWritten, ch.out)'
          /\ RightFrom(fl, ch, ch.class, ~ch.started, ch.bytesWritten + Len(ch.out), ch.pending)'
      BY <2>1, <2>11, <2>12, <3>1, <3>2, <3>3, <3>4
    <3>6. ch'.compressed \/ ch'.class = "stored"
      BY <2>11 DEF GetCompressorClass
    <3>7. Len(<<>>) = 0
      OBVIOUS
    <3>8. /\ FileAt(file)'.compressed = ch'.compressed /\ FileAt(file)'.encrypted = ch'.encrypted
          /\ GetCompressorClass(FileAt(file))' = ch'.class
      BY <2>1, <2>7, <2>11 DEF GetCompressorClass, FactoryClass, FileAt
    <3> QED
      BY <2>1, <2>11, <2>12, <2>13, <3>5, <3>6, <3>7, <3>8 DEF ChunkInv
  <2> QED
    BY <2>9, <2>14, <2>15, <2>16, <2>17, <2>18 DEF CompilerInv, Layout
<1> QED
  BY <1>3, <1>4

LEMMA AddFileKeeps ==
  ASSUME CompilerInv, AddFile
  PROVE  CompilerInv'
<1> DEFINE f == script.files[file]
           e == [firstSlice |-> ch.firstSlice, lastSlice |-> 0,
                 startOffset |-> ch.startOffset, suboffset |-> ch.bytesRead,
                 size |-> f.size, compressedSize |-> 0,
                 compressed |-> f.compressed, encrypted |-> f.encrypted]
           class == GetCompressorClass(f)
           n == Len(fl)
<1>1. /\ cpc \in {"enter", "next"} /\ ch.out = <<>> /\ cpc' = "compress"
      /\ fl' = Append(fl, e) /\ toRead' = f.size
      /\ UNCHANGED <<script, file, ch, slices>>
      /\ cpc = "enter" \/ (ch.started /\ ~NoMoreFiles /\ ~MustEndChunk)
  BY DEF AddFile, At
<1>2. CTypes /\ CControl /\ Sealed /\ Entries /\ Agree /\ FinishedInv /\ ChunkInv
  BY <1>1 DEF CompilerInv, Layout
<1>3. ch.started /\ Open /\ file <= Len(script.files)
  <2>1. file \in Nat /\ Len(script.files) \in Nat
    BY <1>2, ScriptHas DEF CTypes
  <2> QED
    BY <1>1, <1>2, <2>1 DEF CControl, Open, NoMoreFiles
<1>4. ch \in Handler /\ fl \in Seq(LocationEntry) /\ slices \in Seq(Slice) /\ Len(slices) > 0
  BY <1>2 DEF CTypes
<1>5. /\ ch.firstSlice \in Nat /\ ch.startOffset \in Nat /\ ch.bytesRead \in Nat
      /\ ch.bytesWritten \in Nat /\ ch.pending \in Seq(StreamUnit) /\ Len(ch.pending) \in Nat
      /\ ch.compressed \in BOOLEAN /\ ch.encrypted \in BOOLEAN /\ (~ch.started) = FALSE
  BY <1>3, <1>4 DEF Handler
<1>6. file \in 1..Len(script.files) /\ file = n + 1 /\ n \in Nat
  BY <1>1, <1>2, <1>3, <1>4, ScriptHas DEF CTypes, CControl
<1>7. /\ FileAt(file) = f /\ f \in FileType /\ f.size \in Nat
      /\ f.compressed \in BOOLEAN /\ f.encrypted \in BOOLEAN
  BY <1>2, <1>6, ScriptHas DEF FileAt, CTypes
<1>8. f.compressed = ch.compressed /\ f.encrypted = ch.encrypted /\ class = ch.class
  <2>1. CASE cpc = "enter"
    BY <1>2, <1>3, <1>7, <2>1 DEF ChunkInv
  <2>2. CASE ~MustEndChunk
    BY <1>2, <1>3, <1>7, <2>2 DEF MustEndChunk, ChunkInv, GetCompressorClass
  <2> QED
    BY <1>1, <2>1, <2>2
<1>9. /\ e \in LocationEntry /\ e.firstSlice = ch.firstSlice /\ e.startOffset = ch.startOffset
      /\ e.lastSlice = 0 /\ e.compressedSize = 0 /\ e.size = f.size /\ e.suboffset = ch.bytesRead
      /\ e.compressed = f.compressed /\ e.encrypted = f.encrypted
  BY <1>5, <1>7 DEF LocationEntry
<1> HIDE DEF e, f
<1>10. /\ fl' \in Seq(LocationEntry) /\ Len(fl') = n + 1 /\ fl'[n + 1] = e
       /\ \A i \in 1..n : fl'[i] = fl[i]
  <2>1. /\ fl' \in Seq(LocationEntry) /\ Len(fl') = Len(fl) + 1
        /\ \A i \in 1..Len(fl) : fl'[i] = fl[i]
        /\ fl'[Len(fl) + 1] = e
    BY <1>1, <1>4, <1>9, AppendProperties
  <2> QED
    BY <2>1
<1> HIDE DEF n
<1>11. DOMAIN fl = 1..n /\ DOMAIN fl' = 1..(n + 1)
  BY <1>4, <1>6, <1>10 DEF n
<1>12. \A i \in DOMAIN fl' : i = n + 1 \/ i \in DOMAIN fl
  BY <1>6, <1>11
<1>13. ASSUME NEW i
       PROVE  GetCompressorClass(FileAt(i))' = GetCompressorClass(FileAt(i)) /\ FileAt(i)' = FileAt(i)
  BY <1>1 DEF GetCompressorClass, FactoryClass, FileAt
<1>14. Open' /\ (\A c : InChunk(c)' = InChunk(c)) /\ InChunk(e)
  BY <1>1, <1>3, <1>9 DEF Open, InChunk
<1>15. \A i \in DOMAIN fl : InChunk(fl[i]) => fl[i].lastSlice = 0
  BY <1>2, <1>3 DEF ChunkInv
<1>16. ASSUME NEW i \in DOMAIN fl, Finished(slices, fl, fl[i], GetCompressorClass(FileAt(i)))
       PROVE  ~InChunk(fl[i])
  <2>1. fl[i].lastSlice \in fl[i].firstSlice..Len(slices) /\ fl[i].firstSlice \in DOMAIN slices
    BY <1>16 DEF Finished, Placed
  <2>2. fl[i].lastSlice # 0
    BY <1>4, <2>1
  <2> QED
    BY <1>15, <2>2
<1>17. CTypes'
  BY <1>1, <1>2, <1>7, <1>10 DEF CTypes
<1>18. CControl'
  BY <1>1, <1>2, <1>3, <1>6, <1>10, <1>14 DEF CControl, Open
<1>19. Sealed'
  BY <1>1, <1>2 DEF Sealed, CControl
<1>20. Entries'
  <2>1. \A i \in DOMAIN fl' : fl'[i].size = FileAt(i).size /\ fl'[i].compressed = FileAt(i).compressed
                              /\ fl'[i].encrypted = FileAt(i).encrypted
    BY <1>2, <1>6, <1>7, <1>9, <1>10, <1>11, <1>12 DEF Entries
  <2>2. Len(fl') <= Len(script'.files)
    BY <1>1, <1>3, <1>6, <1>10
  <2> QED
    BY <1>13, <2>1, <2>2 DEF Entries
<1>21. Agree'
  <2> SUFFICES ASSUME NEW i \in DOMAIN fl', NEW k \in DOMAIN fl', SameChunk(fl'[i], fl'[k])
               PROVE  /\ fl'[i].compressed = fl'[k].compressed /\ fl'[i].encrypted = fl'[k].encrypted
                      /\ fl'[i].lastSlice = fl'[k].lastSlice /\ fl'[i].compressedSize = fl'[k].compressedSize
                      /\ GetCompressorClass(FileAt(i)) = GetCompressorClass(FileAt(k))
    BY <1>13 DEF Agree
  <2>1. \A j \in DOMAIN fl' : InChunk(fl'[j]) =>
          /\ fl'[j].compressed = ch.compressed /\ fl'[j].encrypted = ch.encrypted
          /\ fl'[j].lastSlice = 0 /\ fl'[j].compressedSize = 0
          /\ GetCompressorClass(FileAt(j)) = ch.class
    BY <1>2, <1>3, <1>6, <1>7, <1>8, <1>9, <1>10, <1>11, <1>12 DEF ChunkInv
  <2>2. InChunk(fl'[i]) <=> InChunk(fl'[k])
    BY DEF SameChunk, InChunk
  <2>3. CASE InChunk(fl'[i])
    BY <2>1, <2>2, <2>3
  <2>4. CASE ~InChunk(fl'[i])
    <3>1. i \in DOMAIN fl /\ k \in DOMAIN fl /\ fl'[i] = fl[i] /\ fl'[k] = fl[k]
      BY <1>10, <1>11, <1>12, <1>14, <2>2, <2>4
    <3> QED
      BY <1>2, <3>1 DEF Agree
  <2> QED
    BY <2>3, <2>4
<1>22. FinishedInv'
  <2> SUFFICES ASSUME NEW i \in DOMAIN fl', ~InChunk(fl'[i])
               PROVE  Finished(slices, fl', fl'[i], GetCompressorClass(FileAt(i)))
    BY <1>1, <1>13, <1>14 DEF FinishedInv
  <2> DEFINE cl == GetCompressorClass(FileAt(i))
  <2>1. i \in DOMAIN fl /\ fl'[i] = fl[i]
    BY <1>10, <1>11, <1>12, <1>14
  <2>2. Finished(slices, fl, fl[i], cl) /\ fl[i] \in LocationEntry
    <3>1. ~InChunk(fl[i])
      BY <2>1
    <3>2. fl[i] \in LocationEntry
      BY <1>4, <2>1, ElementOfSeq
    <3> QED
      BY <1>2, <2>1, <3>1, <3>2 DEF FinishedInv
  <2>3. Follows(fl, TRUE, fl', TRUE, fl[i], fl[i].compressedSize)
    <3>1. \A j \in DOMAIN fl' : SameChunk(fl'[j], fl[i]) =>
            /\ j \in DOMAIN fl /\ SameChunk(fl[j], fl[i])
            /\ fl[j].suboffset = fl'[j].suboffset /\ fl[j].size = fl'[j].size
      <4> SUFFICES ASSUME NEW j \in DOMAIN fl', SameChunk(fl'[j], fl[i]) PROVE j \in DOMAIN fl
        BY <1>10, <1>11
      <4>1. ~InChunk(fl'[j])
        BY <2>1 DEF SameChunk, InChunk
      <4> QED
        BY <1>10, <1>12, <1>14, <4>1
    <3> QED
      BY <3>1, StandsSame
  <2> HIDE DEF cl
  <2>4. Finished(slices, fl', fl[i], cl)
    BY <1>4, <2>2, <2>3, GrownSame, FinishedGrown
  <2> QED
    BY <2>1, <2>4 DEF cl
<1>23. ChunkInv'
  <2>1. /\ Placed(slices, ch) /\ EndsAt(slices, ch, ch.bytesWritten)
        /\ ch.compressed \/ ch.class = "stored"
        /\ Holds(slices, fl, ch, ch.class, FALSE, ch.bytesWritten)
        /\ RightFrom(fl, ch, ch.class, FALSE, ch.bytesWritten + Len(ch.out), ch.pending)
        /\ ch.bytesWritten + Len(ch.out) + Len(ch.pending) = ch.bytesRead
    BY <1>2, <1>3, <1>5 DEF ChunkInv
  <2>2. ch.bytesWritten + Len(ch.out) = ch.bytesWritten
    BY <1>1, <1>5
  <2>3. Follows(fl, FALSE, fl', FALSE, ch, ch.bytesRead)
    <3> SUFFICES ASSUME NEW j \in 1..ch.bytesRead, NEW u, Stands(fl, ch, FALSE, j, u),
                        NEW i \in DOMAIN fl', SameChunk(fl'[i], ch)
                 PROVE  \A k \in 1..fl'[i].size : fl'[i].suboffset + k = j => u = <<i, k>>
      BY DEF Follows, Stands
    <3>1. CASE i \in DOMAIN fl
      <4>1. fl'[i] = fl[i]
        BY <1>10, <1>11, <3>1
      <4> QED
        BY <3>1, <4>1 DEF Stands
    <3>2. CASE i = n + 1
      <4>1. fl'[i].suboffset = ch.bytesRead /\ fl'[i].size \in Nat
        BY <1>7, <1>9, <1>10, <3>2
      <4> QED
        BY <1>5, <4>1
    <3> QED
      BY <1>12, <3>1, <3>2
  <2>4. Holds(slices, fl', ch, ch.class, FALSE, ch.bytesWritten)
    <3>1. 1..ch.bytesWritten \subseteq 1..ch.bytesRead
      BY <1>5, <2>1, <2>2
    <3>2. Follows(fl, FALSE, fl', FALSE, ch, ch.bytesWritten)
      BY <2>3, <3>1 DEF Follows
    <3> QED
      BY <2>1, <3>2, HoldsFollows
  <2>5. RightFrom(fl', ch, ch.class, FALSE, ch.bytesWritten + Len(ch.out), ch.pending)
    <3> DEFINE b == ch.bytesWritten + Len(ch.out)
    <3>1. b = ch.bytesWritten /\ b + Len(ch.pending) = ch.bytesRead
          /\ RightFrom(fl, ch, ch.class, FALSE, b, ch.pending)
      BY <2>1, <2>2
    <3> HIDE DEF b
    <3>2. b \in Nat /\ b + Len(ch.pending) <= ch.bytesRead
      BY <1>5, <3>1
    <3>3. RightFrom(fl', ch, ch.class, FALSE, b, ch.pending)
      BY <1>5, <2>3, <3>1, <3>2, RightFromFollows
    <3> QED
      BY <3>3 DEF b
  <2>6. RightFrom(fl', ch, ch.class, FALSE, ch.bytesWritten, ch.out)
    BY <1>1, RightFromEmpty
  <2>7. ASSUME NEW i \in DOMAIN fl', InChunk(fl'[i])
        PROVE  /\ fl'[i].lastSlice = 0 /\ fl'[i].compressedSize = 0
               /\ fl'[i].compressed = ch.compressed /\ fl'[i].encrypted = ch.encrypted
               /\ GetCompressorClass(FileAt(i)) = ch.class
               /\ i < file => fl'[i].suboffset + fl'[i].size <= fl'[file].suboffset
               /\ ~(i < file) => fl'[i].suboffset + fl'[i].size <= ch.bytesRead + toRead'
    <3>1. CASE i \in DOMAIN fl
      <4>1. fl'[i] = fl[i] /\ fl'[file] = e /\ i < file
        BY <1>6, <1>10, <1>11, <3>1
      <4>2. /\ fl[i].lastSlice = 0 /\ fl[i].compressedSize = 0
            /\ fl[i].compressed = ch.compressed /\ fl[i].encrypted = ch.encrypted
            /\ GetCompressorClass(FileAt(i)) = ch.class
            /\ fl[i].suboffset + fl[i].size <= ch.bytesRead + 0
        BY <1>1, <1>2, <1>3, <2>7, <3>1, <4>1 DEF ChunkInv
      <4> QED
        BY <1>5, <1>9, <4>1, <4>2
    <3>2. CASE i = n + 1
      <4>1. fl'[i] = e /\ i = file /\ ~(i < file)
        BY <1>6, <1>10, <3>2
      <4> QED
        BY <1>1, <1>5, <1>7, <1>8, <1>9, <4>1
    <3> QED
      BY <1>12, <3>1, <3>2
  <2>8. /\ InChunk(fl'[file]) /\ fl'[file].suboffset + fl'[file].size = ch.bytesRead + toRead'
        /\ toRead' <= fl'[file].size
    BY <1>1, <1>5, <1>6, <1>7, <1>9, <1>10, <1>14
  <2>9. /\ Placed(slices, ch)' /\ EndsAt(slices, ch, ch.bytesWritten)'
        /\ Holds(slices, fl, ch, ch.class, ~ch.started, ch.bytesWritten)'
        /\ RightFrom(fl, ch, ch.class, ~ch.started, ch.bytesWritten, ch.out)'
        /\ RightFrom(fl, ch, ch.class, ~ch.started, ch.bytesWritten + Len(ch.out), ch.pending)'
    BY <1>1, <1>5, <2>1, <2>4, <2>5, <2>6
  <2> QED
    BY <1>1, <1>3, <1>13, <1>14, <2>1, <2>7, <2>8, <2>9 DEF ChunkInv
<1> QED
  BY <1>17, <1>18, <1>19, <1>20, <1>21, <1>22, <1>23 DEF CompilerInv, Layout

LEMMA CompressFileKeeps ==
  ASSUME CompilerInv, CompressFile
  PROVE  CompilerInv'
<1> DEFINE n == Least(toRead, PieceSize)
           new == Encode(n)
           held == ch.pending \o new
<1>1. /\ cpc = "compress" /\ ch.out = <<>> /\ toRead > 0 /\ toRead' = toRead - n
      /\ UNCHANGED <<script, cpc, file, slices, fl>>
  BY DEF CompressFile, At
<1>2. PICK k \in 0..Len(held) :
        ch' = [ch EXCEPT !.bytesRead = @ + n, !.pending = From(held, k), !.out = SubSeq(held, 1, k)]
  BY DEF CompressFile
<1>3. CTypes /\ CControl /\ Sealed /\ Entries /\ Agree /\ FinishedInv /\ ChunkInv
  BY <1>1 DEF CompilerInv, Layout
<1>4. ch.started /\ Open /\ file <= Len(script.files)
  BY <1>1, <1>3 DEF CControl, Open
<1>5. ch \in Handler /\ fl \in Seq(LocationEntry) /\ slices \in Seq(Slice) /\ toRead \in Nat
      /\ file \in Nat \ {0} /\ Len(fl) = file
  BY <1>1, <1>3 DEF CTypes, CControl
<1>6. /\ ch.bytesRead \in Nat /\ ch.bytesWritten \in Nat /\ ch.class \in Codecs
      /\ ch.pending \in Seq(StreamUnit) /\ Len(ch.pending) \in Nat /\ (~ch.started) = FALSE
      /\ ch.startOffset \in Nat
  BY <1>4, <1>5 DEF Handler
<1>7. n \in Nat /\ n <= toRead /\ toRead - n \in Nat
  BY <1>5, SizeAssumption DEF Least
<1> DEFINE done == script.files[file].size - toRead
<1>8. /\ fl[file] \in LocationEntry /\ fl[file].size = script.files[file].size
      /\ fl[file].size \in Nat /\ fl[file].suboffset \in Nat
      /\ fl[file].suboffset + fl[file].size = ch.bytesRead + toRead /\ toRead <= fl[file].size
      /\ done \in Nat /\ fl[file].suboffset + done = ch.bytesRead
  <2>1. file \in DOMAIN fl
    BY <1>5
  <2>2. fl[file] \in LocationEntry
    BY <1>5, <2>1, ElementOfSeq
  <2>3. fl[file].size \in Nat /\ fl[file].suboffset \in Nat
    BY <2>2 DEF LocationEntry
  <2>4. fl[file].size = script.files[file].size
    BY <1>3, <2>1 DEF Entries, FileAt
  <2>5. fl[file].suboffset + fl[file].size = ch.bytesRead + toRead /\ toRead <= fl[file].size
    BY <1>1, <1>3, <1>4 DEF ChunkInv
  <2>6. done = fl[file].size - toRead
    BY <2>4
  <2> HIDE DEF done
  <2>7. done \in Nat /\ fl[file].suboffset + done = ch.bytesRead
    <3> DEFINE s == fl[file].size
               o == fl[file].suboffset
               r == ch.bytesRead
    <3>1. s \in Nat /\ o \in Nat /\ r \in Nat /\ o + s = r + toRead /\ toRead <= s /\ done = s - toRead
      BY <1>6, <2>3, <2>5, <2>6
    <3> HIDE DEF s, o, r
    <3>2. done \in Nat /\ o + done = r
      BY <1>5, <3>1
    <3> QED
      BY <3>2 DEF o, r
  <2> QED
    BY <2>2, <2>3, <2>4, <2>5, <2>7
<1>9. /\ new \in Seq(StreamUnit) /\ Len(new) = n
      /\ \A t \in 1..n : new[t] = [codec |-> ch.class, pos |-> ch.bytesRead + t,
                                   unit |-> <<file, done + t>>, key |-> NoKey]
  <2>1. new = [t \in 1..n |-> [codec |-> ch.class, pos |-> ch.bytesRead + t,
                               unit |-> <<file, done + t>>, key |-> NoKey]]
    BY DEF Encode
  <2> HIDE DEF new, done, n
  <2>2. ASSUME NEW t \in 1..n
        PROVE  [codec |-> ch.class, pos |-> ch.bytesRead + t,
                unit |-> <<file, done + t>>, key |-> NoKey] \in StreamUnit
    <3>1. t \in Nat /\ ch.bytesRead + t \in Nat /\ NoKey \in Seq(Int)
      BY <1>6, <1>7 DEF NoKey
    <3>2. file \in Int /\ done + t \in Int
      BY <1>5, <1>8, <3>1
    <3> QED
      BY <1>6, <3>1, <3>2 DEF StreamUnit
  <2>3. new \in [1..n -> StreamUnit]
    BY <2>1, <2>2
  <2>4. new \in Seq(StreamUnit) /\ Len(new) = n
    BY <1>7, <2>3, FunSeq
  <2> QED
    BY <2>1, <2>4
<1> HIDE DEF new, done, n
<1>10. RightFrom(fl, ch, ch.class, FALSE, ch.bytesRead, new)
  <2> SUFFICES ASSUME NEW t \in 1..n
               PROVE  Right(fl, ch, ch.class, FALSE, ch.bytesRead + t, new[t])
    BY <1>9 DEF RightFrom
  <2> DEFINE u == <<file, done + t>>
  <2>1. u \in Int \X Int /\ u # EndMark /\ t \in Nat /\ t > 0
    BY <1>5, <1>7, <1>8 DEF EndMark
  <2>2. ASSUME NEW i \in DOMAIN fl, SameChunk(fl[i], ch), NEW j \in 1..fl[i].size,
               fl[i].suboffset + j = ch.bytesRead + t
        PROVE  u = <<i, j>>
    <3>1. InChunk(fl[i]) /\ i \in 1..file /\ fl[i] \in LocationEntry
      BY <1>5, <2>2, ElementOfSeq DEF InChunk, SameChunk
    <3>2. fl[i].size \in Nat /\ fl[i].suboffset \in Nat
      BY <3>1 DEF LocationEntry
    <3>3. CASE i < file
      <4>1. fl[i].suboffset + fl[i].size <= fl[file].suboffset
        BY <1>1, <1>3, <1>4, <3>1, <3>3 DEF ChunkInv
      <4> DEFINE o == fl[i].suboffset
                 s == fl[i].size
                 p == fl[file].suboffset
                 r == ch.bytesRead
      <4>2. o \in Nat /\ s \in Nat /\ p \in Nat /\ r \in Nat /\ done \in Nat /\ p + done = r
            /\ o + s <= p /\ j \in 1..s /\ o + j = r + t
        BY <1>6, <1>8, <2>2, <3>2, <4>1
      <4> HIDE DEF o, s, p, r, u
      <4>3. FALSE
        BY <2>1, <4>2
      <4> QED
        BY <4>3
    <3>4. CASE i = file
      <4>1. j = done + t
        BY <1>8, <2>1, <2>2, <3>4
      <4> QED
        BY <3>4, <4>1
    <3> QED
      BY <1>5, <3>1, <3>3, <3>4
  <2>3. Stands(fl, ch, FALSE, ch.bytesRead + t, u)
    BY <2>1, <2>2 DEF Stands
  <2>4. new[t] = [codec |-> ch.class, pos |-> ch.bytesRead + t, unit |-> u, key |-> NoKey]
    BY <1>9
  <2> HIDE DEF u
  <2>5. new[t].unit = u
    BY <2>4
  <2> QED
    BY <2>1, <2>3, <2>4, <2>5 DEF Right
<1> DEFINE b == ch.bytesWritten
<1>11. /\ b + Len(ch.pending) = ch.bytesRead /\ RightFrom(fl, ch, ch.class, FALSE, b, ch.pending)
  <2>1. /\ RightFrom(fl, ch, ch.class, FALSE, b + Len(ch.out), ch.pending)
        /\ b + Len(ch.out) + Len(ch.pending) = ch.bytesRead
    BY <1>3, <1>4, <1>6 DEF ChunkInv
  <2>2. b + Len(ch.out) = b
    BY <1>1, <1>6
  <2> QED
    BY <2>1, <2>2
<1>12. /\ held \in Seq(StreamUnit) /\ Len(held) = Len(ch.pending) + n /\ Len(held) \in Nat
       /\ RightFrom(fl, ch, ch.class, FALSE, b, held)
  <2>1. held \in Seq(StreamUnit)
    BY <1>6, <1>9, ConcatProperties
  <2>2. Len(held) = Len(ch.pending) + n
    BY <1>6, <1>9, ConcatProperties
  <2>3. RightFrom(fl, ch, ch.class, FALSE, b + Len(ch.pending), new)
    BY <1>10, <1>11
  <2>4. RightFrom(fl, ch, ch.class, FALSE, b, held)
    BY <1>6, <1>9, <1>11, <2>3, RightFromConcat
  <2> HIDE DEF held
  <2>5. Len(held) \in Nat
    BY <2>1
  <2> QED
    BY <2>1, <2>2, <2>4, <2>5
<1> HIDE DEF held
<1> DEFINE out == SubSeq(held, 1, k)
           pending == From(held, k)
<1>13. /\ out \in Seq(StreamUnit) /\ pending \in Seq(StreamUnit)
       /\ Len(out) = k /\ Len(pending) = Len(held) - k
       /\ RightFrom(fl, ch, ch.class, FALSE, b, out)
       /\ RightFrom(fl, ch, ch.class, FALSE, b + k, pending)
  <2>1. b \in Nat
    BY <1>6
  <2> HIDE DEF b
  <2>2. RightFrom(fl, ch, ch.class, FALSE, b, out)
    BY <1>12, <2>1, RightFromParts
  <2>3. RightFrom(fl, ch, ch.class, FALSE, b + k, pending)
    BY <1>12, <2>1, RightFromParts
  <2>4. out \in Seq(StreamUnit) /\ Len(out) = k
    BY <1>12
  <2>5. pending \in Seq(StreamUnit) /\ Len(pending) = Len(held) - k
    BY <1>12 DEF From
  <2> QED
    BY <2>2, <2>3, <2>4, <2>5
<1>14. /\ ch' \in Handler /\ ch'.started = ch.started /\ ch'.firstSlice = ch.firstSlice
       /\ ch'.startOffset = ch.startOffset /\ ch'.bytesRead = ch.bytesRead + n
       /\ ch'.bytesWritten = ch.bytesWritten /\ ch'.compressed = ch.compressed
       /\ ch'.encrypted = ch.encrypted /\ ch'.class = ch.class
       /\ ch'.pending = pending /\ ch'.out = out
  <2>1. ch' = [ch EXCEPT !.bytesRead = @ + n, !.pending = pending, !.out = out]
    BY <1>2
  <2>2. out \in Seq(StreamUnit) /\ pending \in Seq(StreamUnit) /\ ch.bytesRead + n \in Nat
    BY <1>6, <1>7, <1>13
  <2> HIDE DEF out, pending
  <2> QED
    BY <1>5, <2>1, <2>2 DEF Handler
<1> HIDE DEF out, pending
<1>15. SameChunk(ch', ch) /\ ch'.encrypted = ch.encrypted /\ (\A e : InChunk(e)' = InChunk(e))
       /\ Open' /\ (~ch.started)' = FALSE
  BY <1>1, <1>4, <1>14 DEF SameChunk, InChunk, Open
<1>16. CTypes'
  BY <1>1, <1>3, <1>7, <1>14 DEF CTypes
<1>17. CControl'
  BY <1>1, <1>3, <1>4, <1>14, <1>15 DEF CControl
<1>18. Sealed' /\ Entries' /\ Agree'
  BY <1>1, <1>3 DEF Sealed, Entries, Agree, FileAt, GetCompressorClass, FactoryClass
<1>19. FinishedInv'
  BY <1>1, <1>3, <1>5, <1>15, GrownSame, FinishedKept
<1>20. ChunkInv'
  <2>1. /\ Placed(slices, ch) /\ EndsAt(slices, ch, ch.bytesWritten)
        /\ ch.compressed \/ ch.class = "stored"
        /\ Holds(slices, fl, ch, ch.class, FALSE, ch.bytesWritten)
    BY <1>3, <1>4, <1>6 DEF ChunkInv
  <2>2. /\ Placed(slices, ch') /\ Holds(slices, fl, ch', ch.class, FALSE, ch.bytesWritten)
        /\ StartOf(slices, ch') = StartOf(slices, ch)
    BY <1>15, <2>1, ChunkSame
  <2>3. EndsAt(slices, ch', ch.bytesWritten)
    BY <2>1, <2>2 DEF EndsAt
  <2>4. RightFrom(fl, ch', ch.class, FALSE, b, out)
    BY <1>13, <1>15, RightFromSame
  <2>5. RightFrom(fl, ch', ch.class, FALSE, b + Len(out), pending)
    BY <1>13, <1>15, RightFromSame
  <2>6. b + Len(out) + Len(pending) = ch.bytesRead + n
    <3> DEFINE p == Len(ch.pending)
               r == ch.bytesRead
               lh == Len(held)
               lo == Len(out)
               lp == Len(pending)
    <3>1. b \in Nat /\ p \in Nat /\ r \in Nat /\ n \in Nat /\ lh \in Nat /\ lo \in Nat
      BY <1>6, <1>7, <1>12, <1>13
    <3>2. b + p = r /\ lh = p + n /\ lp = lh - lo
      BY <1>11, <1>12, <1>13
    <3> HIDE DEF b, p, r, lh, lo, lp, n
    <3>3. b + lo + lp = r + n
      BY <3>1, <3>2
    <3> QED
      BY <3>3 DEF lo, lp, r
  <2>7. \A i \in DOMAIN fl : InChunk(fl[i]) =>
         /\ fl[i].lastSlice = 0 /\ fl[i].compressedSize = 0
         /\ fl[i].compressed = ch.compressed /\ fl[i].encrypted = ch.encrypted
         /\ GetCompressorClass(FileAt(i))' = ch.class
         /\ i < file => fl[i].suboffset + fl[i].size <= fl[file].suboffset
         /\ ~(i < file) => fl[i].suboffset + fl[i].size <= ch.bytesRead + toRead
    BY <1>1, <1>3, <1>4 DEF ChunkInv, FileAt, GetCompressorClass, FactoryClass
  <2>8. (ch.bytesRead + n) + (toRead - n) = ch.bytesRead + toRead
    BY <1>5, <1>6, <1>7
  <2>9. InChunk(fl[file])
    BY <1>1, <1>3, <1>4 DEF ChunkInv
  <2>10. toRead - n <= fl[file].size
    BY <1>5, <1>7, <1>8
  <2>11. /\ Placed(slices, ch)' /\ EndsAt(slices, ch, ch.bytesWritten)'
         /\ Holds(slices, fl, ch, ch.class, ~ch.started, ch.bytesWritten)'
         /\ RightFrom(fl, ch, ch.class, ~ch.started, ch.bytesWritten, ch.out)'
         /\ RightFrom(fl, ch, ch.class, ~ch.started, ch.bytesWritten + Len(ch.out), ch.pending)'
    BY <1>1, <1>14, <1>15, <2>2, <2>3, <2>4, <2>5
  <2>12. cpc' = "compress" /\ ch'.started
    BY <1>1, <1>4, <1>14
  <2>13. \A i \in DOMAIN fl' : InChunk(fl[i])' =>
         /\ fl'[i].lastSlice = 0 /\ fl'[i].compressedSize = 0
         /\ fl'[i].compressed = ch'.compressed /\ fl'[i].encrypted = ch'.encrypted
         /\ GetCompressorClass(FileAt(i))' = ch'.class
         /\ i < file' => fl'[i].suboffset + fl'[i].size <= fl'[file'].suboffset
         /\ ~(i < file') => fl'[i].suboffset + fl'[i].size <= ch'.bytesRead + toRead'
    BY <1>1, <1>14, <1>15, <2>7, <2>8
  <2>14. InChunk(fl[file])' /\ fl'[file'].suboffset + fl'[file'].size = ch'.bytesRead + toRead'
         /\ toRead' <= fl'[file'].size
    BY <1>1, <1>8, <1>14, <1>15, <2>8, <2>9, <2>10
  <2>15. ch'.compressed \/ ch'.class = "stored"
    BY <1>14, <2>1
  <2>16. ch'.bytesWritten + Len(ch'.out) + Len(ch'.pending) = ch'.bytesRead
    BY <1>14, <2>6
  <2> QED
    BY <2>11, <2>12, <2>13, <2>14, <2>15, <2>16 DEF ChunkInv
<1> QED
  BY <1>16, <1>17, <1>18, <1>19, <1>20 DEF CompilerInv, Layout

LEMMA NextFileKeeps ==
  ASSUME CompilerInv, NextFile
  PROVE  CompilerInv'
<1>1. /\ cpc = "compress" /\ ch.out = <<>> /\ toRead = 0 /\ file' = file + 1 /\ cpc' = "next"
      /\ UNCHANGED <<script, toRead, ch, slices, fl>>
  BY DEF NextFile, At
<1>2. CTypes /\ CControl /\ Sealed /\ Entries /\ Agree /\ FinishedInv /\ ChunkInv
  BY <1>1 DEF CompilerInv, Layout
<1>3. ch.started /\ Open /\ Open' /\ file <= Len(script.files) /\ file \in Nat \ {0} /\ Len(fl) = file
      /\ fl \in Seq(LocationEntry) /\ slices \in Seq(Slice) /\ ch \in Handler
  BY <1>1, <1>2 DEF CControl, Open, CTypes
<1>4. ASSUME NEW e PROVE InChunk(e)' = InChunk(e)
  BY <1>1 DEF InChunk
<1>5. CTypes'
  BY <1>1, <1>2, <1>3 DEF CTypes
<1>6. CControl'
  <2>1. Len(script.files) \in Nat
    BY <1>2, ScriptHas DEF CTypes
  <2> QED
    BY <1>1, <1>2, <1>3, <2>1 DEF CControl
<1>7. Sealed' /\ Entries' /\ Agree'
  BY <1>1, <1>2 DEF Sealed, Entries, Agree, FileAt, GetCompressorClass, FactoryClass
<1>8. FinishedInv'
  BY <1>1, <1>2, <1>3, <1>4, GrownSame, FinishedKept
<1>9. ChunkInv'
  <2>1. ASSUME NEW i \in DOMAIN fl, InChunk(fl[i])
        PROVE  fl[i].suboffset + fl[i].size <= ch.bytesRead + 0
    <3>1. fl[i] \in LocationEntry /\ fl[file] \in LocationEntry /\ i \in 1..file
      BY <1>3, ElementOfSeq
    <3>2. /\ fl[i].suboffset \in Nat /\ fl[i].size \in Nat /\ fl[file].suboffset \in Nat
          /\ fl[file].size \in Nat /\ ch.bytesRead \in Nat
      BY <1>3, <3>1 DEF LocationEntry, Handler
    <3>3. fl[file].suboffset + fl[file].size = ch.bytesRead + 0
      BY <1>1, <1>2, <1>3 DEF ChunkInv
    <3>4. CASE i < file
      <4>1. fl[i].suboffset + fl[i].size <= fl[file].suboffset
        BY <1>1, <1>2, <1>3, <2>1, <3>4 DEF ChunkInv
      <4> QED
        BY <3>2, <3>3, <4>1
    <3>5. CASE i = file
      BY <3>2, <3>3, <3>5
    <3> QED
      BY <1>3, <3>1, <3>4, <3>5
  <2>2. /\ Placed(slices, ch)' /\ EndsAt(slices, ch, ch.bytesWritten)'
        /\ Holds(slices, fl, ch, ch.class, ~ch.started, ch.bytesWritten)'
        /\ RightFrom(fl, ch, ch.class, ~ch.started, ch.bytesWritten, ch.out)'
        /\ RightFrom(fl, ch, ch.class, ~ch.started, ch.bytesWritten + Len(ch.out), ch.pending)'
    BY <1>1, <1>2, <1>3 DEF ChunkInv
  <2>3. /\ ch'.compressed \/ ch'.class = "stored"
        /\ ch'.started => ch'.bytesWritten + Len(ch'.out) + Len(ch'.pending) = ch'.bytesRead
        /\ ch'.started
    BY <1>1, <1>2, <1>3 DEF ChunkInv
  <2>4. \A i \in DOMAIN fl' : InChunk(fl[i])' =>
         /\ fl'[i].lastSlice = 0 /\ fl'[i].compressedSize = 0
         /\ fl'[i].compressed = ch'.compressed /\ fl'[i].encrypted = ch'.encrypted
         /\ GetCompressorClass(FileAt(i))' = ch'.class
         /\ fl'[i].suboffset + fl'[i].size <= ch'.bytesRead + 0
    BY <1>1, <1>2, <1>3, <1>4, <2>1 DEF ChunkInv, FileAt, GetCompressorClass, FactoryClass
  <2> QED
    BY <1>1, <2>2, <2>3, <2>4 DEF ChunkInv
<1> QED
  BY <1>5, <1>6, <1>7, <1>8, <1>9 DEF CompilerInv, Layout

LEMMA FinishKeeps ==
  ASSUME CompilerInv, Finish
  PROVE  CompilerInv'
<1>1. /\ cpc = "next" /\ ch.out = <<>> /\ NoMoreFiles /\ ~ch.started /\ slices' = EndSlice
      /\ cpc' = "compiled" /\ UNCHANGED <<script, file, toRead, ch, fl>>
  BY DEF Finish, At
<1>2. CTypes /\ CControl /\ Sealed /\ Entries /\ Agree /\ FinishedInv
  BY <1>1 DEF CompilerInv, Layout
<1>3. ~Open /\ ~Open' /\ slices \in Seq(Slice) /\ Len(slices) > 0 /\ Len(slices) \in Nat
  BY <1>1, <1>2 DEF Open, CTypes
<1>4. /\ slices' \in Seq(Slice) /\ Len(slices') = Len(slices)
      /\ \A s \in 1..Len(slices) :
           /\ slices'[s].data = slices[s].data
           /\ slices'[s].sealed = (s = Len(slices) \/ slices[s].sealed)
  BY <1>1, <1>3, EndSliceDoes
<1>5. Grown(slices, slices')
  <2>1. \A s \in 1..Len(slices) : Len(slices[s].data) \in Nat
    BY <1>3, SliceType
  <2> QED
    BY <1>3, <1>4, <2>1 DEF Grown
<1>6. CTypes'
  BY <1>1, <1>2, <1>3, <1>4 DEF CTypes
<1>7. CControl'
  BY <1>1, <1>2, <1>3 DEF CControl, NoMoreFiles
<1>8. Sealed'
  <2> SUFFICES ASSUME script.spanning, NEW s \in 1..Len(slices) PROVE slices'[s].sealed
    BY <1>1, <1>3, <1>4 DEF Sealed
  <2>1. s < Len(slices) => slices[s].sealed
    BY <1>2, <1>3 DEF Sealed
  <2> QED
    <3>1. CASE s = Len(slices)
      BY <1>4, <3>1
    <3>2. CASE s < Len(slices)
      BY <1>4, <2>1, <3>2
    <3> QED
      BY <1>3, <3>1, <3>2
<1>9. Entries' /\ Agree'
  BY <1>1, <1>2 DEF Entries, Agree, FileAt, GetCompressorClass, FactoryClass
<1>10. FinishedInv'
  BY <1>1, <1>2, <1>3, <1>4, <1>5, FinishedKept
<1>11. ChunkInv'
  BY <1>3 DEF ChunkInv
<1> QED
  BY <1>6, <1>7, <1>8, <1>9, <1>10, <1>11 DEF CompilerInv, Layout

LEMMA CompilerStarts ==
  ASSUME CInit
  PROVE  CompilerInv
<1>1. script \in Scripts /\ cpc = "next" /\ file = 1 /\ toRead = 0 /\ ~ch.started /\ ch.out = <<>>
      /\ slices = <<EmptySlice>> /\ fl = <<>>
  BY DEF CInit
<1>2. script.room \in Nat
  BY <1>1, ScriptHas DEF ScriptType
<1>3. ch \in Handler
  <2>1. <<>> \in Seq(StreamUnit)
    OBVIOUS
  <2> QED
    BY <1>2, <2>1 DEF CInit, Handler, Codecs
<1>4. slices \in Seq(Slice) /\ Len(slices) = 1
  BY <1>1, EmptySliceType
<1>5. CTypes
  BY <1>1, <1>3, <1>4 DEF CTypes
<1>6. ~Open
  BY <1>1 DEF Open
<1>7. Len(script.files) \in Nat
  BY <1>1, ScriptHas
<1>8. CControl
  BY <1>1, <1>6, <1>7 DEF CControl
<1>9. Sealed
  BY <1>1, <1>4 DEF Sealed
<1>10. Entries /\ Agree /\ FinishedInv
  BY <1>1, <1>7 DEF Entries, Agree, FinishedInv
<1> QED
  BY <1>5, <1>6, <1>8, <1>9, <1>10 DEF CompilerInv, Layout, ChunkInv

LEMMA CompilerKeeps ==
  ASSUME CompilerInv, CNext
  PROVE  CompilerInv'
BY WriteProcKeeps, EndChunkKeeps, FinalizeChunkKeeps, NewChunkKeeps, AddFileKeeps,
   CompressFileKeeps, NextFileKeeps, FinishKeeps DEF CNext

LEMMA CompilerStands ==
  ASSUME CompilerInv, UNCHANGED cVars
  PROVE  CompilerInv'
<1>1. script' = script /\ cpc' = cpc /\ file' = file /\ toRead' = toRead /\ ch' = ch
      /\ slices' = slices /\ fl' = fl
  BY DEF cVars
<1>2. CTypes => CTypes'
  BY <1>1 DEF CTypes
<1>3. CControl => CControl'
  BY <1>1 DEF CControl, Open
<1>4. Sealed => Sealed'
  BY <1>1 DEF Sealed
<1>5. Entries => Entries'
  BY <1>1 DEF Entries, FileAt
<1>6. Agree => Agree'
  BY <1>1 DEF Agree, FileAt, GetCompressorClass, FactoryClass
<1>7. FinishedInv => FinishedInv'
  BY <1>1 DEF FinishedInv, Open, InChunk, FileAt, GetCompressorClass, FactoryClass
<1>8. ChunkInv => ChunkInv'
  BY <1>1 DEF ChunkInv, Open, InChunk, FileAt, GetCompressorClass, FactoryClass
<1> QED
  BY <1>1, <1>2, <1>3, <1>4, <1>5, <1>6, <1>7, <1>8 DEF CompilerInv, Layout

\* When all is compiled the compiler has stopped.
LEMMA CompiledStops ==
  ASSUME CompilerInv, CNext
  PROVE  cpc # "compiled"
BY DEF CompilerInv, CControl, Open, CNext, WriteProc, EndChunk, FinalizeChunk, NewChunk, AddFile,
       CompressFile, NextFile, Finish, At
-----------------------------------------------------------------------------
(* What the extractor reads.                                               *)

\* An installation that has been compiled.
LEMMA Ready ==
  ASSUME CompilerInv, cpc = "compiled"
  PROVE  /\ CTypes /\ Entries /\ Agree /\ slices \in Seq(Slice) /\ Len(slices) \in Nat \ {0}
         /\ \A f \in DOMAIN fl : Finished(slices, fl, fl[f], Class(f))
         /\ \A s \in DOMAIN slices : Sound(s)
         /\ \A f \in DOMAIN fl : fl[f] \in LocationEntry /\ f \in 1..Len(script.files) /\ f \in Nat
<1>1. CTypes /\ CControl /\ Sealed /\ Entries /\ Agree /\ FinishedInv
  BY DEF CompilerInv, Layout
<1>2. ~Open
  BY <1>1 DEF CControl, Open
<1>3. fl \in Seq(LocationEntry) /\ slices \in Seq(Slice) /\ Len(slices) > 0
  BY <1>1 DEF CTypes
<1>4. \A f \in DOMAIN fl : Finished(slices, fl, fl[f], Class(f))
  BY <1>1, <1>2 DEF FinishedInv, Class
<1>5. \A s \in DOMAIN slices : Sound(s)
  BY <1>1 DEF Sealed, Sound
<1>6. \A f \in DOMAIN fl : fl[f] \in LocationEntry
  BY <1>3, ElementOfSeq
<1>7. Len(fl) <= Len(script.files) /\ Len(fl) \in Nat /\ Len(script.files) \in Nat /\ DOMAIN fl = 1..Len(fl)
  BY <1>1, <1>3, ScriptHas DEF Entries, CTypes
<1>8. \A f \in DOMAIN fl : f \in 1..Len(script.files) /\ f \in Nat
  BY <1>7
<1> QED
  BY <1>1, <1>3, <1>4, <1>5, <1>6, <1>8

\* A file's entry and the slices of its chunk.
LEMMA EntryHas ==
  ASSUME CompilerInv, cpc = "compiled", NEW f \in DOMAIN fl
  PROVE  /\ fl[f].firstSlice \in 1..Len(slices) /\ fl[f].lastSlice \in 1..Len(slices)
         /\ fl[f].firstSlice <= fl[f].lastSlice
         /\ fl[f].startOffset \in Nat /\ fl[f].suboffset \in Nat /\ fl[f].size \in Nat
         /\ fl[f].compressedSize \in Nat /\ fl[f].suboffset + fl[f].size <= fl[f].compressedSize
         /\ fl[f].compressed \in BOOLEAN /\ fl[f].encrypted \in BOOLEAN
         /\ fl[f].size = FileAt(f).size
         /\ Class(f) = IF fl[f].compressed THEN FactoryClass(FileAt(f)) ELSE "stored"
         /\ StartOf(slices, fl[f]) \in Nat
         /\ StartOf(slices, fl[f]) = Before(slices, fl[f].firstSlice) + fl[f].startOffset + 1
         /\ StartOf(slices, fl[f]) + fl[f].compressedSize <= Before(slices, fl[f].lastSlice + 1)
         /\ fl[f].startOffset < Len(slices[fl[f].firstSlice].data)
         /\ slices[fl[f].firstSlice].data[fl[f].startOffset + 1] = ChunkId
         /\ Holds(slices, fl, fl[f], Class(f), TRUE, fl[f].compressedSize)
<1> DEFINE e == fl[f]
<1>1. e \in LocationEntry /\ Finished(slices, fl, e, Class(f)) /\ Entries
      /\ slices \in Seq(Slice) /\ Len(slices) \in Nat
  BY Ready
<1>2. /\ e.startOffset \in Nat /\ e.suboffset \in Nat /\ e.size \in Nat /\ e.compressedSize \in Nat
      /\ e.compressed \in BOOLEAN /\ e.encrypted \in BOOLEAN /\ e.firstSlice \in Nat /\ e.lastSlice \in Nat
  BY <1>1 DEF LocationEntry
<1>3. /\ Placed(slices, e) /\ e.lastSlice \in e.firstSlice..Len(slices)
      /\ e.suboffset + e.size <= e.compressedSize
      /\ StartOf(slices, e) + e.compressedSize <= Before(slices, e.lastSlice + 1)
      /\ Holds(slices, fl, e, Class(f), TRUE, e.compressedSize)
  BY <1>1 DEF Finished
<1>4. e.firstSlice \in 1..Len(slices) /\ StartOf(slices, e) \in Nat
  BY <1>1, <1>2, <1>3, StartType
<1>5. e.size = FileAt(f).size /\ e.compressed = FileAt(f).compressed
  BY <1>1 DEF Entries
<1>6. Class(f) = IF e.compressed THEN FactoryClass(FileAt(f)) ELSE "stored"
  BY <1>5 DEF Class, GetCompressorClass
<1>7. e.startOffset < Len(slices[e.firstSlice].data) /\ slices[e.firstSlice].data[e.startOffset + 1] = ChunkId
  BY <1>3 DEF Placed
<1>8. e.lastSlice \in 1..Len(slices) /\ e.firstSlice <= e.lastSlice
  BY <1>1, <1>2, <1>3, <1>4
<1>9. StartOf(slices, e) = Before(slices, e.firstSlice) + e.startOffset + 1
  BY DEF StartOf
<1> HIDE DEF e
<1> QED
  BY <1>2, <1>3, <1>4, <1>5, <1>6, <1>7, <1>8, <1>9 DEF e

\* Where the extractor reads is in its chunk.
LEMMA OnPlaceHas ==
  ASSUME CompilerInv, cpc = "compiled", XTypes, NEW f \in DOMAIN fl, OnPlace(f)
  PROVE  /\ x.opened \in 1..Len(slices) /\ x.pos \in Nat /\ Len(slices[x.opened].data) \in Nat
         /\ x.pos <= Len(slices[x.opened].data)
         /\ Rest(fl[f]) \in Nat /\ Rest(fl[f]) + x.bytesLeft = fl[f].compressedSize
         /\ x.bytesLeft \in Nat /\ x.read \in Nat
         /\ x.firstSlice = fl[f].firstSlice /\ x.startOffset = fl[f].startOffset
         /\ x.firstSlice # 0 /\ x.lastSlice = fl[f].lastSlice
         /\ x.compressed = fl[f].compressed /\ x.encrypted = fl[f].encrypted
         /\ x.compressed \in BOOLEAN /\ x.encrypted \in BOOLEAN
         /\ Before(slices, x.opened) \in Nat
         /\ Before(slices, x.opened) + x.pos = StartOf(slices, fl[f]) + Rest(fl[f])
         /\ x.encrypted => x.crypt = <<fl[f].firstSlice, fl[f].startOffset, Rest(fl[f])>>
<1> DEFINE e == fl[f]
<1>1. /\ e.firstSlice \in 1..Len(slices) /\ e.lastSlice \in 1..Len(slices)
      /\ e.compressedSize \in Nat
  BY EntryHas
<1>2. x \in Reader
  BY DEF XTypes
<1>3. /\ x.opened \in Nat /\ x.pos \in Nat /\ x.bytesLeft \in Nat /\ x.read \in Nat
      /\ x.compressed \in BOOLEAN /\ x.encrypted \in BOOLEAN
  BY <1>2 DEF Reader
<1>4. /\ SameChunk(x, e) /\ x.lastSlice = e.lastSlice
      /\ x.compressed = e.compressed /\ x.encrypted = e.encrypted
      /\ x.bytesLeft <= e.compressedSize
      /\ x.opened \in e.firstSlice..e.lastSlice /\ x.pos <= Len(slices[x.opened].data)
      /\ Before(slices, x.opened) + x.pos = StartOf(slices, e) + Rest(e)
      /\ x.encrypted => x.crypt = <<e.firstSlice, e.startOffset, Rest(e)>>
  BY DEF OnPlace
<1>5. slices \in Seq(Slice) /\ Len(slices) \in Nat
  BY Ready
<1> HIDE DEF e
<1>6. x.opened \in 1..Len(slices) /\ x.opened \in 1..(Len(slices) + 1)
  BY <1>1, <1>3, <1>4, <1>5
<1>7. Len(slices[x.opened].data) \in Nat /\ Before(slices, x.opened) \in Nat
  BY <1>5, <1>6, SliceType, BeforeType
<1>8. Rest(e) \in Nat /\ Rest(e) + x.bytesLeft = e.compressedSize
  BY <1>1, <1>3, <1>4 DEF Rest
<1>9. x.firstSlice = e.firstSlice /\ x.startOffset = e.startOffset /\ x.firstSlice # 0
  BY <1>1, <1>4 DEF SameChunk
<1> QED
  BY <1>3, <1>4, <1>6, <1>7, <1>8, <1>9 DEF e

\* To be in step with an entry is to be so with every entry of its chunk.
LEMMA InStepAgrees ==
  ASSUME CompilerInv, cpc = "compiled", NEW f \in DOMAIN fl, NEW g \in DOMAIN fl,
         SameChunk(fl[g], fl[f]), InStep(f)
  PROVE  InStep(g)
<1> DEFINE e == fl[f]
           d == fl[g]
<1>1. Agree
  BY Ready
<1>2. /\ d.compressed = e.compressed /\ d.encrypted = e.encrypted
      /\ d.lastSlice = e.lastSlice /\ d.compressedSize = e.compressedSize
      /\ Class(g) = Class(f)
  BY <1>1 DEF Agree, Class
<1>3. d.firstSlice = e.firstSlice /\ d.startOffset = e.startOffset
  BY DEF SameChunk
<1>4. StartOf(slices, d) = StartOf(slices, e) /\ Rest(d) = Rest(e)
  BY <1>2, <1>3 DEF StartOf, Rest
<1>5. OnPlace(g)
  BY <1>2, <1>3, <1>4 DEF InStep, OnPlace, SameChunk
<1>6. InOrder(g)
  <2>1. ASSUME NEW s, RightFrom(fl, e, Class(f), TRUE, Decoder.next - 1, s)
        PROVE  RightFrom(fl, d, Class(g), TRUE, Decoder.next - 1, s)
    BY <1>2, <2>1, RightFromSame
  <2> QED
    BY <1>4, <2>1 DEF InStep, InOrder
<1> QED
  BY <1>5, <1>6 DEF InStep

LEMMA GarbledType == Garbled \in ReadUnit
BY DEF Garbled, ReadUnit, NoKey

Opened(c, v) == IF c.encrypted THEN [v EXCEPT !.key = NoKey] ELSE v

\* A unit that is stored comes out of Decrypt as it was before Encrypt.
LEMMA DecryptedRight ==
  ASSUME NEW es, NEW c, NEW class \in Codecs, NEW w, NEW j \in Nat, NEW v,
         Stored(es, c, class, w, j, v), c.encrypted \in BOOLEAN
  PROVE  /\ Right(es, c, class, w, j, Opened(c, v))
         /\ Opened(c, v) \in ReadUnit
         /\ c.encrypted => v.key = <<c.firstSlice, c.startOffset, j>>
<1> DEFINE u == Opened(c, v)
<1>1. /\ v.unit \in Int \X Int /\ Stands(es, c, w, j, v.unit)
      /\ v = [codec |-> class, pos |-> j, unit |-> v.unit,
              key |-> IF c.encrypted THEN <<c.firstSlice, c.startOffset, j>> ELSE NoKey]
  BY DEF Stored
<1> DEFINE a == v.unit
           r == [codec |-> class, pos |-> j, unit |-> a, key |-> NoKey]
<1>2. u = r
  <2> HIDE DEF a
  <2>1. v = [codec |-> class, pos |-> j, unit |-> a,
             key |-> IF c.encrypted THEN <<c.firstSlice, c.startOffset, j>> ELSE NoKey]
    BY <1>1 DEF a
  <2>2. CASE c.encrypted
    BY <2>1, <2>2 DEF Opened
  <2>3. CASE ~c.encrypted
    BY <2>1, <2>3 DEF Opened
  <2> QED
    BY <2>2, <2>3
<1>3. c.encrypted => v.key = <<c.firstSlice, c.startOffset, j>>
  BY <1>1
<1> HIDE DEF a, u
<1>4. u.unit = a /\ a \in Int \X Int /\ Stands(es, c, w, j, a)
  BY <1>1, <1>2 DEF a
<1>5. u \in ReadUnit
  <2>1. <<>> \in Seq(Int)
    OBVIOUS
  <2> QED
    BY <1>2, <1>4, <2>1 DEF ReadUnit, NoKey
<1>6. Right(es, c, class, w, j, u)
  BY <1>2, <1>4 DEF Right
<1> QED
  BY <1>3, <1>5, <1>6 DEF u

LEMMA ReceivedDoes ==
  ASSUME CompilerInv, cpc = "compiled", XTypes, NEW f \in DOMAIN fl, OnPlace(f),
         NEW n \in Nat, n <= x.bytesLeft, n <= Len(slices[x.opened].data) - x.pos
  PROVE  /\ Received(n) \in Seq(ReadUnit) /\ Len(Received(n)) = n
         /\ RightFrom(fl, fl[f], Class(f), TRUE, Rest(fl[f]), Received(n))
<1> DEFINE e == fl[f]
           r == Rest(e)
           s == x.opened
           data == slices[s].data
           cells == [k \in 1..n |-> data[x.pos + k]]
<1>1. /\ s \in DOMAIN slices /\ x.pos \in Nat /\ Len(data) \in Nat /\ r \in Nat
      /\ r + x.bytesLeft = e.compressedSize /\ x.bytesLeft \in Nat
      /\ x.encrypted = e.encrypted /\ x.encrypted \in BOOLEAN /\ Before(slices, s) \in Nat
      /\ Before(slices, s) + x.pos = StartOf(slices, e) + r
      /\ x.encrypted => x.crypt = <<e.firstSlice, e.startOffset, r>>
  <2>1. slices \in Seq(Slice)
    BY Ready
  <2> QED
    BY <2>1, OnPlaceHas
<1>2. /\ StartOf(slices, e) \in Nat /\ Holds(slices, fl, e, Class(f), TRUE, e.compressedSize)
      /\ e.firstSlice \in Nat /\ e.startOffset \in Nat /\ e.compressedSize \in Nat
  <2>1. e.firstSlice \in 1..Len(slices) /\ e.startOffset \in Nat /\ e.compressedSize \in Nat
    BY EntryHas
  <2>3. Len(slices) \in Nat
    BY Ready
  <2>2. StartOf(slices, e) \in Nat /\ Holds(slices, fl, e, Class(f), TRUE, e.compressedSize)
    BY EntryHas
  <2> HIDE DEF e
  <2>4. e.firstSlice \in Nat
    BY <2>1, <2>3
  <2> QED
    BY <2>1, <2>2, <2>4
<1>3. Class(f) \in Codecs
  BY Ready, ScriptHas, ClassType DEF Class, CTypes
<1>4. DOMAIN cells = 1..n /\ \A k \in 1..n : cells[k] = data[x.pos + k]
  OBVIOUS
<1>5. Received(n) = Decrypt(cells)
  BY DEF Received
<1> HIDE DEF cells, r, e
<1>6. ASSUME NEW k \in 1..n
      PROVE  Stored(fl, e, Class(f), TRUE, r + k, cells[k])
  <2> DEFINE p == x.pos + k
             b == Before(slices, s)
             a == StartOf(slices, e)
             l == Len(data)
  <2>1. p \in 1..l
    <3> DEFINE q == x.pos
    <3>1. q \in Nat /\ l \in Nat /\ p = q + k
      BY <1>1
    <3>2. n <= l - q
      OBVIOUS
    <3> HIDE DEF q, l, p
    <3> QED
      BY <3>1, <3>2
  <2>2. b + p - a = r + k /\ r + k \in 1..e.compressedSize
    <3> DEFINE q == x.pos
               z == e.compressedSize
               m == x.bytesLeft
    <3>1. b \in Nat /\ a \in Nat /\ q \in Nat /\ b + q = a + r /\ p = q + k /\ r \in Nat
      BY <1>1, <1>2
    <3>2. k \in Nat /\ k >= 1 /\ k <= n
      OBVIOUS
    <3>0. r + m = z /\ m \in Nat /\ z \in Nat /\ n <= m
      BY <1>1, <1>2
    <3> HIDE DEF b, a, q, p, l, z, m
    <3>3. b + p - a = r + k
      BY <3>1, <3>2
    <3>4. r + k \in 1..z
      BY <3>0, <3>1, <3>2
    <3> QED
      BY <3>3, <3>4 DEF z
  <2>3. Stored(fl, e, Class(f), TRUE, b + p - a, data[p])
    BY <1>1, <1>2, <2>1, <2>2 DEF Holds
  <2> QED
    BY <1>4, <2>2, <2>3
<1>7. ASSUME NEW k \in 1..n
      PROVE  /\ Received(n)[k] \in ReadUnit
             /\ Right(fl, e, Class(f), TRUE, r + k, Received(n)[k])
  <2> DEFINE u == Opened(e, cells[k])
  <2>1. /\ Right(fl, e, Class(f), TRUE, r + k, u) /\ u \in ReadUnit
        /\ e.encrypted => cells[k].key = <<e.firstSlice, e.startOffset, r + k>>
    <3> DEFINE j == r + k
               v == cells[k]
               class == Class(f)
    <3>0. r \in Nat /\ k \in Nat
      BY <1>1
    <3>1. j \in Nat
      BY <3>0
    <3>5. e.encrypted \in BOOLEAN
      BY <1>1
    <3>6. Stored(fl, e, class, TRUE, j, v) /\ class \in Codecs
      BY <1>3, <1>6
    <3> HIDE DEF j, v, class
    <3>2. Right(fl, e, class, TRUE, j, Opened(e, v))
      BY <3>1, <3>5, <3>6, DecryptedRight
    <3>3. Opened(e, v) \in ReadUnit
      BY <3>1, <3>5, <3>6, DecryptedRight
    <3>4. e.encrypted => v.key = <<e.firstSlice, e.startOffset, j>>
      BY <3>1, <3>5, <3>6, DecryptedRight
    <3> QED
      BY <3>2, <3>3, <3>4 DEF j, v, class
  <2>2. Received(n)[k] = u
    <3>1. CASE ~x.encrypted
      BY <1>1, <1>5, <3>1 DEF Decrypt, Opened
    <3>2. CASE x.encrypted
      <4>1. x.crypt[1] = e.firstSlice /\ x.crypt[2] = e.startOffset /\ x.crypt[3] = r
        BY <1>1, <3>2
      <4>2. Received(n)[k] = IF cells[k].key = <<x.crypt[1], x.crypt[2], x.crypt[3] + k>>
                             THEN [cells[k] EXCEPT !.key = NoKey] ELSE Garbled
        BY <1>4, <1>5, <3>2 DEF Decrypt
      <4> QED
        BY <1>1, <2>1, <3>2, <4>1, <4>2 DEF Opened
    <3> QED
      BY <1>1, <3>1, <3>2
  <2> QED
    BY <2>1, <2>2
<1>8. Received(n) \in Seq(ReadUnit) /\ Len(Received(n)) = n
  <2>1. Received(n) \in [1..n -> ReadUnit]
    <3>1. DOMAIN Received(n) = 1..n /\ Received(n) = [k \in 1..n |-> Received(n)[k]]
      BY <1>4, <1>5 DEF Decrypt, cells
    <3> QED
      BY <1>7, <3>1
  <2> QED
    BY <2>1, FunSeq
<1>9. RightFrom(fl, e, Class(f), TRUE, r, Received(n))
  BY <1>7, <1>8 DEF RightFrom
<1> QED
  BY <1>8, <1>9 DEF e, r
-----------------------------------------------------------------------------
(* The extractor keeps its invariant.                                      *)

\* The fields of the extractor.
LEMMA XFields ==
  ASSUME XTypes
  PROVE  /\ x \in Reader /\ x.opened \in Nat /\ x.pos \in Nat /\ x.firstSlice \in Nat
         /\ x.lastSlice \in Nat /\ x.startOffset \in Nat /\ x.bytesLeft \in Nat /\ x.read \in Nat
         /\ x.needReset \in BOOLEAN /\ x.compressed \in BOOLEAN /\ x.encrypted \in BOOLEAN
         /\ x.crypt \in Seq(Int)
         /\ dec \in [BOOLEAN -> Decompressor] /\ Decoder \in Decompressor
         /\ Decoder.buf \in Seq(ReadUnit) /\ Len(Decoder.buf) \in Nat /\ Decoder.next \in Nat \ {0}
<1>1. x \in Reader /\ dec \in [BOOLEAN -> Decompressor]
  BY DEF XTypes
<1>2. x.compressed \in BOOLEAN
  BY <1>1 DEF Reader
<1>3. Decoder \in Decompressor
  BY <1>1, <1>2 DEF Decoder
<1>4. Decoder.buf \in Seq(ReadUnit) /\ Decoder.next \in Nat \ {0}
  BY <1>3 DEF Decompressor
<1>5. Len(Decoder.buf) \in Nat
  BY <1>4
<1> QED
  BY <1>1, <1>2, <1>3, <1>4, <1>5 DEF Reader

\* The fields of a call.
LEMMA CallFields ==
  ASSUME XTypes
  PROVE  /\ call \in Call /\ call.pc \in {"idle", "restart", "seek", "loop", "decode", "read"}
         /\ call.file \in Nat /\ call.purpose \in {"discard", "extract"} /\ call.verify \in BOOLEAN
         /\ call.left \in Nat /\ call.size \in Nat /\ call.want \in Nat /\ call.toRead \in Nat
         /\ call.inbuf \in Seq(ReadUnit) /\ Len(call.inbuf) \in Nat
         /\ call.out \in Seq(Int \X Int) /\ Len(call.out) \in Nat
         /\ call.outcome \in {"none", "ok", "refused", "ioerror", "corrupted", "cancelled", "internal"}
         /\ call.cause \subseteq {"refused", "ioerror", "corrupted", "cancelled", "nokey", "damaged"}
<1>1. call \in Call
  BY DEF XTypes
<1>2. call.inbuf \in Seq(ReadUnit) /\ call.out \in Seq(Int \X Int)
  BY <1>1 DEF Call
<1>3. Len(call.inbuf) \in Nat /\ Len(call.out) \in Nat
  BY <1>2
<1> QED
  BY <1>1, <1>2, <1>3 DEF Call

\* While a call is under way.
LEMMA Reading ==
  ASSUME CompilerInv, ExtractorInv, call.pc # "idle"
  PROVE  /\ cpc = "compiled" /\ call.file \in DOMAIN fl /\ DecoderLoaded /\ call.outcome = "none"
         /\ call.pc \in {"seek", "loop", "decode", "read"} =>
              InStep(call.file) /\ OnPlace(call.file) /\ InOrder(call.file) /\ ~x.needReset
BY DEF ExtractorInv, Progress, XInStep, InStep

\* Nothing of the place and the order has changed.
LEMMA StaysInStep ==
  ASSUME UNCHANGED cVars, UNCHANGED <<x, dec, tainted>>, InPiece' = InPiece, Coming' = Coming,
         tainted \in BOOLEAN, NEW f, InStep(f)
  PROVE  InStep(f)'
<1>1. Class(f)' = Class(f)
  BY DEF cVars, Class, FileAt, GetCompressorClass, FactoryClass
<1>2. OnPlace(f)'
  BY DEF cVars, InStep, OnPlace, Rest
<1>3. Decoder' = Decoder /\ Rest(fl[f])' = Rest(fl[f]) /\ fl' = fl /\ tainted' = tainted
  BY DEF cVars, Decoder, Rest
<1>4. InOrder(f)
  BY DEF InStep
<1>5. x' = x
  OBVIOUS
<1>6. /\ (Decoder.next + Len(Decoder.buf) + Len(Coming) = Rest(fl[f]) + 1)'
      /\ (Decoder.next = x.read + InPiece + 1)'
  BY <1>3, <1>4, <1>5 DEF InOrder
<1>7. ASSUME ~tainted'
      PROVE  /\ RightFrom(fl, fl[f], Class(f), TRUE, Decoder.next - 1, Decoder.buf)'
             /\ RightFrom(fl, fl[f], Class(f), TRUE, Decoder.next - 1, Coming)'
  <2>1. ~tainted
    BY <1>3, <1>7
  <2>2. /\ RightFrom(fl, fl[f], Class(f), TRUE, Decoder.next - 1, Decoder.buf)
        /\ RightFrom(fl, fl[f], Class(f), TRUE, Decoder.next - 1, Coming)
    BY <1>4, <2>1 DEF InOrder
  <2>3. fl'[f] = fl[f] /\ (Decoder.next - 1)' = Decoder.next - 1 /\ Decoder.buf' = Decoder.buf
    BY <1>3
  <2> QED
    BY <1>1, <1>3, <2>2, <2>3
<1>8. InOrder(f)'
  BY <1>6, <1>7 DEF InOrder
<1> QED
  BY <1>2, <1>8 DEF InStep

\* Nothing but FCryptKeySet has changed.
LEMMA XStands ==
  ASSUME ExtractorInv, UNCHANGED <<cVars, x, dec, call, last, tainted>>, keySet' \in BOOLEAN
  PROVE  ExtractorInv'
<1>1. UNCHANGED cVars /\ UNCHANGED <<x, dec, tainted>> /\ UNCHANGED call /\ UNCHANGED last
  OBVIOUS
<1>2. InPiece' = InPiece /\ Coming' = Coming
  BY <1>1 DEF InPiece, Coming
<1>3. \A f : InStep(f) => InStep(f)'
  BY <1>1, <1>2, StaysInStep DEF ExtractorInv, XTypes
<1>4. fl' = fl /\ cpc' = cpc /\ script' = script
  BY <1>1 DEF cVars
<1>5. XTypes'
  BY <1>1 DEF ExtractorInv, XTypes
<1>6. XInStep'
  BY <1>1, <1>3, <1>4 DEF ExtractorInv, XInStep
<1>7. Progress'
  <2>1. Entry' = Entry /\ Decoder' = Decoder /\ DecoderLoaded' = DecoderLoaded
    BY <1>1, <1>4 DEF Entry, Decoder, DecoderLoaded, DecompClass
  <2>2. x' = x /\ call' = call /\ dec' = dec /\ tainted' = tainted
    BY <1>1
  <2> QED
    BY <1>4, <2>1, <2>2 DEF ExtractorInv, Progress
<1>8. Extracted'
  BY <1>1, <1>4 DEF ExtractorInv, Extracted, Original
<1> QED
  BY <1>5, <1>6, <1>7, <1>8 DEF ExtractorInv

LEMMA SetCryptKeyKeeps ==
  ASSUME ExtractorInv, SetCryptKey
  PROVE  ExtractorInv'
BY XStands DEF SetCryptKey

\* The extractor has not been used while the compiler is at work.
LEMMA CompilerSpares ==
  ASSUME CompilerInv, ExtractorInv, CNext, UNCHANGED xVars
  PROVE  ExtractorInv'
<1>1. cpc # "compiled"
  BY CompiledStops
<1>2. x' = Nowhere /\ call' = NoCall /\ UNCHANGED xVars
  BY <1>1 DEF ExtractorInv, Progress, xVars
<1>3. x'.firstSlice = 0 /\ call'.pc = "idle" /\ call'.outcome = "none"
  BY <1>2 DEF Nowhere, NoCall
<1>4. XTypes'
  BY <1>2 DEF ExtractorInv, XTypes, xVars
<1>5. XInStep'
  BY <1>3 DEF XInStep
<1>6. Progress'
  BY <1>2, <1>3 DEF Progress
<1>7. Extracted'
  BY <1>3 DEF Extracted
<1> QED
  BY <1>4, <1>5, <1>6, <1>7 DEF ExtractorInv

\* What a step of the extractor leaves alone.
LEMMA UntouchedMeans ==
  ASSUME UNCHANGED cVars
  PROVE  /\ cpc' = cpc /\ fl' = fl /\ slices' = slices /\ script' = script
         /\ DecoderLoaded' = DecoderLoaded
         /\ \A f : Class(f)' = Class(f)
         /\ \A f : Original(f)' = Original(f)
BY DEF cVars, DecoderLoaded, DecompClass, Class, FileAt, GetCompressorClass, FactoryClass, Original

\* Between calls, and before the first piece.
LEMMA OutsidePieces ==
  ASSUME call.pc \in {"idle", "restart", "seek", "loop"}
  PROVE  InPiece = 0 /\ Coming = <<>>
BY DEF InPiece, Coming

\* The extractor is idle: it is in step with some file, or starts over.
LEMMA ExtractKeeps ==
  ASSUME CompilerInv, ExtractorInv, NEW f \in DOMAIN fl, NEW verify \in BOOLEAN, Extract(f, verify)
  PROVE  ExtractorInv'
<1> DEFINE e == fl[f]
           new == [NoCall EXCEPT !.pc = "seek", !.file = f, !.verify = verify]
<1>1. /\ cpc = "compiled" /\ call.pc = "idle" /\ UNCHANGED cVars /\ keySet' = keySet
      /\ last' = [file |-> call.file, outcome |-> call.outcome]
  BY DEF Extract
<1>3. f \in Nat /\ e.compressed \in BOOLEAN /\ e.firstSlice \in 1..Len(slices) /\ e.suboffset \in Nat
  BY <1>1, Ready, EntryHas
<1>4. XTypes /\ XInStep
  BY DEF ExtractorInv
<1>5. <<>> \in Seq(ReadUnit) /\ <<>> \in Seq(Int \X Int)
  OBVIOUS
<1>2. NoCall \in Call
  BY <1>5 DEF NoCall, Call
<1>6. new \in Call
  BY <1>2, <1>3 DEF Call
<1>14. new.pc = "seek" /\ new.file = f /\ new.purpose = NoCall.purpose
       /\ new.outcome = NoCall.outcome /\ new.out = NoCall.out
  BY <1>2, <1>3 DEF Call
<1>15. NoCall.purpose = "discard" /\ NoCall.outcome = "none" /\ NoCall.out = <<>>
  BY DEF NoCall
<1> HIDE DEF new, e
<1>7. keySet' \in BOOLEAN /\ last'.file \in Nat
  BY <1>1, <1>4, CallFields DEF XTypes
<1>8. x \in Reader /\ dec \in [BOOLEAN -> Decompressor] /\ tainted \in BOOLEAN
  BY <1>4 DEF XTypes
<1>9. fl' = fl /\ cpc' = cpc /\ DecoderLoaded' = DecoderLoaded
  BY <1>1, UntouchedMeans
<1>10. x.firstSlice # 0 /\ ~x.needReset => \E g \in DOMAIN fl : InStep(g)
  BY <1>4 DEF XInStep
<1>11. CASE /\ call' = [new EXCEPT !.pc = "idle", !.outcome = "internal",
                          !.cause = IF e.encrypted /\ ~keySet THEN {"nokey"} ELSE {}]
            /\ UNCHANGED <<x, dec, tainted>>
  <2>1. call'.pc = "idle" /\ call'.outcome = "internal" /\ call' \in Call
    BY <1>6, <1>11 DEF Call
  <2>2. XTypes'
    BY <1>7, <1>8, <1>11, <2>1 DEF XTypes
  <2>3. InPiece' = InPiece /\ Coming' = Coming
    BY <1>1, <2>1 DEF InPiece, Coming
  <2>4. \A g : InStep(g) => InStep(g)'
    BY <1>1, <1>8, <1>11, <2>3, StaysInStep
  <2>5. XInStep'
    BY <1>9, <1>10, <1>11, <2>1, <2>4 DEF XInStep
  <2>6. Progress'
    BY <1>1, <1>9, <2>1 DEF Progress
  <2>7. Extracted'
    BY <2>1 DEF Extracted
  <2> QED
    BY <2>2, <2>5, <2>6, <2>7 DEF ExtractorInv
<1>12. CASE /\ DecoderLoaded
            /\ x' = [x EXCEPT !.firstSlice = 0, !.needReset = FALSE]
            /\ dec' = [dec EXCEPT ![e.compressed] = FreshDecompressor]
            /\ call' = [new EXCEPT !.pc = "restart"]
            /\ tainted' = FALSE
  <2>1. /\ call'.pc = "restart" /\ call'.outcome = "none" /\ call' \in Call /\ call'.file = f
        /\ call'.purpose = "discard" /\ call'.out = <<>>
    BY <1>6, <1>12, <1>14, <1>15 DEF Call
  <2>2. x' \in Reader /\ x'.firstSlice = 0 /\ x'.needReset = FALSE
    BY <1>8, <1>12 DEF Reader
  <2>3. FreshDecompressor \in Decompressor
    BY <1>5 DEF FreshDecompressor, Decompressor
  <2>4. dec' \in [BOOLEAN -> Decompressor] /\ dec'[e.compressed] = FreshDecompressor
    BY <1>3, <1>8, <1>12, <2>3
  <2>5. XTypes'
    BY <1>7, <1>12, <2>1, <2>2, <2>4 DEF XTypes
  <2>6. XInStep'
    BY <2>1, <2>2 DEF XInStep
  <2>7. Entry' = e
    BY <1>9, <2>1 DEF Entry, e
  <2>8. Progress'
    BY <1>1, <1>9, <1>12, <2>1, <2>2, <2>4, <2>7 DEF Progress
  <2>9. Extracted'
    BY <2>1 DEF Extracted
  <2> QED
    BY <2>5, <2>6, <2>8, <2>9 DEF ExtractorInv
<1>13. CASE DecoderLoaded /\ ~MustRestart(e) /\ call' = new /\ UNCHANGED <<x, dec, tainted>>
  <2>1. /\ call'.pc = "seek" /\ call'.outcome = "none" /\ call' \in Call /\ call'.file = f
        /\ call'.purpose = "discard" /\ call'.out = <<>>
    BY <1>6, <1>13, <1>14, <1>15
  <2>2. XTypes'
    BY <1>7, <1>8, <1>13, <2>1 DEF XTypes
  <2>3. InPiece' = InPiece /\ Coming' = Coming
    BY <1>1, <2>1 DEF InPiece, Coming
  <2>4. /\ x.firstSlice = e.firstSlice /\ x.startOffset = e.startOffset
        /\ ~(e.suboffset < x.read) /\ ~x.needReset
    BY <1>13 DEF MustRestart
  <2>5. PICK g \in DOMAIN fl : InStep(g)
    <3>1. x.firstSlice # 0
      BY <1>3, <2>4
    <3> QED
      BY <1>10, <2>4, <3>1
  <2>6. SameChunk(fl[f], fl[g])
    BY <2>4, <2>5 DEF SameChunk, InStep, OnPlace, e
  <2>7. InStep(f)
    BY <1>1, <2>5, <2>6, InStepAgrees
  <2>8. InStep(f)'
    BY <1>1, <1>8, <1>13, <2>3, <2>7, StaysInStep
  <2>9. XInStep'
    BY <1>9, <1>13, <2>1, <2>4, <2>8 DEF XInStep
  <2>10. Entry' = e
    BY <1>9, <2>1 DEF Entry, e
  <2>11. x.read <= e.suboffset
    BY <1>3, <1>4, <2>4, XFields
  <2>12. Progress'
    BY <1>1, <1>9, <1>13, <2>1, <2>10, <2>11 DEF Progress
  <2>13. Extracted'
    BY <2>1 DEF Extracted
  <2> QED
    BY <2>2, <2>9, <2>12, <2>13 DEF ExtractorInv
<1> QED
  BY <1>11, <1>12, <1>13 DEF Extract, e, new

Causes == {"refused", "ioerror", "corrupted", "cancelled", "nokey", "damaged"}

\* A call ends.
LEMMA EndsDoes ==
  ASSUME XTypes, NEW cause \in SUBSET Causes,
         NEW outcome \in {"ok", "refused", "ioerror", "corrupted", "cancelled"},
         Ends(outcome, cause)
  PROVE  /\ call' \in Call /\ call'.pc = "idle" /\ call'.outcome = outcome
         /\ call'.file = call.file /\ call'.verify = call.verify /\ call'.out = call.out
         /\ call'.cause = call.cause \cup cause
<1>1. call \in Call
  BY DEF XTypes
<1> DEFINE all == call.cause \cup cause
<1>2. all \in SUBSET Causes
  BY <1>1 DEF Call, Causes
<1>3. call' = [call EXCEPT !.pc = "idle", !.outcome = outcome, !.cause = all]
  BY DEF Ends
<1> HIDE DEF all
<1> QED
  BY <1>1, <1>2, <1>3 DEF Call, Causes, all

\* So does a call for which a slice could not be opened.
LEMMA OpeningEnds ==
  ASSUME XTypes, NEW s, \E fault \in OpenFaults(s) : EndsOpening(fault, s)
  PROVE  /\ call' \in Call /\ call'.pc = "idle" /\ call'.file = call.file
         /\ call'.outcome \in {"refused", "ioerror", "corrupted"} /\ call'.out = call.out
<1>1. PICK fault \in OpenFaults(s) : EndsOpening(fault, s)
  OBVIOUS
<1>2. fault \in {"refused", "ioerror", "corrupted"}
  BY DEF OpenFaults
<1>3. \E cause \in SUBSET Causes : Ends(fault, cause)
  BY <1>1, <1>2 DEF EndsOpening, Causes
<1> QED
  BY <1>2, <1>3, EndsDoes

LEMMA TripleSeq ==
  ASSUME NEW a \in Int, NEW b \in Int, NEW c \in Int
  PROVE  <<a, b, c>> \in Seq(Int)
OBVIOUS

\* After a failure the chunk will be started over.
LEMMA FailureKeeps ==
  ASSUME CompilerInv, ExtractorInv, call.pc # "idle", UNCHANGED cVars,
         UNCHANGED <<dec, keySet, last, tainted>>, x' \in Reader, x'.firstSlice = 0 \/ x'.needReset,
         call' \in Call, call'.pc = "idle", call'.outcome \notin {"none", "ok"}
  PROVE  ExtractorInv'
<1>1. XTypes /\ cpc = "compiled"
  BY Reading DEF ExtractorInv
<1>2. cpc' = "compiled"
  BY <1>1, UntouchedMeans
<1>3. XTypes'
  BY <1>1 DEF XTypes
<1>4. XInStep'
  BY DEF XInStep
<1>5. Progress'
  BY <1>2 DEF Progress
<1>6. Extracted'
  BY DEF Extracted
<1> QED
  BY <1>3, <1>4, <1>5, <1>6 DEF ExtractorInv

\* So it will after an exception.
LEMMA RaiseKeeps ==
  ASSUME CompilerInv, ExtractorInv, call.pc # "idle", UNCHANGED <<cVars, keySet, last>>,
         NEW outcome \in {"ioerror", "corrupted"}, NEW cause \in SUBSET Causes,
         RaiseFromDecompress(outcome, cause)
  PROVE  ExtractorInv'
<1>1. XTypes
  BY DEF ExtractorInv
<1>2. Ends(outcome, cause) /\ UNCHANGED <<dec, tainted>> /\ x' = [x EXCEPT !.needReset = TRUE]
  BY DEF RaiseFromDecompress, ResetAfterException
<1>3. x' \in Reader /\ x'.needReset
  BY <1>1, <1>2, XFields DEF Reader
<1>4. call' \in Call /\ call'.pc = "idle" /\ call'.outcome \notin {"none", "ok"}
  BY <1>1, <1>2, EndsDoes
<1> QED
  BY <1>2, <1>3, <1>4, FailureKeeps

\* The chunk is opened at its start, or nothing is.
LEMMA RestartChunkKeeps ==
  ASSUME CompilerInv, ExtractorInv, RestartChunk
  PROVE  ExtractorInv'
<1> DEFINE f == call.file
           e == fl[f]
<1>1. /\ cpc = "compiled" /\ f \in DOMAIN fl /\ DecoderLoaded /\ call.outcome = "none"
      /\ call.pc = "restart" /\ UNCHANGED cVars /\ UNCHANGED <<dec, keySet, last, tainted>>
  BY Reading DEF RestartChunk
<1>2. /\ e.firstSlice \in 1..Len(slices) /\ e.lastSlice \in 1..Len(slices) /\ e.startOffset \in Nat
      /\ e.firstSlice <= e.lastSlice
      /\ e.suboffset \in Nat /\ e.compressedSize \in Nat /\ e.compressed \in BOOLEAN
      /\ e.encrypted \in BOOLEAN /\ StartOf(slices, e) = Before(slices, e.firstSlice) + e.startOffset + 1
      /\ e.startOffset < Len(slices[e.firstSlice].data)
  BY <1>1, EntryHas
<1>3. XTypes /\ Entry = e
  BY DEF ExtractorInv, Entry
<1>4. /\ x.firstSlice = 0 /\ x.needReset = FALSE /\ dec[e.compressed] = FreshDecompressor
      /\ call.purpose = "discard" /\ call.out = <<>>
  <2>1. Progress
    BY DEF ExtractorInv
  <2>2. x.needReset \in BOOLEAN
    BY <1>3, XFields
  <2> QED
    BY <1>1, <1>3, <2>1, <2>2 DEF Progress
<1>5. /\ fl' = fl /\ cpc' = cpc /\ slices' = slices /\ DecoderLoaded' = DecoderLoaded
      /\ (\A g : Class(g)' = Class(g)) /\ dec' = dec /\ tainted' = tainted
  BY <1>1, UntouchedMeans
<1>6. slices \in Seq(Slice) /\ Len(slices) \in Nat
  BY <1>1, Ready
<1>7. Len(slices[e.firstSlice].data) \in Nat /\ Before(slices, e.firstSlice) \in Nat
  <2>1. e.firstSlice \in 1..Len(slices) /\ e.firstSlice \in 1..(Len(slices) + 1)
    <3> HIDE DEF e
    <3> QED
      BY <1>2, <1>6
  <2> QED
    BY <1>6, <2>1, SliceType, BeforeType
<1>8. call \in Call /\ x \in Reader /\ dec \in [BOOLEAN -> Decompressor]
  BY <1>3 DEF XTypes
<1> HIDE DEF e, f
<1>10. CASE /\ x' = [opened |-> e.firstSlice, pos |-> e.startOffset + 1,
                     firstSlice |-> e.firstSlice, lastSlice |-> e.lastSlice,
                     startOffset |-> e.startOffset, bytesLeft |-> e.compressedSize,
                     read |-> 0, needReset |-> x.needReset,
                     compressed |-> e.compressed, encrypted |-> e.encrypted,
                     crypt |-> IF e.encrypted THEN <<e.firstSlice, e.startOffset, 0>> ELSE x.crypt]
            /\ Goto("seek")
  <2>1. /\ x'.opened = e.firstSlice /\ x'.pos = e.startOffset + 1
        /\ x'.firstSlice = e.firstSlice /\ x'.lastSlice = e.lastSlice
        /\ x'.startOffset = e.startOffset /\ x'.bytesLeft = e.compressedSize
        /\ x'.read = 0 /\ x'.needReset = FALSE
        /\ x'.compressed = e.compressed /\ x'.encrypted = e.encrypted
        /\ x'.encrypted => x'.crypt = <<e.firstSlice, e.startOffset, 0>>
    BY <1>4, <1>10
  <2>2. /\ call' \in Call /\ call'.pc = "seek" /\ call'.file = f /\ call'.purpose = "discard"
        /\ call'.out = <<>> /\ call'.outcome = "none"
    BY <1>1, <1>4, <1>8, <1>10 DEF Goto, Call, f
  <2>3. x' \in Reader
    <3>1. e.firstSlice \in Nat /\ e.lastSlice \in Nat
      BY <1>2, <1>6
    <3>2. <<e.firstSlice, e.startOffset, 0>> \in Seq(Int) /\ x.crypt \in Seq(Int)
      BY <1>2, <1>3, <3>1, TripleSeq, XFields
    <3>3. x.needReset \in BOOLEAN
      BY <1>4
    <3> QED
      BY <1>2, <1>10, <3>1, <3>2, <3>3 DEF Reader
  <2>4. XTypes'
    BY <1>1, <1>3, <2>2, <2>3 DEF XTypes
  <2>5. Rest(e)' = 0 /\ e' = e
    <3>1. e' = e
      BY <1>5, <2>2 DEF e, f
    <3> QED
      BY <1>2, <2>1, <3>1 DEF Rest
  <2>6. InPiece' = 0 /\ Coming' = <<>>
    BY <2>2 DEF InPiece, Coming
  <2>7. Decoder' = FreshDecompressor /\ Decoder'.buf = <<>> /\ Decoder'.next = 1
    BY <1>4, <1>5, <2>1 DEF Decoder, FreshDecompressor
  <2>8. OnPlace(f)'
    <3>1. x'.opened \in e.firstSlice..e.lastSlice /\ x'.pos <= Len(slices[x'.opened].data)
      <4> DEFINE a == e.firstSlice
                 z == e.lastSlice
                 o == e.startOffset
                 l == Len(slices[a].data)
      <4>1. a \in Nat /\ z \in Nat /\ a <= z /\ o \in Nat /\ l \in Nat /\ o < l
        BY <1>2, <1>6, <1>7
      <4>2. x'.opened = a /\ x'.pos = o + 1
        BY <2>1
      <4> HIDE DEF a, z, o, l
      <4>3. a \in a..z /\ o + 1 <= l
        BY <4>1
      <4>4. x'.opened \in a..z /\ x'.pos <= l
        BY <4>2, <4>3
      <4> QED
        BY <4>2, <4>4 DEF z, l, a
    <3>2. Before(slices, x'.opened) + x'.pos = StartOf(slices, e) + Rest(e)'
      BY <1>2, <1>7, <2>1, <2>5
    <3>3. /\ x'.firstSlice = e.firstSlice /\ x'.startOffset = e.startOffset
          /\ x'.lastSlice = e.lastSlice /\ x'.compressed = e.compressed
          /\ x'.encrypted = e.encrypted /\ x'.bytesLeft <= e.compressedSize
          /\ x'.encrypted => x'.crypt = <<e.firstSlice, e.startOffset, Rest(e)'>>
      BY <1>2, <2>1, <2>5
    <3> QED
      BY <1>5, <2>2, <2>5, <3>1, <3>2, <3>3 DEF OnPlace, SameChunk, e, f
  <2>9. InOrder(f)'
    <3>1. Decoder'.next + Len(Decoder'.buf) + Len(Coming') = Rest(e)' + 1
      BY <2>5, <2>6, <2>7
    <3>2. Decoder'.next = x'.read + InPiece' + 1
      BY <2>1, <2>6, <2>7
    <3>3. \A es, c, class, n : RightFrom(es, c, class, TRUE, n, <<>>)
      BY RightFromEmpty
    <3> QED
      BY <2>2, <2>6, <2>7, <3>1, <3>2, <3>3 DEF InOrder, e, f
  <2>10. XInStep'
    <3>1. InStep(f)'
      BY <2>8, <2>9 DEF InStep
    <3>2. f \in DOMAIN fl'
      BY <1>1, <1>5 DEF f
    <3>3. x'.needReset = FALSE /\ call'.file = f
      BY <2>1, <2>2
    <3>4. f' = f
      BY <3>3 DEF f
    <3> QED
      BY <3>1, <3>2, <3>3, <3>4 DEF XInStep
  <2>11. Progress'
    <3>1. Entry' = e
      BY <2>2, <2>5 DEF Entry, e, f
    <3>2. x'.read <= e.suboffset
      BY <1>2, <2>1
    <3> QED
      BY <1>1, <1>5, <2>2, <3>1, <3>2 DEF Progress, f
  <2>12. Extracted'
    BY <2>2 DEF Extracted
  <2> QED
    BY <2>4, <2>10, <2>11, <2>12 DEF ExtractorInv
<1>11. CASE /\ \E fault \in OpenFaults(e.firstSlice) : EndsOpening(fault, e.firstSlice)
            /\ x' = Closed(x)
  <2>1. x' \in Reader /\ x'.firstSlice = 0
    BY <1>4, <1>8, <1>11 DEF Closed, Reader
  <2>2. call'.pc = "idle" /\ call'.outcome \notin {"none", "ok"} /\ call' \in Call
    BY <1>3, <1>11, OpeningEnds
  <2> QED
    BY <1>1, <2>1, <2>2, FailureKeeps
<1>12. CASE /\ \E fault \in {"ioerror", "corrupted"} : Ends(fault, {fault})
            /\ x' = [x EXCEPT !.opened = e.firstSlice, !.pos = e.startOffset]
  <2>1. x' \in Reader /\ x'.firstSlice = 0
    <3>1. e.firstSlice \in Nat
      BY <1>2, <1>6
    <3> QED
      BY <1>2, <1>4, <1>8, <1>12, <3>1 DEF Reader
  <2>2. call'.pc = "idle" /\ call'.outcome \notin {"none", "ok"} /\ call' \in Call
    <3>1. PICK fault \in {"ioerror", "corrupted"} : Ends(fault, {fault})
      BY <1>12
    <3>2. {fault} \in SUBSET Causes
      BY DEF Causes
    <3> QED
      BY <1>3, <3>1, <3>2, EndsDoes
  <2> QED
    BY <1>1, <2>1, <2>2, FailureKeeps
<1> QED
  BY <1>3, <1>10, <1>11, <1>12 DEF RestartChunk

\* While the place is the same.
LEMMA StaysInCall ==
  ASSUME CompilerInv, ExtractorInv, call.pc \in {"seek", "loop", "decode", "read"},
         UNCHANGED cVars, UNCHANGED <<keySet, last>>, UNCHANGED <<x, dec, tainted>>,
         call' \in Call, call'.file = call.file, InPiece' = InPiece, Coming' = Coming
  PROVE  /\ XTypes' /\ XInStep' /\ cpc' = "compiled" /\ call'.file \in DOMAIN fl' /\ DecoderLoaded'
         /\ Entry' = Entry /\ Decoder' = Decoder /\ x' = x
<1>1. /\ cpc = "compiled" /\ call.file \in DOMAIN fl /\ DecoderLoaded /\ InStep(call.file) /\ ~x.needReset
      /\ XTypes
  BY Reading DEF ExtractorInv
<1>2. fl' = fl /\ cpc' = cpc /\ DecoderLoaded' = DecoderLoaded
  BY UntouchedMeans
<1>3. XTypes'
  BY <1>1 DEF XTypes
<1>4. tainted \in BOOLEAN
  BY <1>1 DEF XTypes
<1>5. \A f : InStep(f) => InStep(f)'
  BY <1>4, StaysInStep
<1>6. InStep(call.file)'
  <2> DEFINE f == call.file
  <2>1. f' = f /\ InStep(f)
    BY <1>1
  <2> HIDE DEF f
  <2>2. InStep(f)'
    BY <1>5, <2>1
  <2> QED
    BY <2>2 DEF f
<1>7. XInStep'
  BY <1>1, <1>2, <1>6 DEF XInStep
<1>8. Entry' = Entry /\ Decoder' = Decoder
  BY <1>2 DEF Entry, Decoder
<1> QED
  BY <1>1, <1>2, <1>3, <1>7, <1>8

\* What Progress says of a call past its first SeekTo.
LEMMA Within ==
  ASSUME CompilerInv, ExtractorInv, call.pc \in {"seek", "loop", "decode", "read"}
  PROVE  /\ Entry.suboffset \in Nat /\ Entry.size \in Nat /\ Entry.size = FileAt(call.file).size
         /\ Entry.suboffset + Entry.size <= Entry.compressedSize
         /\ Decoder.next = x.read + InPiece + 1
         /\ call.purpose = "discard" => call.out = <<>>
         /\ call.pc \in {"seek"} => call.purpose = "discard" /\ x.read <= Entry.suboffset
         /\ call.pc \in {"loop", "decode", "read"} =>
              /\ call.purpose = "discard" => x.read + call.left = Entry.suboffset
              /\ call.purpose = "extract" =>
                   /\ x.read + call.left = Entry.suboffset + Entry.size
                   /\ Entry.suboffset + Len(call.out) + 1 = Decoder.next
                   /\ ~tainted => \A k \in 1..Len(call.out) : call.out[k] = <<call.file, k>>
         /\ call.pc \in {"decode", "read"} => call.want <= call.size /\ call.size <= call.left
<1>1. cpc = "compiled" /\ call.file \in DOMAIN fl /\ InOrder(call.file) /\ Progress
  BY Reading DEF ExtractorInv
<1>2. /\ Entry.suboffset \in Nat /\ Entry.size \in Nat /\ Entry.size = FileAt(call.file).size
      /\ Entry.suboffset + Entry.size <= Entry.compressedSize
  BY <1>1, EntryHas DEF Entry
<1>3. Decoder.next = x.read + InPiece + 1
  BY <1>1 DEF InOrder
<1> QED
  BY <1>1, <1>2, <1>3 DEF Progress

LEMMA SeekKeeps ==
  ASSUME CompilerInv, ExtractorInv, Seek
  PROVE  ExtractorInv'
<1>1. call.pc = "seek" /\ UNCHANGED cVars /\ UNCHANGED <<keySet, last>> /\ UNCHANGED <<x, dec, tainted>>
  BY DEF Seek
<1>2. XTypes /\ call \in Call /\ x.read \in Nat
  BY XFields DEF ExtractorInv, XTypes
<1> DEFINE o == Entry.suboffset
           l == Entry.size
           r == x.read
           next == Decoder.next
<1>3. /\ o \in Nat /\ l \in Nat /\ r <= o /\ r \in Nat
      /\ call.purpose = "discard" /\ call.out = <<>> /\ call.outcome = "none" /\ next = r + InPiece + 1
  BY <1>1, <1>2, Within, Reading
<1>4. InPiece = 0
  BY <1>1 DEF InPiece
<1>5. call' = IF o > r THEN [call EXCEPT !.pc = "loop", !.left = o - r]
              ELSE [call EXCEPT !.pc = "loop", !.purpose = "extract", !.left = l]
  BY DEF Seek
<1> HIDE DEF o, l, r, next
<1>6. /\ call' \in Call /\ call'.pc = "loop" /\ call'.file = call.file /\ call'.out = <<>>
      /\ call'.outcome = "none" /\ call'.purpose \in {"discard", "extract"}
      /\ call'.purpose = "discard" => r + call'.left = o
      /\ call'.purpose = "extract" => r + call'.left = o + l /\ o + 1 = next
  <2>1. CASE o > r
    <3> DEFINE d == o - r
    <3>1. d \in Nat /\ r + d = o
      BY <1>3, <2>1
    <3>2. call' = [call EXCEPT !.pc = "loop", !.left = d]
      BY <1>5, <2>1
    <3> HIDE DEF d
    <3>3. /\ call' \in Call /\ call'.pc = "loop" /\ call'.file = call.file /\ call'.out = call.out
          /\ call'.outcome = call.outcome /\ call'.purpose = call.purpose /\ call'.left = d
      BY <1>2, <3>1, <3>2 DEF Call
    <3> QED
      BY <1>3, <3>1, <3>3
  <2>2. CASE ~(o > r)
    <3>1. o = r
      BY <1>3, <2>2
    <3>2. call' = [call EXCEPT !.pc = "loop", !.purpose = "extract", !.left = l]
      BY <1>5, <2>2
    <3>3. /\ call' \in Call /\ call'.pc = "loop" /\ call'.file = call.file /\ call'.out = call.out
          /\ call'.outcome = call.outcome /\ call'.purpose = "extract" /\ call'.left = l
      BY <1>2, <1>3, <3>2 DEF Call
    <3> QED
      BY <1>3, <1>4, <3>1, <3>3
  <2> QED
    BY <2>1, <2>2
<1>7. InPiece' = InPiece /\ Coming' = Coming
  BY <1>1, <1>6 DEF InPiece, Coming
<1>8. /\ XTypes' /\ XInStep' /\ cpc' = "compiled" /\ call'.file \in DOMAIN fl' /\ DecoderLoaded'
      /\ Entry' = Entry /\ Decoder' = Decoder /\ x' = x
  BY <1>1, <1>6, <1>7, StaysInCall
<1>9. Progress'
  BY <1>3, <1>6, <1>8 DEF Progress, o, l, r, next
<1>10. Extracted'
  BY <1>6 DEF Extracted
<1> QED
  BY <1>8, <1>9, <1>10 DEF ExtractorInv

LEMMA NextPieceKeeps ==
  ASSUME CompilerInv, ExtractorInv, NextPiece
  PROVE  ExtractorInv'
<1> DEFINE n == Least(call.left, PieceSize)
<1>1. /\ call.pc = "loop" /\ call.left > 0 /\ UNCHANGED cVars /\ UNCHANGED <<keySet, last>>
      /\ UNCHANGED <<x, dec, tainted>>
      /\ call' = [call EXCEPT !.pc = "decode", !.size = n, !.want = n]
  BY DEF NextPiece
<1>2. XTypes /\ call \in Call /\ call.left \in Nat /\ call.outcome = "none"
  BY <1>1, CallFields, Reading DEF ExtractorInv
<1>3. n \in Nat /\ n <= call.left
  BY <1>2, SizeAssumption DEF Least
<1> HIDE DEF n
<1>4. /\ call' \in Call /\ call'.pc = "decode" /\ call'.size = n /\ call'.want = n
      /\ call'.left = call.left /\ call'.file = call.file /\ call'.out = call.out
      /\ call'.purpose = call.purpose /\ call'.outcome = "none"
  BY <1>1, <1>2, <1>3 DEF Call
<1>5. InPiece = 0 /\ InPiece' = 0 /\ Coming' = Coming
  BY <1>1, <1>3, <1>4 DEF InPiece, Coming
<1>6. /\ XTypes' /\ XInStep' /\ cpc' = "compiled" /\ call'.file \in DOMAIN fl' /\ DecoderLoaded'
      /\ Entry' = Entry /\ Decoder' = Decoder /\ x' = x
  BY <1>1, <1>4, <1>5, StaysInCall
<1>7. tainted' = tainted
  BY <1>1
<1>8. Progress'
  <2>1. Progress
    BY DEF ExtractorInv
  <2>2. tainted \in BOOLEAN
    BY <1>2 DEF XTypes
  <2> QED
    BY <1>1, <1>3, <1>4, <1>6, <1>7, <2>1, <2>2 DEF Progress
<1>9. Extracted'
  BY <1>4 DEF Extracted
<1> QED
  BY <1>6, <1>8, <1>9 DEF ExtractorInv

\* A file that is complete is the original, unless damage went unnoticed.
LEMMA WholeFile ==
  ASSUME CompilerInv, ExtractorInv, call.pc = "loop", call.left = 0, call.purpose = "extract"
  PROVE  /\ call.out \in Seq(Int \X Int) /\ Len(call.out) = Entry.size /\ Entry.size \in Nat
         /\ x.read = Entry.suboffset + Entry.size /\ Entry.suboffset \in Nat
         /\ ~tainted => call.out = Original(call.file)
<1> DEFINE o == Entry.suboffset
           l == Entry.size
           r == x.read
           m == Len(call.out)
<1>1. /\ o \in Nat /\ l \in Nat /\ l = FileAt(call.file).size
      /\ r + call.left = o + l /\ o + m + 1 = Decoder.next /\ Decoder.next = r + InPiece + 1
      /\ ~tainted => \A k \in 1..m : call.out[k] = <<call.file, k>>
  BY Within
<1>2. InPiece = 0 /\ r \in Nat /\ call.out \in Seq(Int \X Int) /\ m \in Nat
  BY CallFields, XFields DEF InPiece, ExtractorInv
<1>3. m = l /\ r = o + l
  <2> DEFINE next == Decoder.next
  <2>1. next = o + m + 1 /\ next = r + InPiece + 1
    BY <1>1
  <2> HIDE DEF o, l, r, m, next
  <2> QED
    BY <1>1, <1>2, <2>1
<1>4. call.out = [k \in 1..m |-> call.out[k]]
  <2> DEFINE s == call.out
  <2>1. s \in Seq(Int \X Int)
    BY <1>2
  <2> HIDE DEF s
  <2>2. s = [k \in 1..Len(s) |-> s[k]]
    BY <2>1
  <2> QED
    BY <2>2 DEF s
<1>5. ASSUME ~tainted PROVE call.out = Original(call.file)
  BY <1>1, <1>3, <1>4, <1>5 DEF Original, FileAt
<1> QED
  BY <1>1, <1>2, <1>3, <1>5

LEMMA LoopEndsKeeps ==
  ASSUME CompilerInv, ExtractorInv, LoopEnds
  PROVE  ExtractorInv'
<1>1. /\ call.pc = "loop" /\ call.left = 0 /\ UNCHANGED cVars /\ UNCHANGED <<keySet, last>>
      /\ UNCHANGED <<x, dec, tainted>>
  BY DEF LoopEnds
<1>2. XTypes /\ call \in Call /\ call.outcome = "none" /\ Progress
  BY <1>1, Reading DEF ExtractorInv, XTypes
<1>3. CASE call.purpose = "discard" /\ Goto("seek")
  <2>1. /\ call' \in Call /\ call'.pc = "seek" /\ call'.file = call.file /\ call'.out = call.out
        /\ call'.purpose = "discard" /\ call'.outcome = "none"
    BY <1>2, <1>3 DEF Goto, Call
  <2>2. InPiece' = InPiece /\ Coming' = Coming
    BY <1>1, <2>1 DEF InPiece, Coming
  <2>3. /\ XTypes' /\ XInStep' /\ cpc' = "compiled" /\ call'.file \in DOMAIN fl' /\ DecoderLoaded'
        /\ Entry' = Entry /\ Decoder' = Decoder /\ x' = x
    BY <1>1, <2>1, <2>2, StaysInCall
  <2>4. x.read <= Entry.suboffset /\ call.out = <<>>
    <3>1. x.read \in Nat /\ x.read + call.left = Entry.suboffset /\ call.out = <<>>
      BY <1>1, <1>2, <1>3, Within, XFields
    <3> QED
      BY <1>1, <3>1
  <2>5. Progress'
    BY <2>1, <2>3, <2>4 DEF Progress
  <2>6. Extracted'
    BY <2>1 DEF Extracted
  <2> QED
    BY <2>3, <2>5, <2>6 DEF ExtractorInv
<1>4. ASSUME NEW outcome \in {"ok", "corrupted"}, Ends(outcome, {}),
             outcome = "ok" => call.purpose = "extract" /\ (call.verify => call.out = Original(call.file))
      PROVE  ExtractorInv'
  <2>1. {} \in SUBSET Causes
    OBVIOUS
  <2>2. /\ call' \in Call /\ call'.pc = "idle" /\ call'.outcome = outcome
        /\ call'.file = call.file /\ call'.verify = call.verify /\ call'.out = call.out
    BY <1>2, <1>4, <2>1, EndsDoes
  <2>3. InPiece' = InPiece /\ Coming' = Coming
    BY <1>1, <2>2 DEF InPiece, Coming
  <2>4. /\ XTypes' /\ XInStep' /\ cpc' = "compiled" /\ call'.file \in DOMAIN fl' /\ DecoderLoaded'
        /\ Entry' = Entry /\ Decoder' = Decoder /\ x' = x
    BY <1>1, <2>2, <2>3, StaysInCall
  <2>5. Progress'
    BY <2>2, <2>4 DEF Progress
  <2>6. ASSUME outcome = "ok", ~tainted
        PROVE  call.out = Original(call.file)
    BY <1>1, <1>4, <2>6, WholeFile
  <2>7. tainted \in BOOLEAN /\ tainted' = tainted
    BY <1>1, <1>2 DEF XTypes
  <2>8. Original(call.file)' = Original(call.file)
    BY <1>1, <2>2 DEF Original, cVars
  <2>9. Extracted'
    BY <1>4, <2>2, <2>6, <2>7, <2>8 DEF Extracted
  <2> QED
    BY <2>4, <2>5, <2>9 DEF ExtractorInv
<1>5. call.purpose = "discard" \/ call.purpose = "extract"
  BY <1>2, CallFields
<1> QED
  BY <1>3, <1>4, <1>5 DEF LoopEnds

\* More of the stream is asked for, or there is no more.
LEMMA RefillKeeps ==
  ASSUME CompilerInv, ExtractorInv, Refill
  PROVE  ExtractorInv'
<1> DEFINE asked == IF Codec = "stored" THEN call.want ELSE InBufSize
           n == Least(asked, x.bytesLeft)
<1>1. /\ call.pc = "decode" /\ call.want > 0 /\ Decoder.buf = <<>> /\ UNCHANGED cVars
      /\ UNCHANGED <<keySet, last>>
  BY DEF Refill, Decoder, Compressed
<1>2. XTypes /\ call \in Call /\ call.outcome = "none" /\ Progress /\ x.bytesLeft \in Nat
      /\ call.want \in Nat
  BY <1>1, Reading, XFields, CallFields DEF ExtractorInv, XTypes
<1>3. n \in Nat /\ n <= x.bytesLeft
  BY <1>2, InBufAssumption DEF Least
<1>4. CASE n = 0
  <2>1. RaiseFromDecompress("corrupted", {})
    BY <1>4 DEF Refill
  <2>2. {} \in SUBSET Causes
    OBVIOUS
  <2> QED
    BY <1>1, <2>1, <2>2, RaiseKeeps
<1>5. CASE n # 0
  <2>1. /\ call' = [call EXCEPT !.pc = "read", !.toRead = n, !.inbuf = <<>>]
        /\ UNCHANGED <<x, dec, tainted>>
    BY <1>5 DEF Refill
  <2>2. <<>> \in Seq(ReadUnit)
    OBVIOUS
  <2> HIDE DEF n
  <2>3. /\ call' \in Call /\ call'.pc = "read" /\ call'.file = call.file /\ call'.out = call.out
        /\ call'.purpose = call.purpose /\ call'.outcome = call.outcome /\ call'.left = call.left
        /\ call'.size = call.size /\ call'.want = call.want /\ call'.toRead = n /\ call'.inbuf = <<>>
    BY <1>2, <1>3, <2>1, <2>2 DEF Call
  <2>4. InPiece' = InPiece /\ Coming' = Coming
    BY <1>1, <2>3 DEF InPiece, Coming
  <2>5. /\ XTypes' /\ XInStep' /\ cpc' = "compiled" /\ call'.file \in DOMAIN fl' /\ DecoderLoaded'
        /\ Entry' = Entry /\ Decoder' = Decoder /\ x' = x
    BY <1>1, <2>1, <2>3, <2>4, StaysInCall
  <2>6. n \in 1..x.bytesLeft
    BY <1>2, <1>3, <1>5
  <2>7. tainted' = tainted /\ tainted \in BOOLEAN
    BY <1>2, <2>1 DEF XTypes
  <2>8. Progress'
    BY <1>1, <1>2, <2>3, <2>5, <2>6, <2>7 DEF Progress
  <2>9. Extracted'
    BY <1>2, <2>3 DEF Extracted
  <2> QED
    BY <2>5, <2>8, <2>9 DEF ExtractorInv
<1> QED
  BY <1>4, <1>5

\* To be in step with the file of the call.
LEMMA StepsTo ==
  ASSUME NEW f, f \in DOMAIN fl', call'.file = f, OnPlace(f)', InOrder(f)', ~x'.needReset
  PROVE  XInStep'
<1>1. OnPlace(call.file)'
  BY DEF OnPlace
<1>2. InOrder(call.file)'
  BY DEF InOrder
<1>3. InStep(call.file)'
  BY <1>1, <1>2 DEF InStep
<1>4. InStep(f)'
  BY DEF InStep
<1> QED
  BY <1>3, <1>4 DEF XInStep

\* The place is not concerned with what has been decompressed.
LEMMA SamePlace ==
  ASSUME UNCHANGED cVars, NEW f, OnPlace(f),
         x'.firstSlice = x.firstSlice, x'.startOffset = x.startOffset, x'.lastSlice = x.lastSlice,
         x'.compressed = x.compressed, x'.encrypted = x.encrypted, x'.bytesLeft = x.bytesLeft,
         x'.opened = x.opened, x'.pos = x.pos, x'.crypt = x.crypt
  PROVE  OnPlace(f)' /\ Rest(fl[f])' = Rest(fl[f])
<1>1. fl' = fl /\ slices' = slices
  BY UntouchedMeans
<1>2. Rest(fl[f])' = Rest(fl[f])
  BY <1>1 DEF Rest
<1> QED
  BY <1>1, <1>2 DEF OnPlace, SameChunk

\* The order, from its parts.
LEMMA OrderIs ==
  ASSUME UNCHANGED cVars, NEW f,
         (Decoder.next + Len(Decoder.buf) + Len(Coming))' = Rest(fl[f])' + 1,
         Decoder'.next = x'.read + InPiece' + 1,
         ~tainted' => RightFrom(fl, fl[f], Class(f), TRUE, Decoder'.next - 1, Decoder'.buf),
         ~tainted' => RightFrom(fl, fl[f], Class(f), TRUE, Decoder'.next - 1, Coming')
  PROVE  InOrder(f)'
<1>1. fl' = fl /\ Class(f)' = Class(f)
  BY UntouchedMeans
<1> QED
  BY <1>1 DEF InOrder

LEMMA PieceDoneKeeps ==
  ASSUME CompilerInv, ExtractorInv, PieceDone
  PROVE  ExtractorInv'
<1>1. /\ call.pc = "decode" /\ call.want = 0 /\ UNCHANGED cVars
      /\ UNCHANGED <<dec, keySet, last, tainted>> /\ x' = [x EXCEPT !.read = @ + call.size]
  BY DEF PieceDone
<1>2. XTypes /\ call \in Call /\ x \in Reader /\ Progress /\ x.read \in Nat /\ call.size \in Nat
      /\ call.left \in Nat /\ call.want \in Nat /\ call.outcome = "none" /\ tainted \in BOOLEAN
  BY <1>1, Reading, XFields, CallFields DEF ExtractorInv, XTypes
<1>3. cpc = "compiled" /\ OnPlace(call.file) /\ InOrder(call.file) /\ ~x.needReset /\ DecoderLoaded
  BY <1>1, Reading
<1>4. PICK f \in DOMAIN fl : f = call.file
  BY <1>1, Reading
<1> DEFINE r == x.read + call.size
<1>5. r \in Nat
  BY <1>2
<1>6. x' = [x EXCEPT !.read = r]
  BY <1>1
<1> HIDE DEF r
<1>7. /\ x' \in Reader /\ x'.read = r /\ x'.needReset = x.needReset
      /\ x'.firstSlice = x.firstSlice /\ x'.startOffset = x.startOffset /\ x'.lastSlice = x.lastSlice
      /\ x'.compressed = x.compressed /\ x'.encrypted = x.encrypted /\ x'.bytesLeft = x.bytesLeft
      /\ x'.opened = x.opened /\ x'.pos = x.pos /\ x'.crypt = x.crypt
  BY <1>2, <1>5, <1>6 DEF Reader
<1>8. OnPlace(f)' /\ Rest(fl[f])' = Rest(fl[f])
  BY <1>1, <1>3, <1>4, <1>7, SamePlace
<1>9. ASSUME call' \in Call, call'.file = call.file, call'.pc \in {"loop", "idle"},
             call'.outcome \in {"none", "cancelled"},
             call'.pc = "loop" => /\ call'.left = call.left - call.size /\ call'.outcome = "none"
                                  /\ call'.purpose = call.purpose /\ call'.out = call.out
      PROVE  ExtractorInv'
  <2>1. fl' = fl /\ cpc' = cpc /\ DecoderLoaded' = DecoderLoaded /\ Decoder' = Decoder
    BY <1>1, <1>7, UntouchedMeans DEF Decoder
  <2>2. Coming' = <<>> /\ Coming = <<>> /\ InPiece' = 0
    BY <1>1, <1>9 DEF Coming, InPiece
  <2>3. InPiece = call.size
    <3>1. InPiece = call.size - call.want
      BY <1>1 DEF InPiece
    <3> QED
      BY <1>1, <1>2, <3>1
  <2>4. /\ Decoder.next + Len(Decoder.buf) + Len(Coming) = Rest(fl[f]) + 1
        /\ Decoder.next = x.read + InPiece + 1
        /\ ~tainted => RightFrom(fl, fl[f], Class(f), TRUE, Decoder.next - 1, Decoder.buf)
        /\ ~tainted => RightFrom(fl, fl[f], Class(f), TRUE, Decoder.next - 1, Coming)
    BY <1>3, <1>4 DEF InOrder
  <2>5. InOrder(f)'
    <3>1. Decoder'.next = x'.read + InPiece' + 1
      BY <1>2, <1>7, <2>1, <2>2, <2>3, <2>4 DEF r
    <3>2. (Decoder.next + Len(Decoder.buf) + Len(Coming))' = Rest(fl[f])' + 1
      BY <1>8, <2>1, <2>2, <2>4
    <3>3. ~tainted' => ~tainted
      BY <1>1, <1>2
    <3> QED
      BY <1>1, <2>1, <2>2, <2>4, <3>1, <3>2, <3>3, OrderIs
  <2>6. XInStep'
    BY <1>3, <1>4, <1>7, <1>8, <1>9, <2>1, <2>5, StepsTo
  <2>7. XTypes'
    BY <1>1, <1>2, <1>7, <1>9 DEF XTypes
  <2>8. Progress'
    <3>1. CASE call'.pc = "idle"
      BY <1>3, <2>1, <3>1 DEF Progress
    <3>2. CASE call'.pc = "loop"
      <4>1. x'.read + call'.left = x.read + call.left
        BY <1>2, <1>7, <1>9, <3>2 DEF r
      <4>2. Entry' = Entry /\ Decoder' = Decoder
        BY <1>9, <2>1 DEF Entry
      <4>3. /\ call'.purpose = "discard" => x.read + call.left = Entry.suboffset /\ call.out = <<>>
            /\ call'.purpose = "extract" =>
                 /\ x.read + call.left = Entry.suboffset + Entry.size
                 /\ Entry.suboffset + Len(call.out) + 1 = Decoder.next
                 /\ ~tainted => \A k \in 1..Len(call.out) : call.out[k] = <<call.file, k>>
        BY <1>1, <1>9, <3>2, Within
      <4>4. ~tainted' => ~tainted
        BY <1>1, <1>2
      <4> QED
        BY <1>3, <1>4, <1>9, <2>1, <3>2, <4>1, <4>2, <4>3, <4>4 DEF Progress
    <3> QED
      BY <1>9, <3>1, <3>2
  <2>9. Extracted'
    BY <1>9 DEF Extracted
  <2> QED
    BY <2>6, <2>7, <2>8, <2>9 DEF ExtractorInv
<1>10. CASE call' = [call EXCEPT !.pc = "loop", !.left = @ - call.size]
  <2> DEFINE l == call.left - call.size
  <2>1. l \in Nat
    BY <1>1, <1>2, Within
  <2>2. call' = [call EXCEPT !.pc = "loop", !.left = l]
    BY <1>10
  <2> HIDE DEF l
  <2>3. /\ call' \in Call /\ call'.file = call.file /\ call'.pc = "loop" /\ call'.left = l
        /\ call'.purpose = call.purpose /\ call'.out = call.out /\ call'.outcome = call.outcome
    BY <1>2, <2>1, <2>2 DEF Call
  <2> QED
    BY <1>2, <1>9, <2>3 DEF l
<1>11. CASE Ends("cancelled", {"cancelled"})
  <2>1. {"cancelled"} \in SUBSET Causes
    BY DEF Causes
  <2>2. call' \in Call /\ call'.pc = "idle" /\ call'.outcome = "cancelled" /\ call'.file = call.file
    BY <1>2, <1>11, <2>1, EndsDoes
  <2> QED
    BY <1>9, <2>2
<1> QED
  BY <1>10, <1>11 DEF PieceDone

\* What is not compressed is read as it is, and the compiler stores nothing else so.
LEMMA StoredIsStored ==
  ASSUME CompilerInv, cpc = "compiled", NEW f \in DOMAIN fl, x.compressed = fl[f].compressed,
         Codec = "stored"
  PROVE  Class(f) = "stored"
<1>1. script.method \in Methods
  BY Ready, ScriptHas DEF CTypes
<1>2. Class(f) = IF fl[f].compressed THEN FactoryClass(FileAt(f)) ELSE "stored"
  BY EntryHas
<1>3. CASE ~fl[f].compressed
  BY <1>2, <1>3
<1>4. CASE fl[f].compressed
  <2>1. DecompClass = "stored"
    BY <1>4 DEF Codec, Compressed
  <2>2. script.method = "none"
    BY <1>1, <2>1 DEF DecompClass, Methods
  <2> QED
    BY <1>2, <1>4, <2>2 DEF FactoryClass
<1> QED
  BY <1>3, <1>4

Got(n) == [k \in 1..n |-> Yields(Decoder.buf[k], Codec, Decoder.next + k - 1)]
AllIntact(n) ==
  Codec = "stored" \/ \A k \in 1..n : Intact(Decoder.buf[k], Codec, Decoder.next + k - 1)

\* What is decoded of a file is the file.
LEMMA GotRight ==
  ASSUME CompilerInv, ExtractorInv, call.pc = "decode", call.purpose = "extract", ~tainted,
         NEW n \in Nat, n <= call.want, n <= Len(Decoder.buf), AllIntact(n), NEW k \in 1..n
  PROVE  Got(n)[k] = <<call.file, Len(call.out) + k>>
<1> DEFINE f == call.file
           e == fl[f]
           u == Decoder.buf[k]
           next == Decoder.next
           o == e.suboffset
           l == e.size
           m == Len(call.out)
           r == x.read
<1>1. XTypes
  BY DEF ExtractorInv
<1>2. cpc = "compiled" /\ f \in DOMAIN fl /\ OnPlace(f) /\ InOrder(f)
  BY Reading
<1>3. /\ o \in Nat /\ l \in Nat /\ r + call.left = o + l /\ o + m + 1 = next
      /\ next = r + InPiece + 1 /\ call.want <= call.size /\ call.size <= call.left
  BY Within DEF Entry
<1>4. /\ m \in Nat /\ next \in Nat /\ r \in Nat /\ call.left \in Nat /\ call.size \in Nat /\ call.want \in Nat
      /\ Len(Decoder.buf) \in Nat
  BY <1>1, XFields, CallFields
<1>5. InPiece = call.size - call.want
  BY DEF InPiece
<1>6. Right(fl, e, Class(f), TRUE, next - 1 + k, u)
  <2>1. RightFrom(fl, e, Class(f), TRUE, next - 1, Decoder.buf)
    BY <1>2 DEF InOrder
  <2>2. k \in 1..Len(Decoder.buf)
    BY <1>4
  <2> HIDE DEF f, e, next
  <2> QED
    BY <2>1, <2>2 DEF RightFrom
<1>7. x.compressed = e.compressed
  BY <1>2 DEF OnPlace
<1>8. Codec = "stored" => Class(f) = "stored"
  BY <1>2, <1>7, StoredIsStored
<1>9. Got(n)[k] = Yields(u, Codec, next + k - 1)
  BY DEF Got
<1>10. Codec # "stored" => Intact(u, Codec, next + k - 1)
  BY DEF AllIntact
<1> HIDE DEF e, u, next, o, l, m, r
<1>11. u.codec = Class(f) /\ u.key = NoKey
  BY <1>6 DEF Right
<1>12. Got(n)[k] = u.unit
  BY <1>8, <1>9, <1>10, <1>11 DEF Yields
<1>13. next - 1 + k = o + (m + k) /\ m + k \in 1..l
  <2>1. k \in Nat /\ k >= 1 /\ k <= n
    OBVIOUS
  <2>2. next - 1 + k = o + (m + k)
    BY <1>3, <1>4, <2>1
  <2>3. m + k <= l
    <3> DEFINE a == call.left
               b == call.size
               c == call.want
               p == InPiece
    <3>1. /\ r + a = o + l /\ o + m + 1 = next /\ next = r + p + 1 /\ c <= b /\ b <= a /\ p = b - c
          /\ k <= c /\ a \in Nat /\ b \in Nat /\ c \in Nat
      BY <1>3, <1>4, <1>5, <2>1
    <3> HIDE DEF a, b, c, p
    <3> QED
      BY <1>3, <1>4, <2>1, <3>1
  <2> QED
    BY <1>3, <1>4, <2>1, <2>2, <2>3
<1>14. u.unit = <<f, m + k>>
  <2>1. Stands(fl, e, TRUE, next - 1 + k, u.unit)
    BY <1>6 DEF Right
  <2>2. SameChunk(fl[f], e)
    BY DEF SameChunk, e
  <2> DEFINE j == next - 1 + k
             i == m + k
  <2>3. i \in 1..fl[f].size /\ fl[f].suboffset + i = j
    BY <1>13 DEF l, o, e
  <2> HIDE DEF f, i, j
  <2>4. f \in DOMAIN fl /\ Stands(fl, e, TRUE, j, u.unit)
    BY <1>2, <2>1 DEF j
  <2>5. u.unit = <<f, i>>
    BY <2>2, <2>3, <2>4 DEF Stands
  <2> QED
    BY <2>5 DEF i
<1> QED
  BY <1>12, <1>14 DEF m

LEMMA GotType ==
  ASSUME XTypes, NEW n \in Nat, n <= Len(Decoder.buf)
  PROVE  Got(n) \in Seq(Int \X Int) /\ Len(Got(n)) = n
<1>1. \A k \in 1..n : Decoder.buf[k] \in ReadUnit
  BY XFields, ElementOfSeq
<1>2. Garbage \in Int \X Int
  BY DEF Garbage, Garbled
<1>3. \A k \in 1..n : Yields(Decoder.buf[k], Codec, Decoder.next + k - 1) \in Int \X Int
  BY <1>1, <1>2 DEF Yields, ReadUnit
<1>4. Got(n) \in [1..n -> Int \X Int]
  BY <1>3 DEF Got
<1> QED
  BY <1>4, FunSeq

\* What is decoded is no longer held.
LEMMA DecodeKeeps ==
  ASSUME CompilerInv, ExtractorInv, Decode
  PROVE  ExtractorInv'
<1> DEFINE n == Least(call.want, Len(Decoder.buf))
<1>1. /\ call.pc = "decode" /\ call.want > 0 /\ n > 0 /\ UNCHANGED cVars /\ UNCHANGED <<keySet, last>>
      /\ \/ RaiseFromDecompress("corrupted", {})
         \/ /\ AllIntact(n) \/ tainted
            /\ dec' = [dec EXCEPT ![Compressed] =
                         [buf |-> From(Decoder.buf, n), next |-> Decoder.next + n]]
            /\ call' = [call EXCEPT !.want = @ - n,
                          !.out = IF call.purpose = "extract" THEN @ \o Got(n) ELSE @]
            /\ UNCHANGED <<x, tainted>>
  BY DEF Decode, Got, AllIntact, Decoder, Compressed
<1>2. XTypes /\ call \in Call /\ x \in Reader /\ Progress /\ dec \in [BOOLEAN -> Decompressor]
      /\ call.want \in Nat /\ call.size \in Nat /\ call.left \in Nat /\ x.read \in Nat
      /\ call.out \in Seq(Int \X Int) /\ call.outcome = "none" /\ tainted \in BOOLEAN
      /\ x.compressed \in BOOLEAN /\ Decoder.buf \in Seq(ReadUnit) /\ Len(Decoder.buf) \in Nat
      /\ Decoder.next \in Nat \ {0} /\ Decoder \in Decompressor
  BY <1>1, Reading, XFields, CallFields DEF ExtractorInv, XTypes
<1>3. cpc = "compiled" /\ OnPlace(call.file) /\ InOrder(call.file) /\ ~x.needReset /\ DecoderLoaded
  BY <1>1, Reading
<1>4. PICK f \in DOMAIN fl : f = call.file
  BY <1>1, Reading
<1>5. n \in Nat /\ n <= call.want /\ n <= Len(Decoder.buf) /\ n > 0 /\ n \in 0..Len(Decoder.buf)
  BY <1>1, <1>2 DEF Least
<1>6. CASE RaiseFromDecompress("corrupted", {})
  <2>1. {} \in SUBSET Causes
    OBVIOUS
  <2> QED
    BY <1>1, <1>6, <2>1, RaiseKeeps
<1>7. ASSUME AllIntact(n) \/ tainted, UNCHANGED <<x, tainted>>,
             dec' = [dec EXCEPT ![Compressed] = [buf |-> From(Decoder.buf, n), next |-> Decoder.next + n]],
             call' = [call EXCEPT !.want = @ - n,
                        !.out = IF call.purpose = "extract" THEN @ \o Got(n) ELSE @]
      PROVE  ExtractorInv'
  <2> DEFINE b == From(Decoder.buf, n)
             p == Decoder.next + n
             d == [buf |-> b, next |-> p]
             w == call.want - n
             out == IF call.purpose = "extract" THEN call.out \o Got(n) ELSE call.out
             next == Decoder.next
  <2>1. b \in Seq(ReadUnit) /\ Len(b) = Len(Decoder.buf) - n /\ Len(b) \in Nat
    <3> DEFINE s == Decoder.buf
    <3>2. s \in Seq(ReadUnit) /\ n \in 0..Len(s)
      BY <1>2, <1>5
    <3> HIDE DEF s, n
    <3>3. From(s, n) \in Seq(ReadUnit) /\ Len(From(s, n)) = Len(s) - n
      BY <3>2 DEF From
    <3> QED
      BY <1>2, <1>5, <3>2, <3>3 DEF s
  <2>2. p \in Nat \ {0} /\ w \in Nat /\ w <= call.size
    <3>1. call.want <= call.size
      BY <1>1, Within
    <3> QED
      BY <1>2, <1>5, <3>1
  <2>3. Got(n) \in Seq(Int \X Int) /\ Len(Got(n)) = n
    BY <1>2, <1>5, GotType
  <2>4. out \in Seq(Int \X Int)
    BY <1>2, <2>3
  <2>5. dec' = [dec EXCEPT ![x.compressed] = d]
    BY <1>7 DEF Compressed
  <2>6. call' = [call EXCEPT !.want = w, !.out = out]
    BY <1>7
  <2> HIDE DEF b, p, w, out, n
  <2>7. d \in Decompressor /\ d.buf = b /\ d.next = p
    BY <2>1, <2>2 DEF Decompressor
  <2> HIDE DEF d
  <2>8. dec' \in [BOOLEAN -> Decompressor] /\ Decoder' = d
    <3> DEFINE c == x.compressed
    <3>1. c \in BOOLEAN /\ x'.compressed = c
      BY <1>2, <1>7
    <3>2. dec \in [BOOLEAN -> Decompressor] /\ d \in Decompressor /\ dec' = [dec EXCEPT ![c] = d]
      BY <1>2, <2>5, <2>7
    <3> HIDE DEF c
    <3>3. dec' \in [BOOLEAN -> Decompressor] /\ dec'[c] = d
      BY <3>1, <3>2
    <3> QED
      BY <3>1, <3>3 DEF Decoder
  <2>9. /\ call' \in Call /\ call'.pc = "decode" /\ call'.file = f /\ call'.out = out
        /\ call'.purpose = call.purpose /\ call'.outcome = "none" /\ call'.left = call.left
        /\ call'.size = call.size /\ call'.want = w
    BY <1>1, <1>2, <1>4, <2>2, <2>4, <2>6 DEF Call
  <2>10. fl' = fl /\ cpc' = cpc /\ DecoderLoaded' = DecoderLoaded /\ x' = x /\ tainted' = tainted
    BY <1>1, <1>7, UntouchedMeans
  <2>11. OnPlace(f)' /\ Rest(fl[f])' = Rest(fl[f])
    BY <1>1, <1>3, <1>4, <2>10, SamePlace
  <2>12. /\ Coming = <<>> /\ Coming' = <<>> /\ InPiece = call.size - call.want
         /\ InPiece' = call.size - w
    BY <1>1, <2>9 DEF Coming, InPiece
  <2>13. /\ next + Len(Decoder.buf) + Len(Coming) = Rest(fl[f]) + 1
         /\ next = x.read + InPiece + 1
         /\ ~tainted => RightFrom(fl, fl[f], Class(f), TRUE, next - 1, Decoder.buf)
    BY <1>3, <1>4 DEF InOrder
  <2>14. InOrder(f)'
    <3>1. (Decoder.next + Len(Decoder.buf) + Len(Coming))' = Rest(fl[f])' + 1
      <4> DEFINE q == Len(Decoder.buf)
                 g == Rest(fl[f])
                 z == Len(b)
      <4>1. next + q = g + 1 /\ next \in Nat /\ q \in Nat /\ z = q - n /\ p = next + n
        BY <1>2, <2>1, <2>12, <2>13 DEF p
      <4>2. (Decoder.next + Len(Decoder.buf) + Len(Coming))' = p + z
        BY <2>1, <2>2, <2>7, <2>8, <2>12
      <4>3. Rest(fl[f])' = g
        BY <2>11
      <4> HIDE DEF q, g, z, next
      <4>4. p + z = g + 1
        BY <1>5, <4>1
      <4> QED
        BY <4>2, <4>3, <4>4
    <3>2. Decoder'.next = x'.read + InPiece' + 1
      <4>1. p = x.read + (call.size - w) + 1
        <5> DEFINE r == x.read
                   l == call.size
                   a == call.want
                   i == InPiece
        <5>1. /\ p = next + n /\ w = a - n /\ i = l - a /\ next = r + i + 1
              /\ r \in Nat /\ l \in Nat /\ a \in Nat /\ next \in Nat
          BY <1>2, <2>12, <2>13 DEF p, w
        <5> HIDE DEF r, l, a, i, next
        <5>2. p = r + (l - w) + 1
          BY <1>5, <5>1
        <5> QED
          BY <5>2 DEF r, l
      <4> QED
        BY <2>7, <2>8, <2>10, <2>12, <4>1
    <3>3. ASSUME ~tainted'
          PROVE  /\ RightFrom(fl, fl[f], Class(f), TRUE, Decoder'.next - 1, Decoder'.buf)
                 /\ RightFrom(fl, fl[f], Class(f), TRUE, Decoder'.next - 1, Coming')
      <4> DEFINE a == next - 1
                 s == Decoder.buf
                 c == Class(f)
                 e == fl[f]
      <4>1. RightFrom(fl, e, c, TRUE, a, s)
        BY <1>2, <2>10, <2>13, <3>3
      <4>2. a \in Nat /\ s \in Seq(ReadUnit) /\ n \in 0..Len(s)
        BY <1>2, <1>5
      <4>3. p - 1 = a + n
        BY <1>2, <1>5 DEF p
      <4> HIDE DEF a, s, c, e
      <4>4. RightFrom(fl, e, c, TRUE, a + n, From(s, n))
        BY <4>1, <4>2, RightFromParts
      <4>5. RightFrom(fl, e, c, TRUE, p - 1, b)
        BY <4>3, <4>4 DEF b, s
      <4>6. RightFrom(fl, e, c, TRUE, p - 1, <<>>)
        BY RightFromEmpty
      <4> QED
        BY <2>7, <2>8, <2>12, <4>5, <4>6 DEF c, e
    <3> HIDE DEF next
    <3> QED
      BY <1>1, <3>1, <3>2, <3>3, OrderIs
  <2>15. XInStep'
    BY <1>3, <1>4, <2>9, <2>10, <2>11, <2>14, StepsTo
  <2>16. XTypes'
    BY <1>1, <1>2, <2>8, <2>9, <2>10 DEF XTypes
  <2>17. Progress'
    <3>1. Entry' = Entry
      BY <1>4, <2>9, <2>10 DEF Entry
    <3>2. ASSUME call.purpose = "discard"
          PROVE  call'.out = <<>> /\ x'.read + call'.left = Entry'.suboffset
      BY <1>1, <2>9, <2>10, <3>1, <3>2, Within DEF out
    <3>3. ASSUME call.purpose = "extract"
          PROVE  /\ x'.read + call'.left = Entry'.suboffset + Entry'.size
                 /\ Entry'.suboffset + Len(call'.out) + 1 = Decoder'.next
                 /\ ~tainted' => \A k \in 1..Len(call'.out) : call'.out[k] = <<call'.file, k>>
      <4> DEFINE m == Len(call.out)
      <4>1. /\ x.read + call.left = Entry.suboffset + Entry.size
            /\ Entry.suboffset \in Nat /\ Entry.suboffset + m + 1 = next
            /\ ~tainted => \A k \in 1..m : call.out[k] = <<call.file, k>>
        BY <1>1, <3>3, Within
      <4>2. /\ Len(out) = m + n /\ m \in Nat
            /\ \A k \in 1..m : out[k] = call.out[k]
            /\ \A k \in 1..n : out[m + k] = Got(n)[k]
        <5> DEFINE S == Int \X Int
                   a == call.out
                   t == Got(n)
        <5>1. a \in Seq(S) /\ t \in Seq(S) /\ Len(t) = n /\ out = a \o t
          BY <1>2, <2>3, <3>3 DEF out
        <5>2. Len(a) \in Nat
          BY <1>2
        <5> HIDE DEF S, a, t
        <5>3. Len(a \o t) = Len(a) + Len(t)
          BY <5>1, ConcatBehind
        <5>4. \A k \in 1..Len(a) : (a \o t)[k] = a[k]
          BY <5>1, ConcatBehind
        <5>5. \A k \in 1..Len(t) : (a \o t)[Len(a) + k] = t[k]
          BY <5>1, ConcatBehind
        <5> QED
          BY <5>1, <5>2, <5>3, <5>4, <5>5 DEF a, t
      <4>3. Entry'.suboffset + Len(call'.out) + 1 = Decoder'.next
        <5> DEFINE o == Entry.suboffset
        <5>1. o \in Nat /\ o + m + 1 = next /\ p = next + n
          BY <4>1 DEF p
        <5> HIDE DEF o, m, next
        <5>2. o + (m + n) + 1 = p
          BY <1>5, <4>2, <5>1
        <5> QED
          BY <2>7, <2>8, <2>9, <3>1, <4>2, <5>2 DEF o
      <4>4. ASSUME ~tainted', NEW k \in 1..Len(call'.out)
            PROVE  call'.out[k] = <<call'.file, k>>
        <5>1. ~tainted /\ AllIntact(n)
          BY <1>2, <1>7, <2>10, <4>4
        <5>2. \A i \in 1..n : Got(n)[i] = <<call.file, m + i>>
          BY <1>1, <1>5, <3>3, <5>1, GotRight
        <5>3. \A i \in 1..m : call.out[i] = <<call.file, i>>
          BY <4>1, <5>1
        <5>4. call'.out = out /\ call'.file = call.file /\ k \in 1..(m + n)
          BY <1>4, <2>9, <4>2
        <5> HIDE DEF m
        <5>5. CASE k <= m
          BY <4>2, <5>3, <5>4, <5>5
        <5>6. CASE k > m
          <6>1. k - m \in 1..n /\ m + (k - m) = k
            BY <1>5, <4>2, <5>4, <5>6
          <6> QED
            BY <4>2, <5>2, <5>4, <6>1
        <5> QED
          BY <4>2, <5>4, <5>5, <5>6
      <4> QED
        BY <2>9, <2>10, <3>1, <4>1, <4>3, <4>4
    <3>4. call'.want <= call'.size /\ call'.size <= call'.left
      BY <1>1, <2>2, <2>9, Within
    <3>5. /\ call'.purpose = "discard" => call'.out = <<>> /\ x'.read + call'.left = Entry'.suboffset
          /\ call'.purpose = "extract" =>
               /\ x'.read + call'.left = Entry'.suboffset + Entry'.size
               /\ Entry'.suboffset + Len(call'.out) + 1 = Decoder'.next
               /\ ~tainted' => \A k \in 1..Len(call'.out) : call'.out[k] = <<call'.file, k>>
      BY <2>9, <3>2, <3>3
    <3> QED
      BY <1>3, <1>4, <2>9, <2>10, <3>4, <3>5 DEF Progress
  <2>18. Extracted'
    BY <2>9 DEF Extracted
  <2> QED
    BY <2>15, <2>16, <2>17, <2>18 DEF ExtractorInv
<1> QED
  BY <1>1, <1>6, <1>7

\* Reading on in the open slice.
LEMMA PlaceMoves ==
  ASSUME CompilerInv, cpc = "compiled", XTypes, NEW f \in DOMAIN fl, OnPlace(f),
         NEW n \in Nat, n <= x.bytesLeft, n <= Len(slices[x.opened].data) - x.pos,
         NEW y, y = AfterRead(n, x)
  PROVE  /\ y \in Reader /\ y.opened = x.opened /\ y.pos = x.pos + n /\ y.bytesLeft = x.bytesLeft - n
         /\ y.firstSlice = x.firstSlice /\ y.startOffset = x.startOffset /\ y.lastSlice = x.lastSlice
         /\ y.compressed = x.compressed /\ y.encrypted = x.encrypted /\ y.read = x.read
         /\ y.needReset = x.needReset
         /\ y.encrypted => y.crypt = <<fl[f].firstSlice, fl[f].startOffset, Rest(fl[f]) + n>>
<1> DEFINE e == fl[f]
           r == Rest(e)
           p == x.pos + n
           b == x.bytesLeft - n
           c == IF x.encrypted THEN <<x.crypt[1], x.crypt[2], x.crypt[3] + n>> ELSE x.crypt
<1>1. /\ x \in Reader /\ x.pos \in Nat /\ x.bytesLeft \in Nat /\ r \in Nat /\ x.crypt \in Seq(Int)
      /\ x.encrypted \in BOOLEAN
      /\ x.encrypted => x.crypt = <<e.firstSlice, e.startOffset, r>>
  BY XFields, OnPlaceHas
<1>2. p \in Nat /\ b \in Nat
  BY <1>1
<1>3. e.firstSlice \in Nat /\ e.startOffset \in Nat
  <2>1. e.firstSlice \in 1..Len(slices) /\ e.startOffset \in Nat /\ Len(slices) \in Nat
    BY EntryHas, Ready
  <2> HIDE DEF e
  <2> QED
    BY <2>1
<1>4. x.encrypted => c = <<e.firstSlice, e.startOffset, r + n>>
  BY <1>1
<1>5. c \in Seq(Int)
  <2> HIDE DEF r, e
  <2>1. <<e.firstSlice, e.startOffset, r + n>> \in Seq(Int)
    BY <1>1, <1>3, TripleSeq
  <2>2. ~x.encrypted => c = x.crypt
    OBVIOUS
  <2> HIDE DEF c
  <2> QED
    BY <1>1, <1>4, <2>1, <2>2
<1>6. y = [x EXCEPT !.pos = p, !.bytesLeft = b, !.crypt = c]
  BY DEF AfterRead
<1> HIDE DEF p, b, c, r, e
<1>7. /\ y \in Reader /\ y.opened = x.opened /\ y.pos = p /\ y.bytesLeft = b
      /\ y.firstSlice = x.firstSlice /\ y.startOffset = x.startOffset /\ y.lastSlice = x.lastSlice
      /\ y.compressed = x.compressed /\ y.encrypted = x.encrypted /\ y.read = x.read
      /\ y.needReset = x.needReset /\ y.crypt = c
  BY <1>1, <1>2, <1>5, <1>6 DEF Reader
<1> QED
  BY <1>4, <1>7 DEF p, b, r, e

\* A read that is under way.
LEMMA ReadHas ==
  ASSUME CompilerInv, ExtractorInv, call.pc = "read"
  PROVE  /\ cpc = "compiled" /\ call.file \in DOMAIN fl /\ OnPlace(call.file) /\ InOrder(call.file)
         /\ DecoderLoaded /\ call.outcome = "none" /\ ~x.needReset /\ XTypes
         /\ Decoder.buf = <<>> /\ call.want > 0 /\ call.toRead \in 1..x.bytesLeft
         /\ call.toRead \in Nat /\ x.bytesLeft \in Nat
         /\ InSlice \in Nat /\ InSlice <= call.toRead /\ InSlice <= x.bytesLeft
         /\ InSlice <= Len(slices[x.opened].data) - x.pos
         /\ InSlice < call.toRead => x.pos + InSlice = Len(slices[x.opened].data)
<1>1. /\ cpc = "compiled" /\ call.file \in DOMAIN fl /\ OnPlace(call.file) /\ InOrder(call.file)
      /\ DecoderLoaded /\ call.outcome = "none" /\ ~x.needReset /\ XTypes /\ Progress
  BY Reading DEF ExtractorInv
<1>2. Decoder.buf = <<>> /\ call.want > 0 /\ call.toRead \in 1..x.bytesLeft
  BY <1>1 DEF Progress
<1>3. call.toRead \in Nat /\ x.bytesLeft \in Nat
  BY <1>1, CallFields, XFields
<1> DEFINE l == Len(slices[x.opened].data)
<1>4. l \in Nat /\ x.pos \in Nat /\ x.pos <= l
  BY <1>1, OnPlaceHas
<1>5. InSlice = Least(call.toRead, l - x.pos)
  BY DEF InSlice
<1> HIDE DEF l
<1>6. /\ InSlice \in Nat /\ InSlice <= call.toRead /\ InSlice <= l - x.pos
      /\ InSlice < call.toRead => x.pos + InSlice = l
  BY <1>3, <1>4, <1>5 DEF Least
<1>7. InSlice <= x.bytesLeft
  BY <1>2, <1>3, <1>6
<1> QED
  BY <1>1, <1>2, <1>3, <1>6, <1>7 DEF l

\* What comes in goes behind what has come in.
LEMMA ComingRight ==
  ASSUME CompilerInv, ExtractorInv, call.pc = "read", NEW n \in Nat, n = InSlice
  PROVE  LET f == call.file
             next == Decoder.next
             all == call.inbuf \o Received(n)
         IN  /\ all \in Seq(ReadUnit) /\ Len(all) = Len(call.inbuf) + n
             /\ next + Len(call.inbuf) = Rest(fl[f]) + 1 /\ Rest(fl[f]) \in Nat /\ next \in Nat \ {0}
             /\ Len(call.inbuf) \in Nat
             /\ ~tainted => RightFrom(fl, fl[f], Class(f), TRUE, next - 1, all)
<1> DEFINE f == call.file
           e == fl[f]
           next == Decoder.next
           s == call.inbuf
           t == Received(n)
           r == Rest(e)
           m == Len(s)
           c == Class(f)
<1>1. /\ cpc = "compiled" /\ f \in DOMAIN fl /\ OnPlace(f) /\ InOrder(f) /\ XTypes /\ Decoder.buf = <<>>
      /\ n <= x.bytesLeft /\ n <= Len(slices[x.opened].data) - x.pos
  BY ReadHas
<1>2. s \in Seq(ReadUnit) /\ m \in Nat /\ next \in Nat \ {0} /\ r \in Nat
  BY <1>1, CallFields, XFields, OnPlaceHas
<1>3. t \in Seq(ReadUnit)
  BY <1>1, ReceivedDoes
<1>4. Len(t) = n
  BY <1>1, ReceivedDoes
<1>5. RightFrom(fl, e, c, TRUE, r, t)
  BY <1>1, ReceivedDoes
<1>6. Coming = s
  BY DEF Coming
<1>7. next + m = r + 1
  <2>1. next + Len(Decoder.buf) + m = r + 1 /\ Len(Decoder.buf) = 0
    BY <1>1, <1>6 DEF InOrder
  <2> HIDE DEF next, m, r
  <2> QED
    BY <1>2, <2>1
<1>8. ~tainted => RightFrom(fl, e, c, TRUE, next - 1, s)
  BY <1>1, <1>6 DEF InOrder
<1> HIDE DEF next, s, t, r, e, c
<1>9. s \o t \in Seq(ReadUnit)
  BY <1>2, <1>3
<1>10. Len(s \o t) = m + n
  BY <1>2, <1>3, <1>4, ConcatBehind
<1>11. ASSUME ~tainted
       PROVE  RightFrom(fl, e, c, TRUE, next - 1, s \o t)
  <2> DEFINE a == next - 1
  <2>1. a \in Nat /\ a + Len(s) = r
    BY <1>2, <1>7
  <2>2. RightFrom(fl, e, c, TRUE, a, s) /\ RightFrom(fl, e, c, TRUE, a + Len(s), t)
    BY <1>5, <1>8, <1>11, <2>1
  <2> HIDE DEF a
  <2>3. RightFrom(fl, e, c, TRUE, a, s \o t)
    BY <1>2, <1>3, <2>1, <2>2, RightFromConcat
  <2> QED
    BY <2>3 DEF a
<1> QED
  BY <1>2, <1>7, <1>9, <1>10, <1>11 DEF next, s, t, r, e, c

\* What has been read, and where reading goes on.
LEMMA MovedOn ==
  ASSUME CompilerInv, ExtractorInv, call.pc = "read", UNCHANGED cVars,
         NEW f \in DOMAIN fl, f = call.file, NEW n \in Nat, n = InSlice,
         x'.bytesLeft = x.bytesLeft - n,
         x'.firstSlice = x.firstSlice, x'.startOffset = x.startOffset, x'.lastSlice = x.lastSlice,
         x'.compressed = x.compressed, x'.encrypted = x.encrypted,
         x'.encrypted => x'.crypt = <<fl[f].firstSlice, fl[f].startOffset, Rest(fl[f]) + n>>,
         x'.opened \in fl[f].firstSlice..fl[f].lastSlice,
         x'.pos <= Len(slices[x'.opened].data),
         Before(slices, x'.opened) + x'.pos = Before(slices, x.opened) + x.pos + n
  PROVE  OnPlace(f)' /\ Rest(fl[f])' = Rest(fl[f]) + n
<1> DEFINE e == fl[f]
           r == Rest(e)
           z == e.compressedSize
           b == x.bytesLeft
           p == Before(slices, x.opened) + x.pos
           a == StartOf(slices, e)
<1>1. cpc = "compiled" /\ OnPlace(f) /\ XTypes /\ n <= b
  BY ReadHas
<1>2. r \in Nat /\ r + b = z /\ b \in Nat /\ p = a + r
  BY <1>1, OnPlaceHas
<1>3. fl' = fl /\ slices' = slices
  BY UntouchedMeans
<1>4. z \in Nat /\ a \in Nat
  BY <1>1, EntryHas
<1>5. Rest(e)' = z - (b - n)
  BY <1>3 DEF Rest
<1> HIDE DEF r, z, b, p, a
<1>6. Rest(e)' = r + n
  BY <1>2, <1>4, <1>5
<1>7. x'.bytesLeft <= z
  BY <1>2 DEF b
<1>8. Before(slices, x'.opened) + x'.pos = a + (r + n)
  BY <1>2, <1>4 DEF p
<1>9. /\ SameChunk(x', e) /\ x'.lastSlice = e.lastSlice
      /\ x'.compressed = e.compressed /\ x'.encrypted = e.encrypted
  BY <1>1 DEF OnPlace, SameChunk
<1>10. OnPlace(f)'
  BY <1>3, <1>6, <1>7, <1>8, <1>9 DEF OnPlace, SameChunk, r, z, a
<1> QED
  BY <1>6, <1>10 DEF r

\* All that was asked for has come.
LEMMA ReadRestKeeps ==
  ASSUME CompilerInv, ExtractorInv, ReadRest
  PROVE  ExtractorInv'
<1> DEFINE n == InSlice
<1>1. /\ call.pc = "read" /\ n = call.toRead /\ UNCHANGED cVars /\ UNCHANGED <<keySet, last>>
      /\ x' = AfterRead(n, x)
  BY DEF ReadRest
<1>2. /\ cpc = "compiled" /\ OnPlace(call.file) /\ InOrder(call.file)
      /\ DecoderLoaded /\ call.outcome = "none" /\ ~x.needReset /\ XTypes
      /\ Decoder.buf = <<>> /\ n \in Nat /\ n <= x.bytesLeft /\ x.bytesLeft \in Nat
      /\ n <= Len(slices[x.opened].data) - x.pos
  BY <1>1, ReadHas
<1>3. PICK f \in DOMAIN fl : f = call.file
  BY <1>1, ReadHas
<1>4. PICK damaged \in BOOLEAN :
        LET units == IF damaged THEN [k \in 1..n |-> Garbled] ELSE Received(n)
        IN  /\ dec' = [dec EXCEPT ![Compressed].buf = call.inbuf \o units]
            /\ tainted' = (tainted \/ damaged)
            /\ call' = [call EXCEPT !.pc = "decode", !.inbuf = <<>>, !.toRead = 0,
                                    !.cause = @ \cup (IF damaged THEN {"damaged"} ELSE {})]
  BY DEF ReadRest
<1> DEFINE units == IF damaged THEN [k \in 1..n |-> Garbled] ELSE Received(n)
           all == call.inbuf \o units
           next == Decoder.next
           e == fl[f]
           r == Rest(e)
           m == Len(call.inbuf)
           c == Class(f)
<1>5. /\ m \in Nat /\ r \in Nat /\ next \in Nat \ {0} /\ next + m = r + 1
  BY <1>1, <1>2, <1>3, ComingRight
<1>6. all \in Seq(ReadUnit) /\ Len(all) = m + n
  <2>1. CASE ~damaged
    BY <1>1, <1>2, <2>1, ComingRight
  <2>2. CASE damaged
    <3> DEFINE t == [k \in 1..n |-> Garbled]
               s == call.inbuf
    <3>1. t \in [1..n -> ReadUnit]
      BY GarbledType
    <3>2. t \in Seq(ReadUnit) /\ Len(t) = n
      <4> HIDE DEF t, n
      <4> QED
        BY <1>2, <3>1, FunSeq
    <3>3. s \in Seq(ReadUnit)
      BY <1>2, CallFields
    <3>4. all = s \o t
      BY <2>2
    <3> HIDE DEF s, t, all, n
    <3>5. Len(s \o t) = Len(s) + Len(t)
      BY <3>2, <3>3, ConcatBehind
    <3> QED
      BY <3>2, <3>3, <3>4, <3>5 DEF s
  <2> QED
    BY <2>1, <2>2
<1>7. ASSUME ~tainted'
      PROVE  ~tainted /\ RightFrom(fl, e, c, TRUE, next - 1, all)
  <2>1. ~tainted /\ ~damaged
    BY <1>4, <1>7
  <2>2. all = call.inbuf \o Received(n)
    BY <2>1
  <2>3. RightFrom(fl, e, c, TRUE, next - 1, call.inbuf \o Received(n))
    BY <1>1, <1>2, <1>3, <2>1, ComingRight
  <2> QED
    BY <2>1, <2>2, <2>3
<1>8. dec' = [dec EXCEPT ![x.compressed].buf = all] /\ tainted' \in BOOLEAN
  BY <1>2, <1>4 DEF Compressed, XTypes
<1>9. /\ call' \in Call /\ call'.pc = "decode" /\ call'.file = f /\ call'.outcome = "none"
      /\ call'.inbuf = <<>> /\ call'.out = call.out /\ call'.purpose = call.purpose
      /\ call'.left = call.left /\ call'.size = call.size /\ call'.want = call.want
  <2> DEFINE cause == call.cause \cup (IF damaged THEN {"damaged"} ELSE {})
  <2>1. call \in Call /\ <<>> \in Seq(ReadUnit)
    BY <1>2, CallFields
  <2>2. cause \in SUBSET {"refused", "ioerror", "corrupted", "cancelled", "nokey", "damaged"}
    BY <1>2, CallFields
  <2>3. call' = [call EXCEPT !.pc = "decode", !.inbuf = <<>>, !.toRead = 0, !.cause = cause]
    BY <1>4
  <2> HIDE DEF cause
  <2> QED
    BY <1>2, <1>3, <2>1, <2>2, <2>3 DEF Call
<1> HIDE DEF all, units, n
<1>10. /\ x' \in Reader /\ x'.opened = x.opened /\ x'.pos = x.pos + n /\ x'.bytesLeft = x.bytesLeft - n
       /\ x'.firstSlice = x.firstSlice /\ x'.startOffset = x.startOffset /\ x'.lastSlice = x.lastSlice
       /\ x'.compressed = x.compressed /\ x'.encrypted = x.encrypted /\ x'.read = x.read
       /\ x'.needReset = x.needReset
       /\ x'.encrypted => x'.crypt = <<e.firstSlice, e.startOffset, r + n>>
  BY <1>1, <1>2, <1>3, PlaceMoves
<1>11. /\ dec' \in [BOOLEAN -> Decompressor] /\ Decoder'.buf = all /\ Decoder'.next = next
  <2> DEFINE z == x.compressed
  <2>1. z \in BOOLEAN /\ dec \in [BOOLEAN -> Decompressor] /\ x'.compressed = z
    BY <1>2, <1>10, XFields
  <2>2. dec' = [dec EXCEPT ![z].buf = all]
    BY <1>8
  <2> HIDE DEF z
  <2>3. dec' \in [BOOLEAN -> Decompressor] /\ dec'[z].buf = all /\ dec'[z].next = dec[z].next
    BY <1>6, <2>1, <2>2 DEF Decompressor
  <2> QED
    BY <2>1, <2>3 DEF Decoder, z
<1>12. fl' = fl /\ cpc' = cpc /\ slices' = slices /\ DecoderLoaded' = DecoderLoaded
  BY <1>1, UntouchedMeans
<1>13. OnPlace(f)' /\ Rest(e)' = r + n
  <2>1. /\ x.opened \in e.firstSlice..e.lastSlice /\ x.pos \in Nat /\ Before(slices, x.opened) \in Nat
        /\ Len(slices[x.opened].data) \in Nat
    BY <1>2, <1>3, OnPlaceHas DEF OnPlace
  <2>2. x'.opened \in e.firstSlice..e.lastSlice
    BY <1>10, <2>1
  <2>3. x'.pos <= Len(slices[x'.opened].data)
    BY <1>2, <1>10, <2>1 DEF n
  <2>4. Before(slices, x'.opened) + x'.pos = Before(slices, x.opened) + x.pos + n
    BY <1>2, <1>10, <2>1 DEF n
  <2>5. n = InSlice /\ n \in Nat
    BY <1>2 DEF n
  <2>6. OnPlace(f)'
    BY <1>1, <1>3, <1>10, <2>2, <2>3, <2>4, <2>5, MovedOn
  <2>7. Rest(fl[f])' = Rest(fl[f]) + n
    BY <1>1, <1>3, <1>10, <2>2, <2>3, <2>4, <2>5, MovedOn
  <2> QED
    BY <2>6, <2>7
<1>14. InPiece' = InPiece /\ Coming' = <<>>
  BY <1>1, <1>9 DEF InPiece, Coming
<1>15. InOrder(f)'
  <2>1. (Decoder.next + Len(Decoder.buf) + Len(Coming))' = Rest(e)' + 1
    <3>1. (Decoder.next + Len(Decoder.buf) + Len(Coming))' = next + (m + n)
      BY <1>2, <1>5, <1>6, <1>11, <1>14 DEF n
    <3> HIDE DEF next, m, r, e
    <3>2. n \in Nat
      BY <1>2 DEF n
    <3>3. next + (m + n) = (r + n) + 1
      BY <1>5, <3>2
    <3> QED
      BY <1>13, <3>1, <3>3
  <2>2. Decoder'.next = x'.read + InPiece' + 1
    BY <1>2, <1>3, <1>10, <1>11, <1>14 DEF InOrder
  <2>3. ~tainted' => RightFrom(fl, fl[f], Class(f), TRUE, Decoder'.next - 1, Decoder'.buf)
    BY <1>7, <1>11
  <2>4. RightFrom(fl, fl[f], Class(f), TRUE, Decoder'.next - 1, Coming')
    BY <1>14, RightFromEmpty
  <2> QED
    BY <1>1, <2>1, <2>2, <2>3, <2>4, OrderIs
<1>16. XInStep'
  BY <1>2, <1>3, <1>9, <1>10, <1>12, <1>13, <1>15, StepsTo
<1>17. XTypes'
  BY <1>1, <1>2, <1>8, <1>9, <1>10, <1>11 DEF XTypes
<1>18. Progress'
  <2>1. Entry' = Entry
    BY <1>3, <1>9, <1>12 DEF Entry
  <2>2. Progress
    BY DEF ExtractorInv
  <2>3. ~tainted' => ~tainted
    BY <1>7
  <2> QED
    BY <1>1, <1>2, <1>3, <1>9, <1>10, <1>11, <1>12, <2>1, <2>2, <2>3 DEF Progress
<1>19. Extracted'
  BY <1>9 DEF Extracted
<1> QED
  BY <1>16, <1>17, <1>18, <1>19 DEF ExtractorInv

\* The stream goes on in the next slice, if there is one.
LEMMA ReadNextSliceKeeps ==
  ASSUME CompilerInv, ExtractorInv, ReadNextSlice
  PROVE  ExtractorInv'
<1> DEFINE n == InSlice
           next == Decoder.next
           all == call.inbuf \o Received(n)
           y == AfterRead(n, x)
<1>1. call.pc = "read" /\ n < call.toRead /\ UNCHANGED cVars /\ UNCHANGED <<keySet, last>>
  BY DEF ReadNextSlice
<1>2. /\ cpc = "compiled" /\ OnPlace(call.file) /\ InOrder(call.file)
      /\ DecoderLoaded /\ call.outcome = "none" /\ ~x.needReset /\ XTypes
      /\ Decoder.buf = <<>> /\ n \in Nat /\ n <= x.bytesLeft /\ x.bytesLeft \in Nat
      /\ n <= Len(slices[x.opened].data) - x.pos /\ x.pos + n = Len(slices[x.opened].data)
      /\ call.toRead \in 1..x.bytesLeft /\ call.toRead \in Nat /\ call.want > 0
  BY <1>1, ReadHas
<1>3. PICK f \in DOMAIN fl : f = call.file
  BY <1>1, ReadHas
<1> DEFINE e == fl[f]
           r == Rest(e)
           m == Len(call.inbuf)
           c == Class(f)
<1>4. /\ m \in Nat /\ r \in Nat /\ next \in Nat \ {0} /\ next + m = r + 1
      /\ all \in Seq(ReadUnit) /\ Len(all) = m + n
      /\ ~tainted => RightFrom(fl, e, c, TRUE, next - 1, all)
  BY <1>1, <1>2, <1>3, ComingRight
<1> HIDE DEF n, all, y
<1>5. /\ y \in Reader /\ y.opened = x.opened /\ y.pos = x.pos + n /\ y.bytesLeft = x.bytesLeft - n
      /\ y.firstSlice = x.firstSlice /\ y.startOffset = x.startOffset /\ y.lastSlice = x.lastSlice
      /\ y.compressed = x.compressed /\ y.encrypted = x.encrypted /\ y.read = x.read
      /\ y.needReset = x.needReset
      /\ y.encrypted => y.crypt = <<e.firstSlice, e.startOffset, r + n>>
  BY <1>1, <1>2, <1>3, PlaceMoves DEF y
<1>6. CASE RaiseFromDecompress("corrupted", {})
  <2>1. {} \in SUBSET Causes
    OBVIOUS
  <2> QED
    BY <1>1, <1>6, <2>1, RaiseKeeps
<1>7. CASE /\ \E fault \in OpenFaults(x.opened + 1) : EndsOpening(fault, x.opened + 1)
           /\ x' = [Closed(y) EXCEPT !.needReset = TRUE]
           /\ UNCHANGED <<dec, tainted>>
  <2>1. x' \in Reader /\ x'.needReset
    BY <1>5, <1>7 DEF Closed, Reader
  <2>2. call' \in Call /\ call'.pc = "idle" /\ call'.outcome \notin {"none", "ok"}
    <3> DEFINE s == x.opened + 1
    <3>1. \E fault \in OpenFaults(s) : EndsOpening(fault, s)
      BY <1>7
    <3> HIDE DEF s
    <3> QED
      BY <1>2, <3>1, OpeningEnds
  <2> QED
    BY <1>1, <1>7, <2>1, <2>2, FailureKeeps
<1>8. CASE /\ ~(x.opened >= x.lastSlice)
           /\ x' = [y EXCEPT !.opened = @ + 1, !.pos = 0]
           /\ call' = [call EXCEPT !.toRead = @ - n, !.inbuf = all]
           /\ UNCHANGED <<dec, tainted>>
  <2> DEFINE s == x.opened + 1
             t == call.toRead - n
  <2>1. /\ x.opened \in 1..Len(slices) /\ x.opened \in e.firstSlice..e.lastSlice /\ x.lastSlice = e.lastSlice
        /\ x.pos \in Nat /\ Before(slices, x.opened) \in Nat /\ Len(slices[x.opened].data) \in Nat
    BY <1>2, <1>3, OnPlaceHas DEF OnPlace
  <2>2. /\ slices \in Seq(Slice) /\ Len(slices) \in Nat /\ e.firstSlice \in 1..Len(slices)
        /\ e.lastSlice \in 1..Len(slices)
    BY <1>2, Ready, EntryHas
  <2>3. s \in Nat /\ s \in e.firstSlice..e.lastSlice /\ s \in 1..Len(slices) /\ t \in Nat /\ t \in 1..(x.bytesLeft - n)
    <3> HIDE DEF e
    <3>1. x.lastSlice \in Nat /\ x.opened < x.lastSlice
      BY <1>8, <2>1, <2>2
    <3>2. s \in Nat /\ s \in e.firstSlice..e.lastSlice /\ s \in 1..Len(slices)
      BY <2>1, <2>2, <3>1
    <3>3. t \in Nat /\ t \in 1..(x.bytesLeft - n)
      BY <1>1, <1>2 DEF n
    <3> QED
      BY <3>2, <3>3
  <2>4. x' = [y EXCEPT !.opened = s, !.pos = 0]
    BY <1>5, <1>8
  <2>5. call' = [call EXCEPT !.toRead = t, !.inbuf = all]
    BY <1>8
  <2> HIDE DEF s, t
  <2>6. /\ x' \in Reader /\ x'.opened = s /\ x'.pos = 0 /\ x'.bytesLeft = y.bytesLeft
        /\ x'.firstSlice = y.firstSlice /\ x'.startOffset = y.startOffset /\ x'.lastSlice = y.lastSlice
        /\ x'.compressed = y.compressed /\ x'.encrypted = y.encrypted /\ x'.read = y.read
        /\ x'.needReset = y.needReset /\ x'.crypt = y.crypt
    BY <1>5, <2>3, <2>4 DEF Reader
  <2>7. call \in Call
    BY <1>2, CallFields
  <2>8. /\ call' \in Call /\ call'.pc = "read" /\ call'.file = f /\ call'.outcome = "none"
        /\ call'.inbuf = all /\ call'.out = call.out /\ call'.purpose = call.purpose
        /\ call'.left = call.left /\ call'.size = call.size /\ call'.want = call.want
        /\ call'.toRead = t
    BY <1>1, <1>2, <1>3, <1>4, <2>3, <2>5, <2>7 DEF Call
  <2>9. /\ fl' = fl /\ cpc' = cpc /\ slices' = slices /\ DecoderLoaded' = DecoderLoaded
        /\ tainted' = tainted /\ tainted \in BOOLEAN /\ dec' = dec
    BY <1>1, <1>2, <1>8, UntouchedMeans DEF XTypes
  <2>10. Decoder' = Decoder
    BY <1>5, <2>6, <2>9 DEF Decoder
  <2>11. OnPlace(f)' /\ Rest(e)' = r + n
    <3>1. Len(slices[s].data) \in Nat
      BY <2>2, <2>3, SliceType
    <3>2. Before(slices, s) = Before(slices, x.opened) + Len(slices[x.opened].data)
      BY <2>1, <2>2, BeforeNext DEF s
    <3>3. Before(slices, x'.opened) + x'.pos = Before(slices, x.opened) + x.pos + n
      <4> DEFINE a == Before(slices, x.opened)
                 b == Before(slices, s)
                 l == Len(slices[x.opened].data)
                 p == x.pos
      <4>1. b = a + l /\ p + n = l /\ a \in Nat /\ l \in Nat /\ p \in Nat /\ n \in Nat
        BY <1>2, <2>1, <3>2 DEF n
      <4> HIDE DEF a, b, l, p
      <4>2. b + 0 = a + p + n
        BY <4>1
      <4> QED
        BY <2>6, <4>2 DEF a, b, p
    <3>4. x'.pos <= Len(slices[x'.opened].data) /\ x'.opened \in e.firstSlice..e.lastSlice
      BY <2>3, <2>6, <3>1
    <3>5. n = InSlice /\ n \in Nat
      BY <1>2 DEF n
    <3>6. /\ x'.bytesLeft = x.bytesLeft - n
          /\ x'.firstSlice = x.firstSlice /\ x'.startOffset = x.startOffset /\ x'.lastSlice = x.lastSlice
          /\ x'.compressed = x.compressed /\ x'.encrypted = x.encrypted
          /\ x'.encrypted => x'.crypt = <<e.firstSlice, e.startOffset, r + n>>
      BY <1>5, <2>6
    <3>7. OnPlace(f)'
      BY <1>1, <1>3, <3>3, <3>4, <3>5, <3>6, MovedOn
    <3>8. Rest(fl[f])' = Rest(fl[f]) + n
      BY <1>1, <1>3, <3>3, <3>4, <3>5, <3>6, MovedOn
    <3> QED
      BY <3>7, <3>8
  <2>12. InPiece' = InPiece /\ Coming' = all
    BY <1>1, <2>8 DEF InPiece, Coming
  <2>13. InOrder(f)'
    <3>1. (Decoder.next + Len(Decoder.buf) + Len(Coming))' = Rest(e)' + 1
      <4>1. (Decoder.next + Len(Decoder.buf) + Len(Coming))' = next + 0 + (m + n)
        BY <1>2, <1>4, <2>10, <2>12
      <4>2. n \in Nat
        BY <1>2 DEF n
      <4> HIDE DEF next, m, r, e
      <4>3. next + 0 + (m + n) = (r + n) + 1
        BY <1>4, <4>2
      <4> QED
        BY <2>11, <4>1, <4>3
    <3>2. Decoder'.next = x'.read + InPiece' + 1
      BY <1>2, <1>3, <1>5, <2>6, <2>10, <2>12 DEF InOrder
    <3>3. ~tainted' => RightFrom(fl, fl[f], Class(f), TRUE, Decoder'.next - 1, Decoder'.buf)
      BY <1>2, <2>10, RightFromEmpty
    <3>4. ~tainted' => ~tainted
      BY <2>9
    <3>5. ~tainted' => RightFrom(fl, fl[f], Class(f), TRUE, Decoder'.next - 1, Coming')
      BY <1>4, <2>10, <2>12, <3>4
    <3> QED
      BY <1>1, <3>1, <3>2, <3>3, <3>5, OrderIs
  <2>14. XInStep'
    BY <1>2, <1>3, <1>5, <2>6, <2>8, <2>9, <2>11, <2>13, StepsTo
  <2>15. XTypes'
    BY <1>1, <1>2, <2>6, <2>8, <2>9 DEF XTypes
  <2>16. Progress'
    <3>1. Entry' = Entry
      BY <1>3, <2>8, <2>9 DEF Entry
    <3>2. Progress
      BY DEF ExtractorInv
    <3>3. call'.toRead \in 1..x'.bytesLeft
      BY <1>5, <2>3, <2>6, <2>8
    <3>4. x'.read = x.read
      BY <1>5, <2>6
    <3>5. ~tainted' => ~tainted
      BY <2>9
    <3> QED
      BY <1>1, <1>2, <1>3, <2>8, <2>9, <2>10, <3>1, <3>2, <3>3, <3>4, <3>5 DEF Progress
  <2>17. Extracted'
    BY <2>8 DEF Extracted
  <2> QED
    BY <2>14, <2>15, <2>16, <2>17 DEF ExtractorInv
<1> QED
  BY <1>6, <1>7, <1>8 DEF ReadNextSlice, n, all, y

LEMMA ReadFailsKeeps ==
  ASSUME CompilerInv, ExtractorInv, ReadFails
  PROVE  ExtractorInv'
<1>1. {"ioerror"} \in SUBSET Causes
  BY DEF Causes
<1> QED
  BY <1>1, RaiseKeeps DEF ReadFails

-----------------------------------------------------------------------------
LEMMA ExtractorStarts ==
  ASSUME Init
  PROVE  CompilerInv /\ ExtractorInv
<1>1. CInit /\ XInit
  BY DEF Init
<1>2. CompilerInv /\ cpc = "next"
  BY <1>1, CompilerStarts DEF CInit
<1>3. /\ x.firstSlice = 0 /\ call.pc = "idle" /\ call.outcome = "none" /\ x = Nowhere /\ call = NoCall
  BY <1>1 DEF XInit, Nowhere, NoCall
<1>4. XTypes
  <2>1. <<>> \in Seq(Int) /\ <<>> \in Seq(ReadUnit) /\ <<>> \in Seq(Int \X Int)
    OBVIOUS
  <2>2. Nowhere \in Reader
    BY <2>1 DEF Nowhere, Reader, NoKey
  <2>3. NoCall \in Call
    BY <2>1 DEF NoCall, Call
  <2>4. FreshDecompressor \in Decompressor
    BY <2>1 DEF FreshDecompressor, Decompressor
  <2> QED
    BY <1>1, <2>2, <2>3, <2>4 DEF XInit, XTypes
<1>5. XInStep
  BY <1>3 DEF XInStep
<1>6. Progress
  BY <1>2, <1>3 DEF Progress
<1>7. Extracted
  BY <1>3 DEF Extracted
<1> QED
  BY <1>2, <1>4, <1>5, <1>6, <1>7 DEF ExtractorInv

LEMMA ExtractorKeeps ==
  ASSUME CompilerInv, ExtractorInv, XNext
  PROVE  ExtractorInv'
BY SetCryptKeyKeeps, ExtractKeeps, RestartChunkKeeps, SeekKeeps, NextPieceKeeps, LoopEndsKeeps,
   RefillKeeps, DecodeKeeps, PieceDoneKeeps, ReadRestKeeps, ReadNextSliceKeeps, ReadFailsKeeps DEF XNext

\* The inductive invariant of the two together.
Inv == CompilerInv /\ ExtractorInv
LEMMA InvInvariant == Spec => []Inv
<1>1. Init => Inv
  BY ExtractorStarts DEF Inv
<1>2. Inv /\ [Next]_vars => Inv'
  <2>1. ASSUME Inv, CNext, UNCHANGED xVars PROVE Inv'
    BY <2>1, CompilerKeeps, CompilerSpares DEF Inv
  <2>2. ASSUME Inv, XNext PROVE Inv'
    <3>1. UNCHANGED cVars
      BY <2>2 DEF XNext, SetCryptKey, Extract, RestartChunk, Seek, NextPiece, LoopEnds, Refill, Decode,
                  PieceDone, ReadRest, ReadNextSlice, ReadFails
    <3> QED
      BY <2>2, <3>1, CompilerStands, ExtractorKeeps DEF Inv
  <2>3. ASSUME Inv, UNCHANGED vars PROVE Inv'
    <3>1. UNCHANGED cVars /\ UNCHANGED <<x, dec, call, last, tainted>> /\ keySet' = keySet
      BY <2>3 DEF vars, xVars
    <3>2. keySet' \in BOOLEAN
      BY <2>3, <3>1 DEF Inv, ExtractorInv, XTypes
    <3> QED
      BY <2>3, <3>1, <3>2, CompilerStands, XStands DEF Inv
  <2> QED
    BY <2>1, <2>2, <2>3 DEF Next, CompileFailed
<1> QED
  BY <1>1, <1>2, PTL DEF Spec

-----------------------------------------------------------------------------
(* What follows.                                                           *)

UpTo(on, s, t, q) == UNION {{i} \X (1..IF i < t THEN Len(on[i].data) ELSE q) : i \in s..t}

\* The units of a chunk in front of place q of slice t: those of all slices
\* in front of it, less those in front of the slice the chunk begins in.
LEMMA UnitsBetween ==
  ASSUME NEW on \in Seq(Slice), NEW s \in 1..Len(on), NEW t \in s..Len(on), NEW q \in Nat,
         q <= Len(on[t].data)
  PROVE  /\ Before(on, s) + Cardinality(UpTo(on, s, t, q)) = Before(on, t) + q
         /\ Cardinality(UpTo(on, s, t, q)) \in Nat
<1> DEFINE P == UpTo(on, s, t, q)
<1>0. P = UNION {{i} \X (1..IF i < t THEN Len(on[i].data) ELSE q) : i \in s..t}
  BY DEF UpTo
<1> HIDE DEF P
<1> USE <1>0
<1> DEFINE A == Occupied(on, t - 1)
           B == {t} \X (1..q)
           C == Occupied(on, s - 1)
<1>1. Len(on) \in Nat /\ t \in 1..Len(on) /\ t - 1 \in 0..Len(on) /\ s - 1 \in 0..Len(on)
  OBVIOUS
<1>2. A \cup B = C \cup P
  <2>1. 1..(t - 1) = (1..(s - 1)) \cup (s..(t - 1)) /\ s..t = (s..(t - 1)) \cup {t}
    BY <1>1
  <2> DEFINE D == UNION {{i} \X (1..Len(on[i].data)) : i \in s..(t - 1)}
  <2>2. A = C \cup D
    BY <2>1 DEF Occupied
  <2>3. P = D \cup B
    <3>1. ASSUME NEW c, c \in P PROVE c \in D \cup B
      <4>1. PICK i \in s..t : c \in {i} \X (1..IF i < t THEN Len(on[i].data) ELSE q)
        BY <3>1
      <4>2. CASE i = t
        BY <4>1, <4>2
      <4>3. CASE i \in s..(t - 1)
        <5>1. i < t
          BY <1>1, <4>3
        <5>2. c \in {i} \X (1..Len(on[i].data))
          BY <4>1, <5>1
        <5> QED
          BY <4>3, <5>2
      <4> QED
        BY <2>1, <4>1, <4>2, <4>3
    <3>2. ASSUME NEW c, c \in D PROVE c \in P
      <4>1. PICK i \in s..(t - 1) : c \in {i} \X (1..Len(on[i].data))
        BY <3>2
      <4>2. i \in s..t /\ i < t
        BY <1>1, <4>1
      <4>3. c \in {i} \X (1..IF i < t THEN Len(on[i].data) ELSE q)
        BY <4>1, <4>2
      <4> QED
        BY <4>2, <4>3
    <3>3. ASSUME NEW c, c \in B PROVE c \in P
      <4>1. t \in s..t /\ ~(t < t)
        BY <1>1
      <4>2. c \in {t} \X (1..IF t < t THEN Len(on[t].data) ELSE q)
        BY <3>3, <4>1
      <4> QED
        BY <4>1, <4>2
    <3> HIDE DEF B, D
    <3> QED
      BY <3>1, <3>2, <3>3
  <2> HIDE DEF A, B, C, D
  <2> QED
    BY <2>2, <2>3
<1>3. A \cap B = {}
  <2> SUFFICES ASSUME NEW c, c \in A, c \in B PROVE FALSE
    OBVIOUS
  <2>1. PICK i \in 1..(t - 1) : c \in {i} \X (1..Len(on[i].data))
    BY DEF Occupied
  <2>2. c[1] = i /\ c[1] = t
    BY <2>1
  <2> QED
    BY <1>1, <2>1, <2>2
<1>4. C \cap P = {}
  <2> SUFFICES ASSUME NEW c, c \in C, c \in P PROVE FALSE
    OBVIOUS
  <2>1. PICK i \in 1..(s - 1) : c \in {i} \X (1..Len(on[i].data))
    BY DEF Occupied
  <2>2. PICK k \in s..t : c \in {k} \X (1..IF k < t THEN Len(on[k].data) ELSE q)
    OBVIOUS
  <2>3. c[1] = i /\ c[1] = k
    BY <2>1, <2>2
  <2> QED
    BY <1>1, <2>1, <2>2, <2>3
<1>5. IsFiniteSet(A) /\ IsFiniteSet(C)
  BY <1>1, OccupiedFinite
<1>6. IsFiniteSet(B) /\ Cardinality(B) = q
  <2> DEFINE I == 1..q
  <2>1. IsFiniteSet({t}) /\ Cardinality({t}) = 1
    BY FS_Singleton
  <2>2. IsFiniteSet(I) /\ Cardinality(I) = q
    BY FirstFinite
  <2> HIDE DEF I
  <2>3. IsFiniteSet({t} \X I) /\ Cardinality({t} \X I) = 1 * q
    BY <2>1, <2>2, FS_Product
  <2> QED
    BY <2>3 DEF I
<1> HIDE DEF A, B, C
<1>7. IsFiniteSet(A \cup B) /\ Cardinality(A \cup B) = Cardinality(A) + Cardinality(B) - Cardinality(A \cap B)
  BY <1>5, <1>6, FS_Union
<1>8. IsFiniteSet(P)
  <2>1. P \subseteq A \cup B
    BY <1>2
  <2> QED
    BY <1>7, <2>1, FS_Subset
<1>9. Cardinality(C \cup P) = Cardinality(C) + Cardinality(P) - Cardinality(C \cap P)
  BY <1>5, <1>8, FS_Union
<1>10. Cardinality(A \cap B) = 0 /\ Cardinality(C \cap P) = 0
  BY <1>3, <1>4, FS_EmptySet
<1>11. Cardinality(A) \in Nat /\ Cardinality(C) \in Nat /\ Cardinality(P) \in Nat
  BY <1>5, <1>8, FS_CardinalityType
<1>12. Cardinality(A) = Before(on, t) /\ Cardinality(C) = Before(on, s)
  BY DEF Before, A, C
<1>13. Cardinality(C) + Cardinality(P) = Cardinality(A) + q
  <2> DEFINE a == Cardinality(A)
             c == Cardinality(C)
             p == Cardinality(P)
             z == Cardinality(A \cup B)
  <2>1. z = a + q /\ a \in Nat
    BY <1>6, <1>7, <1>10, <1>11
  <2>2. z = c + p /\ c \in Nat /\ p \in Nat
    <3>1. z = Cardinality(C \cup P)
      BY <1>2
    <3>2. Cardinality(C \cup P) = c + p - 0
      BY <1>9, <1>10
    <3> HIDE DEF z, c, p
    <3>3. c \in Nat /\ p \in Nat
      BY <1>11 DEF c, p
    <3> QED
      BY <3>1, <3>2, <3>3
  <2> QED
    BY <2>1, <2>2
<1> QED
  BY <1>11, <1>12, <1>13 DEF P

LEMMA InSyncHolds ==
  ASSUME Inv
  PROVE  InSync
<1> SUFFICES ASSUME x.firstSlice # 0, ~x.needReset, call.pc \in {"idle", "seek", "loop"}
             PROVE  LET e == CHOOSE e \in {fl[i] : i \in DOMAIN fl} :
                               e.firstSlice = x.firstSlice /\ e.startOffset = x.startOffset
                        consumed == e.compressedSize - x.bytesLeft
                        placed(s) == {s} \X (1..IF s < x.opened THEN Len(slices[s].data) ELSE x.pos)
                    IN  /\ Cardinality(UNION {placed(s) : s \in x.firstSlice..x.opened})
                             = x.startOffset + 1 + consumed
                        /\ x.encrypted => x.crypt = <<x.firstSlice, x.startOffset, consumed>>
                        /\ dec[x.compressed].next = x.read + 1
                        /\ x.read + Len(dec[x.compressed].buf) = consumed
  BY DEF InSync
<1>1. CompilerInv /\ XTypes /\ XInStep /\ Progress
  BY DEF Inv, ExtractorInv
<1>2. cpc = "compiled"
  BY <1>1 DEF Progress, Nowhere
<1>3. PICK f \in DOMAIN fl : InStep(f)
  BY <1>1 DEF XInStep
<1> DEFINE D == {fl[i] : i \in DOMAIN fl}
           e == CHOOSE e \in D : e.firstSlice = x.firstSlice /\ e.startOffset = x.startOffset
<1>4. fl[f] \in D /\ fl[f].firstSlice = x.firstSlice /\ fl[f].startOffset = x.startOffset
  BY <1>3 DEF InStep, OnPlace, SameChunk
<1>5. e \in D /\ e.firstSlice = x.firstSlice /\ e.startOffset = x.startOffset
  <2> HIDE DEF D
  <2> QED
    BY <1>4
<1>6. PICK g \in DOMAIN fl : e = fl[g]
  BY <1>5
<1> HIDE DEF e
<1>7. InStep(g) /\ OnPlace(g) /\ InOrder(g)
  <2>1. SameChunk(fl[g], fl[f])
    BY <1>4, <1>5, <1>6 DEF SameChunk
  <2> QED
    BY <1>1, <1>2, <1>3, <2>1, InStepAgrees DEF InStep
<1> DEFINE r == Rest(fl[g])
           P == UNION {{s} \X (1..IF s < x.opened THEN Len(slices[s].data) ELSE x.pos) :
                        s \in x.firstSlice..x.opened}
<1>8. e.compressedSize - x.bytesLeft = r
  BY <1>6 DEF Rest
<1>9. /\ x.opened \in 1..Len(slices) /\ x.pos \in Nat /\ x.pos <= Len(slices[x.opened].data)
      /\ r \in Nat /\ x.read \in Nat /\ Before(slices, x.opened) \in Nat
      /\ Before(slices, x.opened) + x.pos = StartOf(slices, fl[g]) + r
      /\ x.encrypted => x.crypt = <<fl[g].firstSlice, fl[g].startOffset, r>>
  BY <1>1, <1>2, <1>7, OnPlaceHas
<1>10. Cardinality(P) = x.startOffset + 1 + r
  <2> DEFINE s == x.firstSlice
             t == x.opened
             q == x.pos
  <2>1. fl[g].firstSlice = s /\ fl[g].startOffset = x.startOffset
    BY <1>5, <1>6
  <2>2. /\ s \in 1..Len(slices) /\ x.startOffset \in Nat
        /\ StartOf(slices, fl[g]) = Before(slices, s) + x.startOffset + 1
    BY <1>1, <1>2, <2>1, EntryHas
  <2>3. slices \in Seq(Slice) /\ Len(slices) \in Nat
    BY <1>1, <1>2, Ready
  <2>4. t \in s..Len(slices)
    <3>1. t \in s..fl[g].lastSlice /\ t \in 1..Len(slices)
      BY <1>7, <1>9, <2>1 DEF OnPlace
    <3>2. fl[g].lastSlice \in 1..Len(slices)
      BY <1>1, <1>2, EntryHas
    <3> HIDE DEF s, t
    <3> QED
      BY <2>2, <2>3, <3>1, <3>2
  <2>5. s \in 1..(Len(slices) + 1)
    <3> HIDE DEF s
    <3> QED
      BY <2>2, <2>3
  <2>6. P = UpTo(slices, s, t, q)
    BY DEF UpTo
  <2>7. Before(slices, s) \in Nat
    BY <2>3, <2>5, BeforeType
  <2>8. q \in Nat /\ q <= Len(slices[t].data)
    BY <1>9
  <2> HIDE DEF P, s, t, q
  <2>9. Before(slices, s) + Cardinality(P) = Before(slices, t) + q
    BY <2>2, <2>3, <2>4, <2>6, <2>8, UnitsBetween
  <2>10. Cardinality(P) \in Nat
    BY <2>2, <2>3, <2>4, <2>6, <2>8, UnitsBetween
  <2>11. Before(slices, t) + q = Before(slices, s) + x.startOffset + 1 + r
    BY <1>9, <2>2 DEF t, q
  <2> DEFINE a == Before(slices, s)
             b == Before(slices, t) + q
             o == x.startOffset
             k == Cardinality(P)
  <2>12. a + k = b /\ b = a + o + 1 + r /\ a \in Nat /\ k \in Nat /\ o \in Nat /\ r \in Nat
    BY <1>9, <2>2, <2>7, <2>9, <2>10, <2>11
  <2> HIDE DEF r, a, b, o, k
  <2>13. k = o + 1 + r
    BY <2>12
  <2> QED
    BY <2>13 DEF k, o
<1>11. Decoder.next = x.read + 1 /\ x.read + Len(Decoder.buf) = r
  <2>1. InPiece = 0 /\ Coming = <<>>
    BY DEF InPiece, Coming
  <2>2. Decoder.next + Len(Decoder.buf) + Len(Coming) = r + 1 /\ Decoder.next = x.read + InPiece + 1
    BY <1>7 DEF InOrder
  <2>3. Len(Decoder.buf) \in Nat
    BY <1>1, XFields
  <2> DEFINE a == Decoder.next
             b == Len(Decoder.buf)
             c == x.read
  <2>4. a + b + 0 = r + 1 /\ a = c + 0 + 1 /\ b \in Nat /\ c \in Nat
    BY <1>9, <2>1, <2>2, <2>3
  <2> HIDE DEF a, b, c, r
  <2>5. a = c + 1 /\ c + b = r
    BY <1>9, <2>4
  <2> QED
    BY <2>5 DEF a, b, c
<1> QED
  BY <1>5, <1>6, <1>8, <1>9, <1>10, <1>11 DEF Decoder, e

LEMMA SlicesAreItsOwn ==
  ASSUME Inv, Next, x'.opened \notin {0, x.opened}
  PROVE  x'.opened \in Entry.firstSlice..Entry.lastSlice
<1>1. CompilerInv /\ ExtractorInv
  BY DEF Inv
<1>2. XTypes /\ x \in Reader
  BY <1>1, XFields DEF ExtractorInv
<1>3. RestartChunk \/ ReadNextSlice
  <2>1. CASE CNext /\ UNCHANGED xVars
    BY <2>1 DEF xVars
  <2>2. CASE CompileFailed
    BY <2>2 DEF CompileFailed, vars, xVars
  <2>3. ASSUME NEW outcome, NEW cause, RaiseFromDecompress(outcome, cause) PROVE FALSE
    BY <1>2, <2>3 DEF RaiseFromDecompress, ResetAfterException, Reader
  <2>4. CASE XNext
    <3>1. CASE SetCryptKey \/ Seek \/ NextPiece \/ LoopEnds
      BY <3>1 DEF SetCryptKey, Seek, NextPiece, LoopEnds
    <3>2. ASSUME NEW f, NEW verify, Extract(f, verify) PROVE FALSE
      BY <1>2, <3>2 DEF Extract, Reader
    <3>3. CASE Refill
      BY <2>3, <3>3 DEF Refill
    <3>4. CASE Decode
      BY <2>3, <3>4 DEF Decode
    <3>5. CASE ReadFails
      BY <2>3, <3>5 DEF ReadFails
    <3>6. CASE PieceDone
      BY <1>2, <3>6 DEF PieceDone, Reader
    <3>7. CASE ReadRest
      BY <1>2, <3>7 DEF ReadRest, AfterRead, Reader
    <3> QED
      BY <2>4, <3>1, <3>2, <3>3, <3>4, <3>5, <3>6, <3>7 DEF XNext
  <2> QED
    BY <2>1, <2>2, <2>4 DEF Next
<1>4. cpc = "compiled" /\ call.file \in DOMAIN fl
  BY <1>1, <1>3, Reading DEF RestartChunk, ReadNextSlice
<1> DEFINE a == Entry.firstSlice
           b == Entry.lastSlice
<1>5. a \in Nat /\ b \in Nat /\ a <= b
  <2>1. a \in 1..Len(slices) /\ b \in 1..Len(slices) /\ a <= b
    BY <1>1, <1>4, EntryHas DEF Entry
  <2>2. Len(slices) \in Nat
    BY <1>1, <1>4, Ready
  <2> HIDE DEF a, b
  <2> QED
    BY <2>1, <2>2
<1>6. CASE RestartChunk
  <2>1. x'.opened = a
    <3>1. CASE x'.opened = Entry.firstSlice
      BY <3>1
    <3>2. CASE x' = Closed(x)
      BY <1>2, <3>2 DEF Closed, Reader
    <3>3. CASE x' = [x EXCEPT !.opened = Entry.firstSlice, !.pos = Entry.startOffset]
      BY <1>2, <3>3 DEF Reader
    <3> QED
      BY <1>6, <3>1, <3>2, <3>3 DEF RestartChunk
  <2> HIDE DEF a, b
  <2>2. x'.opened \in a..b
    BY <1>5, <2>1
  <2> QED
    BY <2>2 DEF a, b
<1>7. CASE ReadNextSlice
  <2> DEFINE y == AfterRead(InSlice, x)
  <2>1. call.pc = "read"
    BY <1>7 DEF ReadNextSlice
  <2>2. /\ OnPlace(call.file) /\ InSlice \in Nat /\ InSlice <= x.bytesLeft
        /\ InSlice <= Len(slices[x.opened].data) - x.pos
    BY <1>1, <2>1, ReadHas
  <2>3. y \in Reader /\ y.opened = x.opened
    BY <1>1, <1>2, <1>4, <2>2, PlaceMoves
  <2>4. ~RaiseFromDecompress("corrupted", {})
    BY <1>2 DEF RaiseFromDecompress, ResetAfterException, Reader
  <2>5. ~(x.opened >= x.lastSlice)
    BY <1>7, <2>4 DEF ReadNextSlice
  <2>6. x' = [y EXCEPT !.opened = @ + 1, !.pos = 0] \/ x' = [Closed(y) EXCEPT !.needReset = TRUE]
    BY <1>7, <2>5 DEF ReadNextSlice
  <2> HIDE DEF y
  <2>7. x'.opened = x.opened + 1
    BY <2>3, <2>6 DEF Closed, Reader
  <2>8. x.opened \in a..b /\ x.lastSlice = b /\ x.opened \in Nat
    BY <1>2, <2>2, XFields DEF OnPlace, Entry
  <2> HIDE DEF a, b
  <2>9. x'.opened \in a..b
    BY <1>5, <2>5, <2>7, <2>8
  <2> QED
    BY <2>9 DEF a, b
<1> QED
  BY <1>3, <1>6, <1>7

-----------------------------------------------------------------------------
(* Why calls fail.                                                         *)

\* What is there to be decoded is what the decompressor knows.
LEMMA Decodable ==
  ASSUME CompilerInv, ExtractorInv, OwnMethods, call.pc = "decode", ~tainted,
         NEW n \in Nat, n <= call.want, n <= Len(Decoder.buf)
  PROVE  AllIntact(n)
<1> SUFFICES ASSUME Codec # "stored", NEW k \in 1..n
             PROVE  Intact(Decoder.buf[k], Codec, Decoder.next + k - 1)
  BY DEF AllIntact
<1> DEFINE f == call.file
           e == fl[f]
           u == Decoder.buf[k]
           next == Decoder.next
           o == e.suboffset
           l == e.size
           r == x.read
           j == next - 1 + k
<1>1. XTypes
  BY DEF ExtractorInv
<1>2. cpc = "compiled" /\ f \in DOMAIN fl /\ OnPlace(f) /\ InOrder(f)
  BY Reading
<1>3. /\ o \in Nat /\ l \in Nat /\ next = r + InPiece + 1 /\ call.want <= call.size /\ call.size <= call.left
      /\ call.purpose = "discard" => r + call.left = o
      /\ call.purpose = "extract" => r + call.left = o + l
  BY Within DEF Entry
<1>4. /\ next \in Nat \ {0} /\ r \in Nat /\ call.left \in Nat /\ call.size \in Nat /\ call.want \in Nat
      /\ Len(Decoder.buf) \in Nat /\ call.purpose \in {"discard", "extract"}
  BY <1>1, XFields, CallFields
<1>5. InPiece = call.size - call.want
  BY DEF InPiece
<1>6. Right(fl, e, Class(f), TRUE, j, u)
  <2>1. RightFrom(fl, e, Class(f), TRUE, next - 1, Decoder.buf)
    BY <1>2 DEF InOrder
  <2>2. k \in 1..Len(Decoder.buf)
    BY <1>4
  <2> HIDE DEF f, e, next
  <2> QED
    BY <2>1, <2>2 DEF RightFrom
<1>7. Class(f) = Codec
  <2>1. x.compressed = e.compressed
    BY <1>2 DEF OnPlace
  <2>2. Class(f) = FactoryClass(FileAt(f)) /\ Codec = DecompClass
    BY <1>2, <2>1, EntryHas DEF Codec, Compressed
  <2>3. script.method \in {"none", "zip", "lzma", "lzma2"}
    BY <1>2, Ready DEF CTypes, OwnMethods
  <2> QED
    BY <2>2, <2>3 DEF FactoryClass, DecompClass
<1>8. j <= o + l
  <2> DEFINE a == call.left
             b == call.size
             c == call.want
             p == InPiece
  <2>1. /\ r + a <= o + l /\ next = r + p + 1 /\ c <= b /\ b <= a /\ p = b - c
        /\ k <= c /\ a \in Nat /\ b \in Nat /\ c \in Nat /\ k \in Nat
    <3>1. r + a = o \/ r + a = o + l
      BY <1>3, <1>4
    <3>2. k \in Nat /\ k <= n
      OBVIOUS
    <3> HIDE DEF r, a, o, l, c
    <3>3. r + a <= o + l
      BY <1>3, <3>1
    <3>4. a \in Nat /\ c \in Nat /\ n <= c
      BY <1>4 DEF a, c
    <3>5. k <= c
      BY <3>2, <3>4
    <3> QED
      BY <1>3, <1>4, <1>5, <3>2, <3>3, <3>4, <3>5 DEF r, a, c
  <2>2. j = r + p + k
    <3> HIDE DEF p, r, next
    <3> QED
      BY <1>4, <2>1
  <2> HIDE DEF a, b, c, p, r, o, l, j, next
  <2> QED
    BY <1>3, <1>4, <2>1, <2>2
<1>9. u.unit # EndMark
  <2>1. Stands(fl, e, TRUE, j, u.unit)
    BY <1>6 DEF Right
  <2>2. SameChunk(fl[f], e)
    BY DEF SameChunk
  <2> HIDE DEF f, j
  <2>3. u.unit = EndMark => fl[f].suboffset + fl[f].size < j
    BY <1>2, <2>1, <2>2 DEF Stands
  <2>4. fl[f].suboffset + fl[f].size = o + l
    OBVIOUS
  <2> DEFINE z == o + l
  <2>5. u.unit = EndMark => z < j
    BY <2>3, <2>4
  <2>6. z \in Nat /\ j <= z /\ j \in Nat
    <3>1. next \in Nat \ {0} /\ k \in Nat /\ o \in Nat /\ l \in Nat
      BY <1>3, <1>4
    <3>2. j <= z
      BY <1>8
    <3> HIDE DEF next, o, l
    <3>3. z \in Nat /\ j \in Nat
      BY <3>1 DEF j
    <3> QED
      BY <3>2, <3>3
  <2> HIDE DEF z
  <2> QED
    BY <2>5, <2>6
<1>10. u.codec = Codec /\ u.key = NoKey /\ u.pos = next + k - 1
  <2>1. u.codec = Class(f) /\ u.key = NoKey /\ u.pos = j
    <3> HIDE DEF u, j, e, f
    <3> QED
      BY <1>6 DEF Right
  <2>2. j = next + k - 1
    BY <1>4
  <2> QED
    BY <1>7, <2>1, <2>2
<1> QED
  BY <1>9, <1>10 DEF Intact

\* The stream does not end before the file does.
LEMMA MoreToRead ==
  ASSUME CompilerInv, ExtractorInv, call.pc = "decode", call.want > 0, Decoder.buf = <<>>
  PROVE  x.bytesLeft > 0
<1> DEFINE f == call.file
           e == fl[f]
           next == Decoder.next
           o == e.suboffset
           l == e.size
           z == e.compressedSize
           r == x.read
           b == x.bytesLeft
           g == Rest(e)
<1>1. XTypes /\ cpc = "compiled" /\ f \in DOMAIN fl /\ OnPlace(f) /\ InOrder(f)
  BY Reading DEF ExtractorInv
<1>2. /\ o \in Nat /\ l \in Nat /\ o + l <= z /\ next = r + InPiece + 1
      /\ call.want <= call.size /\ call.size <= call.left
      /\ call.purpose = "discard" => r + call.left = o
      /\ call.purpose = "extract" => r + call.left = o + l
  BY Within DEF Entry
<1>3. /\ next \in Nat /\ r \in Nat /\ call.left \in Nat /\ call.size \in Nat /\ call.want \in Nat
      /\ call.purpose \in {"discard", "extract"}
  BY <1>1, XFields, CallFields
<1>4. InPiece = call.size - call.want /\ Coming = <<>>
  BY DEF InPiece, Coming
<1>5. g \in Nat /\ g + b = z /\ b \in Nat
  BY <1>1, OnPlaceHas
<1>6. z \in Nat
  BY <1>1, EntryHas
<1>7. next = g + 1
  <2>1. next + Len(Decoder.buf) + Len(Coming) = g + 1 /\ Len(Decoder.buf) = 0 /\ Len(Coming) = 0
    BY <1>1, <1>4 DEF InOrder
  <2> HIDE DEF next, g
  <2> QED
    BY <1>3, <1>5, <2>1
<1>8. r + call.left <= o + l
  <2> DEFINE a == call.left
  <2>1. r + a = o \/ r + a = o + l
    BY <1>2, <1>3
  <2> HIDE DEF r, a, o, l
  <2>2. r + a <= o + l
    BY <1>2, <2>1
  <2> QED
    BY <2>2 DEF a
<1> DEFINE a == call.left
           s == call.size
           w == call.want
           p == InPiece
<1>9. /\ o + l <= z /\ next = r + p + 1 /\ w <= s /\ s <= a /\ r + a <= o + l /\ p = s - w
      /\ next = g + 1 /\ g + b = z /\ w > 0
      /\ o \in Nat /\ l \in Nat /\ z \in Nat /\ r \in Nat /\ a \in Nat /\ s \in Nat /\ w \in Nat
      /\ g \in Nat /\ b \in Nat
  BY <1>2, <1>3, <1>4, <1>5, <1>6, <1>7, <1>8
<1> HIDE DEF next, o, l, z, r, b, g, a, s, w, p
<1>10. b > 0
  BY <1>9
<1> QED
  BY <1>10 DEF b

\* Nor does it go on behind the chunk's last slice.
LEMMA MoreSlices ==
  ASSUME CompilerInv, ExtractorInv, call.pc = "read", InSlice < call.toRead
  PROVE  x.opened < x.lastSlice /\ x.opened + 1 \in DOMAIN slices
<1> DEFINE f == call.file
           e == fl[f]
           n == InSlice
           t == x.opened
           d == Len(slices[t].data)
           a == StartOf(slices, e)
           g == Rest(e)
           b == x.bytesLeft
           z == e.compressedSize
           k == Before(slices, t)
           p == x.pos
           h == e.lastSlice
           q == call.toRead
<1>1. /\ XTypes /\ cpc = "compiled" /\ f \in DOMAIN fl /\ OnPlace(f)
      /\ p + n = d /\ q \in 1..b /\ q \in Nat /\ n \in Nat
  BY ReadHas
<1>2. /\ t \in 1..Len(slices) /\ p \in Nat /\ d \in Nat /\ g \in Nat /\ g + b = z /\ b \in Nat
      /\ k \in Nat /\ k + p = a + g /\ x.lastSlice = h
  BY <1>1, OnPlaceHas
<1>3. /\ a \in Nat /\ z \in Nat /\ h \in 1..Len(slices) /\ a + z <= Before(slices, h + 1)
      /\ e.firstSlice \in 1..Len(slices)
  BY <1>1, EntryHas
<1>4. slices \in Seq(Slice) /\ Len(slices) \in Nat
  BY <1>1, Ready
<1>5. t \in e.firstSlice..h
  BY <1>1, <1>2 DEF OnPlace
<1>6. t # h
  <2> SUFFICES ASSUME t = h PROVE FALSE
    OBVIOUS
  <2>1. Before(slices, t + 1) = k + d
    BY <1>2, <1>4, BeforeNext
  <2>2. a + z <= k + d
    BY <1>3, <2>1
  <2> HIDE DEF f, e, n, t, d, a, g, b, z, k, p, h, q
  <2>3. n < q /\ q <= b
    BY <1>1, <1>2 DEF n, q
  <2> QED
    BY <1>1, <1>2, <1>3, <2>2, <2>3
<1> DEFINE c == e.firstSlice
           m == Len(slices)
<1>7. t \in c..h /\ c \in 1..m /\ h \in 1..m /\ m \in Nat /\ t \in 1..m
  BY <1>2, <1>3, <1>4, <1>5
<1> HIDE DEF f, e, n, t, d, a, g, b, z, k, p, h, q, c, m
<1>8. t < h /\ t + 1 \in 1..m
  BY <1>6, <1>7
<1> QED
  BY <1>2, <1>4, <1>8 DEF t, m

\* A slice that cannot be opened is not one the compiler left unfinished.
LEMMA OpeningHasCause ==
  ASSUME XTypes, NEW s, Sound(s), \E fault \in OpenFaults(s) : EndsOpening(fault, s)
  PROVE  call'.outcome \in call'.cause
<1>1. PICK fault \in OpenFaults(s) : EndsOpening(fault, s)
  OBVIOUS
<1>2. fault \in {"refused", "ioerror", "corrupted"}
  BY DEF OpenFaults
<1>3. Ends(fault, {fault})
  BY <1>1 DEF EndsOpening
<1>4. {fault} \in SUBSET Causes
  BY <1>2 DEF Causes
<1>5. call'.outcome = fault /\ call'.cause = call.cause \cup {fault}
  BY <1>2, <1>3, <1>4, EndsDoes
<1> QED
  BY <1>5

\* A call that goes on, or that succeeds.
LEMMA GoesOn ==
  ASSUME CompilerInv, ExtractorInv, Recovery, call.pc # "idle", last' = last,
         call'.file = call.file, call'.outcome \in {"none", "ok"}, call.cause \subseteq call'.cause,
         tainted' => tainted \/ "damaged" \in call'.cause
  PROVE  FailsForACause' /\ Recovery'
<1>1. call.outcome = "none"
  BY Reading
<1>2. FailsForACause'
  BY DEF FailsForACause
<1>3. Recovery'
  BY <1>1 DEF Recovery
<1> QED
  BY <1>2, <1>3

\* A call that fails.
LEMMA Fails ==
  ASSUME CompilerInv, ExtractorInv, Recovery, call.pc # "idle", UNCHANGED cVars,
         last' = last, tainted' = tainted, call'.pc = "idle",
         call'.file = call.file, call'.outcome \in {"refused", "ioerror", "corrupted", "cancelled"},
         call.cause \subseteq call'.cause,
         call'.outcome \in call'.cause \/ (call'.outcome = "corrupted" /\ tainted),
         call'.outcome = "corrupted" =>
           x'.firstSlice # Entry.firstSlice \/ Entry.suboffset < x'.read \/ x'.needReset
  PROVE  FailsForACause' /\ Recovery'
<1>1. call.outcome = "none" /\ call.file \in DOMAIN fl
  BY Reading
<1>2. tainted \in BOOLEAN
  BY DEF ExtractorInv, XTypes
<1>3. FailsForACause'
  BY <1>2 DEF FailsForACause
<1>4. fl' = fl
  BY UntouchedMeans
<1>5. call'.outcome = "corrupted" => call'.pc = "idle" /\ call'.file \in DOMAIN fl' /\ MustRestart(fl[call.file])'
  BY <1>1, <1>4 DEF MustRestart, Entry
<1>6. /\ last' = [file |-> call'.file, outcome |-> "corrupted"]
      /\ tainted' /\ call'.outcome \in {"none", "corrupted"}
      => "damaged" \in call'.cause
  BY <1>1, <1>2 DEF Recovery
<1>7. Recovery'
  BY <1>5, <1>6 DEF Recovery
<1> QED
  BY <1>3, <1>7

\* An exception passes through DecompressBytes.
LEMMA Raises ==
  ASSUME CompilerInv, ExtractorInv, Recovery, call.pc # "idle", UNCHANGED <<cVars, keySet, last>>,
         NEW outcome \in {"ioerror", "corrupted"}, NEW cause \in SUBSET Causes,
         RaiseFromDecompress(outcome, cause), outcome \in cause \/ (outcome = "corrupted" /\ tainted)
  PROVE  FailsForACause' /\ Recovery'
<1>1. XTypes
  BY DEF ExtractorInv
<1>2. Ends(outcome, cause) /\ UNCHANGED <<dec, tainted>> /\ x' = [x EXCEPT !.needReset = TRUE]
  BY DEF RaiseFromDecompress, ResetAfterException
<1>3. x'.needReset
  BY <1>1, <1>2, XFields DEF Reader
<1>4. /\ call' \in Call /\ call'.pc = "idle" /\ call'.outcome = outcome
      /\ call'.file = call.file /\ call'.cause = call.cause \cup cause
  BY <1>1, <1>2, EndsDoes
<1> QED
  BY <1>2, <1>3, <1>4, Fails

\* A slice cannot be opened.
LEMMA OpeningFails ==
  ASSUME CompilerInv, ExtractorInv, Recovery, call.pc # "idle",
         UNCHANGED cVars, last' = last, tainted' = tainted,
         NEW s \in DOMAIN slices, \E fault \in OpenFaults(s) : EndsOpening(fault, s),
         x'.firstSlice # Entry.firstSlice \/ x'.needReset
  PROVE  FailsForACause' /\ Recovery'
<1>1. XTypes /\ cpc = "compiled"
  BY Reading DEF ExtractorInv
<1>2. Sound(s)
  BY <1>1, Ready
<1>3. PICK fault \in OpenFaults(s) : EndsOpening(fault, s)
  OBVIOUS
<1>4. fault \in {"refused", "ioerror", "corrupted"} /\ Ends(fault, {fault})
  BY <1>2, <1>3 DEF OpenFaults, EndsOpening
<1>5. {fault} \in SUBSET Causes
  BY <1>4 DEF Causes
<1>6. /\ call'.pc = "idle" /\ call'.outcome = fault /\ call'.file = call.file
      /\ call'.cause = call.cause \cup {fault}
  BY <1>1, <1>4, <1>5, EndsDoes
<1> QED
  BY <1>4, <1>6, Fails

\* Setup can load the decompressor: what fails before SeekTo is the key.
LEMMA ExtractBlames ==
  ASSUME CompilerInv, ExtractorInv, OwnMethods, Recovery,
         NEW f \in DOMAIN fl, NEW verify \in BOOLEAN, Extract(f, verify)
  PROVE  FailsForACause' /\ Recovery'
<1> DEFINE e == fl[f]
           new == [NoCall EXCEPT !.pc = "seek", !.file = f, !.verify = verify]
<1>1. /\ cpc = "compiled" /\ call.pc = "idle" /\ UNCHANGED cVars
      /\ last' = [file |-> call.file, outcome |-> call.outcome]
  BY DEF Extract
<1>2. DecoderLoaded
  <2>1. script.method \in {"none", "zip", "lzma", "lzma2"}
    BY <1>1, Ready DEF CTypes, OwnMethods
  <2> QED
    BY <2>1 DEF DecoderLoaded, DecompClass
<1>3. NoCall \in Call /\ f \in Nat
  <2>1. <<>> \in Seq(ReadUnit) /\ <<>> \in Seq(Int \X Int)
    OBVIOUS
  <2> QED
    BY <1>1, <2>1, Ready DEF NoCall, Call
<1>4. new \in Call /\ new.file = f /\ new.outcome = NoCall.outcome
  BY <1>3 DEF Call
<1>5. NoCall.outcome = "none"
  BY DEF NoCall
<1> HIDE DEF new
<1>6. CASE call' = [new EXCEPT !.pc = "idle", !.outcome = "internal", !.cause = {"nokey"}]
  <2>1. call'.outcome = "internal" /\ call'.cause = {"nokey"} /\ call'.file = f
    BY <1>4, <1>6 DEF Call
  <2> QED
    BY <2>1 DEF FailsForACause, Recovery
<1>7. CASE call' = [new EXCEPT !.pc = "restart"] /\ tainted' = FALSE
  <2>1. call'.outcome = "none"
    BY <1>4, <1>5, <1>7 DEF Call
  <2> QED
    BY <1>7, <2>1 DEF FailsForACause, Recovery
<1>8. CASE call' = new /\ ~MustRestart(e)
  <2>1. call'.outcome = "none" /\ call'.file = f
    BY <1>4, <1>5, <1>8
  <2>2. ~(last' = [file |-> call'.file, outcome |-> "corrupted"])
    <3> SUFFICES ASSUME last' = [file |-> call'.file, outcome |-> "corrupted"] PROVE FALSE
      OBVIOUS
    <3>1. call.file = f /\ call.outcome = "corrupted"
      BY <1>1, <2>1
    <3> QED
      BY <1>8, <3>1 DEF Recovery
  <2> QED
    BY <2>1, <2>2 DEF FailsForACause, Recovery
<1> QED
  BY <1>2, <1>6, <1>7, <1>8 DEF Extract, new

\* A chunk that cannot be started is not taken for the one that was.
LEMMA RestartChunkBlames ==
  ASSUME CompilerInv, ExtractorInv, Recovery, RestartChunk
  PROVE  FailsForACause' /\ Recovery'
<1> DEFINE s == Entry.firstSlice
<1>1. /\ call.pc = "restart" /\ UNCHANGED cVars /\ UNCHANGED <<dec, keySet, last, tainted>>
  BY DEF RestartChunk
<1>2. /\ XTypes /\ cpc = "compiled" /\ call.file \in DOMAIN fl /\ call.outcome = "none"
      /\ x.firstSlice = 0 /\ call \in Call /\ tainted \in BOOLEAN /\ x \in Reader
  BY <1>1, Reading DEF ExtractorInv, XTypes, Progress
<1>3. s \in 1..Len(slices) /\ Len(slices) \in Nat /\ slices \in Seq(Slice)
  BY <1>2, EntryHas, Ready DEF Entry
<1>4. s # 0 /\ s \in DOMAIN slices
  <2> HIDE DEF s
  <2> QED
    BY <1>3
<1>5. CASE Goto("seek")
  <2>1. call'.outcome = "none" /\ call'.file = call.file /\ call'.cause = call.cause
    BY <1>2, <1>5 DEF Goto, Call
  <2> QED
    BY <1>1, <1>2, <2>1, GoesOn
<1>6. CASE (\E fault \in OpenFaults(s) : EndsOpening(fault, s)) /\ x' = Closed(x)
  <2>1. x'.firstSlice # s
    BY <1>2, <1>4, <1>6 DEF Closed, Reader
  <2> QED
    BY <1>1, <1>4, <1>6, <2>1, OpeningFails
<1>7. CASE /\ \E fault \in {"ioerror", "corrupted"} : Ends(fault, {fault})
           /\ x' = [x EXCEPT !.opened = s, !.pos = Entry.startOffset]
  <2>1. x'.firstSlice # s
    BY <1>2, <1>4, <1>7 DEF Reader
  <2>2. PICK fault \in {"ioerror", "corrupted"} : Ends(fault, {fault})
    BY <1>7
  <2>3. {fault} \in SUBSET Causes
    BY DEF Causes
  <2>4. /\ call'.pc = "idle" /\ call'.outcome = fault /\ call'.file = call.file
        /\ call'.cause = call.cause \cup {fault}
    BY <1>2, <2>2, <2>3, EndsDoes
  <2> QED
    BY <1>1, <2>1, <2>2, <2>4, Fails
<1> QED
  BY <1>5, <1>6, <1>7 DEF RestartChunk

LEMMA SeekBlames ==
  ASSUME CompilerInv, ExtractorInv, Recovery, Seek
  PROVE  FailsForACause' /\ Recovery'
<1>1. call.pc = "seek" /\ UNCHANGED <<last, tainted>> /\ tainted \in BOOLEAN
  BY DEF Seek, ExtractorInv, XTypes
<1>2. call \in Call /\ call.outcome = "none"
  BY <1>1, Reading DEF ExtractorInv, XTypes
<1>3. call'.outcome = "none" /\ call'.file = call.file /\ call'.cause = call.cause
  <2>1. CASE Entry.suboffset > x.read
    BY <1>2, <2>1 DEF Seek, Call
  <2>2. CASE ~(Entry.suboffset > x.read)
    BY <1>2, <2>2 DEF Seek, Call
  <2> QED
    BY <2>1, <2>2
<1> QED
  BY <1>1, <1>3, GoesOn

LEMMA NextPieceBlames ==
  ASSUME CompilerInv, ExtractorInv, Recovery, NextPiece
  PROVE  FailsForACause' /\ Recovery'
<1>1. call.pc = "loop" /\ UNCHANGED <<last, tainted>> /\ tainted \in BOOLEAN
  BY DEF NextPiece, ExtractorInv, XTypes
<1>2. call \in Call /\ call.outcome = "none"
  BY <1>1, Reading DEF ExtractorInv, XTypes
<1> DEFINE n == Least(call.left, PieceSize)
<1>3. call' = [call EXCEPT !.pc = "decode", !.size = n, !.want = n]
  BY DEF NextPiece
<1> HIDE DEF n
<1>4. call'.outcome = "none" /\ call'.file = call.file /\ call'.cause = call.cause
  BY <1>2, <1>3 DEF Call
<1> QED
  BY <1>1, <1>4, GoesOn

\* A checksum does not match but for damaged data; then the next SeekTo, for
\* the same file, finds the decompressor beyond its beginning.
LEMMA LoopEndsBlames ==
  ASSUME CompilerInv, ExtractorInv, Recovery, LoopEnds
  PROVE  FailsForACause' /\ Recovery'
<1>1. /\ call.pc = "loop" /\ call.left = 0 /\ UNCHANGED cVars /\ UNCHANGED <<keySet, last>>
      /\ UNCHANGED <<x, dec, tainted>>
  BY DEF LoopEnds
<1>2. XTypes /\ call \in Call /\ call.outcome = "none" /\ tainted \in BOOLEAN
  BY <1>1, Reading DEF ExtractorInv, XTypes
<1>3. {} \in SUBSET Causes
  OBVIOUS
<1>4. CASE Goto("seek")
  <2>1. call'.outcome = "none" /\ call'.file = call.file /\ call'.cause = call.cause
    BY <1>2, <1>4 DEF Goto, Call
  <2> QED
    BY <1>1, <1>2, <2>1, GoesOn
<1>5. CASE Ends("ok", {})
  <2>1. call'.outcome = "ok" /\ call'.file = call.file /\ call'.cause = call.cause \cup {}
    BY <1>2, <1>3, <1>5, EndsDoes
  <2>2. call.cause \subseteq call'.cause
    BY <2>1
  <2> QED
    BY <1>1, <1>2, <2>1, <2>2, GoesOn
<1>6. CASE Ends("corrupted", {}) /\ call.purpose # "discard" /\ call.out # Original(call.file)
  <2>1. /\ call'.outcome = "corrupted" /\ call'.pc = "idle" /\ call'.file = call.file
        /\ call'.cause = call.cause \cup {}
    BY <1>2, <1>3, <1>6, EndsDoes
  <2>2. call.cause \subseteq call'.cause
    BY <2>1
  <2>3. call.purpose = "extract"
    BY <1>2, <1>6, CallFields
  <2> DEFINE o == Entry.suboffset
             l == Entry.size
  <2>4. /\ call.out \in Seq(Int \X Int) /\ Len(call.out) = l /\ l \in Nat /\ x.read = o + l /\ o \in Nat
        /\ tainted
    BY <1>1, <1>2, <1>6, <2>3, WholeFile
  <2>5. l = FileAt(call.file).size
    BY <1>1, Within
  <2>6. l # 0
    <3> SUFFICES ASSUME l = 0 PROVE FALSE
      OBVIOUS
    <3>1. call.out = <<>>
      BY <2>4
    <3>2. Original(call.file) = <<>>
      BY <2>5 DEF Original, FileAt
    <3> QED
      BY <1>6, <3>1, <3>2
  <2>7. o < x.read
    <3> HIDE DEF o, l
    <3> QED
      BY <2>4, <2>6
  <2>8. o < x'.read
    BY <1>1, <2>7
  <2> QED
    BY <1>1, <2>1, <2>2, <2>4, <2>8, Fails
<1> QED
  BY <1>4, <1>5, <1>6 DEF LoopEnds

\* The stream does not run out.
LEMMA RefillBlames ==
  ASSUME CompilerInv, ExtractorInv, Recovery, Refill
  PROVE  FailsForACause' /\ Recovery'
<1> DEFINE asked == IF Codec = "stored" THEN call.want ELSE InBufSize
           n == Least(asked, x.bytesLeft)
<1>1. call.pc = "decode" /\ call.want > 0 /\ Decoder.buf = <<>> /\ last' = last
  BY DEF Refill, Decoder, Compressed
<1>2. XTypes /\ call \in Call /\ call.outcome = "none" /\ x.bytesLeft \in Nat
      /\ call.want \in Nat /\ tainted \in BOOLEAN
  BY <1>1, Reading, XFields, CallFields DEF ExtractorInv, XTypes
<1>3. x.bytesLeft > 0
  BY <1>1, MoreToRead
<1>4. n # 0
  BY <1>1, <1>2, <1>3, InBufAssumption DEF Least
<1>5. call' = [call EXCEPT !.pc = "read", !.toRead = n, !.inbuf = <<>>] /\ UNCHANGED tainted
  BY <1>4 DEF Refill
<1> HIDE DEF n
<1>6. call'.outcome = "none" /\ call'.file = call.file /\ call'.cause = call.cause
  BY <1>2, <1>5 DEF Call
<1> QED
  BY <1>1, <1>2, <1>5, <1>6, GoesOn

\* What cannot be decoded is damaged.
LEMMA DecodeBlames ==
  ASSUME CompilerInv, ExtractorInv, OwnMethods, Recovery, Decode
  PROVE  FailsForACause' /\ Recovery'
<1> DEFINE n == Least(call.want, Len(Decoder.buf))
<1>1. /\ call.pc = "decode" /\ n > 0 /\ UNCHANGED cVars /\ UNCHANGED <<keySet, last>>
      /\ \/ ~AllIntact(n) /\ RaiseFromDecompress("corrupted", {})
         \/ /\ call' = [call EXCEPT !.want = @ - n,
                          !.out = IF call.purpose = "extract" THEN @ \o Got(n) ELSE @]
            /\ UNCHANGED <<x, tainted>>
  BY DEF Decode, Got, AllIntact, Decoder, Compressed
<1>2. /\ XTypes /\ call \in Call /\ call.want \in Nat /\ Len(Decoder.buf) \in Nat /\ call.outcome = "none"
      /\ tainted \in BOOLEAN
  BY <1>1, Reading, XFields, CallFields DEF ExtractorInv, XTypes
<1>3. n \in Nat /\ n <= call.want /\ n <= Len(Decoder.buf)
  BY <1>2 DEF Least
<1> HIDE DEF n
<1>4. CASE ~AllIntact(n) /\ RaiseFromDecompress("corrupted", {})
  <2>1. tainted
    BY <1>1, <1>2, <1>3, <1>4, Decodable
  <2>2. {} \in SUBSET Causes
    OBVIOUS
  <2> QED
    BY <1>1, <1>4, <2>1, <2>2, Raises
<1>5. CASE /\ call' = [call EXCEPT !.want = @ - n,
                         !.out = IF call.purpose = "extract" THEN @ \o Got(n) ELSE @]
           /\ UNCHANGED <<x, tainted>>
  <2> DEFINE w == call.want - n
             o == IF call.purpose = "extract" THEN call.out \o Got(n) ELSE call.out
  <2>1. call' = [call EXCEPT !.want = w, !.out = o]
    BY <1>5
  <2> HIDE DEF w, o
  <2>2. call'.outcome = "none" /\ call'.file = call.file /\ call'.cause = call.cause
    BY <1>2, <2>1 DEF Call
  <2> QED
    BY <1>1, <1>2, <1>5, <2>2, GoesOn
<1> QED
  BY <1>1, <1>4, <1>5

LEMMA PieceDoneBlames ==
  ASSUME CompilerInv, ExtractorInv, Recovery, PieceDone
  PROVE  FailsForACause' /\ Recovery'
<1>1. call.pc = "decode" /\ UNCHANGED cVars /\ UNCHANGED <<dec, keySet, last, tainted>>
  BY DEF PieceDone
<1>2. XTypes /\ call \in Call /\ call.outcome = "none" /\ tainted \in BOOLEAN
  BY <1>1, Reading DEF ExtractorInv, XTypes
<1>3. CASE Ends("cancelled", {"cancelled"})
  <2>1. {"cancelled"} \in SUBSET Causes
    BY DEF Causes
  <2>2. /\ call'.outcome = "cancelled" /\ call'.pc = "idle" /\ call'.file = call.file
        /\ call'.cause = call.cause \cup {"cancelled"}
    BY <1>2, <1>3, <2>1, EndsDoes
  <2> QED
    BY <1>1, <2>2, Fails
<1>4. CASE call' = [call EXCEPT !.pc = "loop", !.left = @ - call.size]
  <2> DEFINE l == call.left - call.size
  <2>1. call' = [call EXCEPT !.pc = "loop", !.left = l]
    BY <1>4
  <2> HIDE DEF l
  <2>2. call'.outcome = "none" /\ call'.file = call.file /\ call'.cause = call.cause
    BY <1>2, <2>1 DEF Call
  <2> QED
    BY <1>1, <1>2, <2>2, GoesOn
<1> QED
  BY <1>3, <1>4 DEF PieceDone

\* Damage is noted.
LEMMA ReadRestBlames ==
  ASSUME CompilerInv, ExtractorInv, Recovery, ReadRest
  PROVE  FailsForACause' /\ Recovery'
<1>1. call.pc = "read" /\ last' = last
  BY DEF ReadRest
<1>2. call \in Call /\ call.outcome = "none" /\ tainted \in BOOLEAN
  BY <1>1, Reading DEF ExtractorInv, XTypes
<1>3. PICK damaged \in BOOLEAN :
        /\ tainted' = (tainted \/ damaged)
        /\ call' = [call EXCEPT !.pc = "decode", !.inbuf = <<>>, !.toRead = 0,
                                !.cause = @ \cup (IF damaged THEN {"damaged"} ELSE {})]
  BY DEF ReadRest
<1> DEFINE c == call.cause \cup (IF damaged THEN {"damaged"} ELSE {})
<1>4. call' = [call EXCEPT !.pc = "decode", !.inbuf = <<>>, !.toRead = 0, !.cause = c]
  BY <1>3
<1>5. call.cause \subseteq c /\ (damaged => "damaged" \in c)
  OBVIOUS
<1> HIDE DEF c
<1>6. call'.outcome = "none" /\ call'.file = call.file /\ call'.cause = c
  BY <1>2, <1>4 DEF Call
<1>7. tainted' => tainted \/ "damaged" \in call'.cause
  BY <1>2, <1>3, <1>5, <1>6
<1> QED
  BY <1>1, <1>5, <1>6, <1>7, GoesOn

\* There is a next slice, and it is one of the chunk's.
LEMMA ReadNextSliceBlames ==
  ASSUME CompilerInv, ExtractorInv, Recovery, ReadNextSlice
  PROVE  FailsForACause' /\ Recovery'
<1> DEFINE s == x.opened + 1
           y == AfterRead(InSlice, x)
<1>1. call.pc = "read" /\ InSlice < call.toRead /\ UNCHANGED cVars /\ UNCHANGED <<keySet, last>>
  BY DEF ReadNextSlice
<1>2. /\ call \in Call /\ call.outcome = "none" /\ tainted \in BOOLEAN /\ x.opened \in Nat /\ x.lastSlice \in Nat
      /\ cpc = "compiled" /\ call.file \in DOMAIN fl
  BY <1>1, Reading, XFields DEF ExtractorInv, XTypes
<1>3. x.opened < x.lastSlice /\ s \in DOMAIN slices
  BY <1>1, MoreSlices
<1>4. ~(x.opened >= x.lastSlice)
  BY <1>2, <1>3
<1>5. y \in Reader
  BY <1>1, <1>2, ReadHas, PlaceMoves
<1> HIDE DEF s, y
<1>6. CASE /\ \E fault \in OpenFaults(s) : EndsOpening(fault, s)
           /\ x' = [Closed(y) EXCEPT !.needReset = TRUE] /\ UNCHANGED <<dec, tainted>>
  <2>1. x'.needReset
    BY <1>5, <1>6 DEF Closed, Reader
  <2> QED
    BY <1>1, <1>3, <1>6, <2>1, OpeningFails
<1>7. CASE /\ call' = [call EXCEPT !.toRead = @ - InSlice, !.inbuf = @ \o Received(InSlice)]
           /\ UNCHANGED <<dec, tainted>>
  <2> DEFINE t == call.toRead - InSlice
             b == call.inbuf \o Received(InSlice)
  <2>1. call' = [call EXCEPT !.toRead = t, !.inbuf = b]
    BY <1>7
  <2> HIDE DEF t, b
  <2>2. call'.outcome = "none" /\ call'.file = call.file /\ call'.cause = call.cause
    BY <1>2, <2>1 DEF Call
  <2> QED
    BY <1>1, <1>2, <1>7, <2>2, GoesOn
<1> QED
  BY <1>4, <1>6, <1>7 DEF ReadNextSlice, s, y

LEMMA ReadFailsBlames ==
  ASSUME CompilerInv, ExtractorInv, Recovery, ReadFails
  PROVE  FailsForACause' /\ Recovery'
<1>1. {"ioerror"} \in SUBSET Causes
  BY DEF Causes
<1> QED
  BY <1>1, Raises DEF ReadFails

\* Nothing has changed of the call, but what the compiler is at.
LEMMA SameCallBlames ==
  ASSUME CompilerInv, ExtractorInv, FailsForACause, Recovery, UNCHANGED <<x, call, last, tainted>>,
         fl' = fl \/ call = NoCall
  PROVE  FailsForACause' /\ Recovery'
<1>1. tainted \in BOOLEAN
  BY DEF ExtractorInv, XTypes
<1>2. FailsForACause'
  BY <1>1 DEF FailsForACause
<1>3. /\ last = [file |-> call.file, outcome |-> "corrupted"] /\ tainted /\ call.outcome \in {"none", "corrupted"}
      => "damaged" \in call.cause
  BY DEF Recovery
<1>4. /\ last' = [file |-> call'.file, outcome |-> "corrupted"] /\ tainted' /\ call'.outcome \in {"none", "corrupted"}
      => "damaged" \in call'.cause
  BY <1>1, <1>3
<1>5. call'.outcome = "corrupted" => call'.pc = "idle" /\ call'.file \in DOMAIN fl' /\ MustRestart(fl[call.file])'
  <2>1. CASE fl' = fl
    <3>1. MustRestart(fl[call.file]) => MustRestart(fl[call.file])'
      BY <2>1 DEF MustRestart
    <3> QED
      BY <2>1, <3>1 DEF Recovery
  <2>2. CASE call = NoCall
    BY <2>2 DEF NoCall
  <2> QED
    BY <2>1, <2>2
<1>6. Recovery'
  BY <1>4, <1>5 DEF Recovery
<1> QED
  BY <1>2, <1>6

-----------------------------------------------------------------------------
(***************************************************************************)
(* The theorems.                                                           *)
(***************************************************************************)

\* Between the pieces that Setup decompresses, the chunk the extractor is in
\* is that of some file; what it has left of the chunk, its place in the
\* slices, the key stream and the decompressor agree on how far it is; and
\* what the decompressor holds, what is coming and what has been handed out
\* are the units that belong there, unless damaged data were read.  While the
\* compiler is at work, what it has written is where its entries say.
\* (TCompressionHandler; TFileExtractor.SeekTo, ReadProc and DecompressBytes.)
THEOREM ExtractorInvariant == Spec => []Inv
BY InvInvariant

\* When the compiler is done, the chunk of each file location entry begins with
\* its mark in the slice and at the offset the entry names, every unit of it is
\* where a reader who counts from there looks for it, encrypted for that place
\* and compressed by the file's compressor, no unit of another chunk is among
\* them, the chunk ends by the slice that the entry names as its last, and that
\* slice and all before it are complete.
\* (TCompressionHandler.WriteProc, NewChunk and EndChunk.)
THEOREM CompilerLaysOutChunks ==
  Spec => [](cpc = "compiled" =>
               \A f \in DOMAIN fl : /\ Finished(slices, fl, fl[f], GetCompressorClass(FileAt(f)))
                                    /\ \A s \in 1..fl[f].lastSlice : Sound(s))
<1> DEFINE P == cpc = "compiled" =>
                  \A f \in DOMAIN fl : /\ Finished(slices, fl, fl[f], GetCompressorClass(FileAt(f)))
                                       /\ \A s \in 1..fl[f].lastSlice : Sound(s)
<1>1. Inv => P
  <2> SUFFICES ASSUME Inv, cpc = "compiled", NEW f \in DOMAIN fl
               PROVE  /\ Finished(slices, fl, fl[f], GetCompressorClass(FileAt(f)))
                      /\ \A s \in 1..fl[f].lastSlice : Sound(s)
    OBVIOUS
  <2>1. CompilerInv
    BY DEF Inv
  <2>2. /\ Finished(slices, fl, fl[f], Class(f)) /\ Len(slices) \in Nat /\ DOMAIN slices = 1..Len(slices)
        /\ \A s \in DOMAIN slices : Sound(s)
    BY <2>1, Ready
  <2>3. fl[f].lastSlice \in 1..Len(slices)
    BY <2>1, EntryHas
  <2> DEFINE l == fl[f].lastSlice
  <2>4. \A s \in 1..l : s \in DOMAIN slices
    <3> HIDE DEF l
    <3>1. l \in 1..Len(slices)
      BY <2>3 DEF l
    <3> QED
      BY <2>2, <3>1
  <2> QED
    BY <2>2, <2>4 DEF Class
<1> HIDE DEF P
<1>2. Spec => []P
  BY <1>1, InvInvariant, PTL
<1> QED
  BY <1>2 DEF P

\* Unless the next SeekTo starts the chunk over, the extractor's account of the
\* chunk, the place it reads from, the key stream and the decompressor are at
\* the same point of the stream, whatever calls went before and however they
\* ended.  (FNeedReset in DecompressBytes, and the fields SeekTo compares.)
THEOREM StaysInSync == Spec => []InSync
<1>1. Inv => InSync
  BY InSyncHolds
<1> QED
  BY <1>1, InvInvariant, PTL

\* No slice is opened, and no disk asked for, but those the chunk of the file
\* that is being extracted lies on.  (OpenSlice, from SeekTo and ReadProc.)
THEOREM OnlyOwnSlices == Spec => AsksForOwnSlices
<1>1. Inv /\ [Next]_vars =>
        [x'.opened \notin {0, x.opened} => x'.opened \in Entry.firstSlice..Entry.lastSlice]_vars
  <2> SUFFICES ASSUME Inv, [Next]_vars, x'.opened \notin {0, x.opened}
               PROVE  x'.opened \in Entry.firstSlice..Entry.lastSlice
    OBVIOUS
  <2>1. Next
    BY DEF vars, xVars
  <2> QED
    BY <2>1, SlicesAreItsOwn
<1> QED
  BY <1>1, InvInvariant, PTL DEF Spec, AsksForOwnSlices

\* A file that DecompressFile has extracted is the file that was compressed:
\* for any script, any sizes of slices and buffers, after any extractions that
\* succeeded, failed or were cancelled; but where the data were damaged and the
\* file's checksum is not verified.
THEOREM OriginalExtracted == Spec => []ExtractsTheOriginal
<1>1. Inv => ExtractsTheOriginal
  BY DEF Inv, ExtractorInv, Extracted, ExtractsTheOriginal
<1> QED
  BY <1>1, InvInvariant, PTL

LEMMA BlameInvariant ==
  ASSUME OwnMethods
  PROVE  Spec => [](FailsForACause /\ Recovery)
<1>1. Init => FailsForACause /\ Recovery
  <2> SUFFICES ASSUME Init PROVE FailsForACause /\ Recovery
    OBVIOUS
  <2>1. call.outcome = "none" /\ last.outcome = "none"
    BY DEF Init, XInit, NoCall
  <2>2. last # [file |-> call.file, outcome |-> "corrupted"]
    BY <2>1
  <2> QED
    BY <2>1, <2>2 DEF FailsForACause, Recovery
<1>2. Inv /\ (FailsForACause /\ Recovery) /\ [Next]_vars => (FailsForACause /\ Recovery)'
  <2> SUFFICES ASSUME Inv, FailsForACause, Recovery, [Next]_vars
               PROVE  FailsForACause' /\ Recovery'
    OBVIOUS
  <2>1. CompilerInv /\ ExtractorInv
    BY DEF Inv
  <2>2. CASE CNext /\ UNCHANGED xVars
    <3>1. cpc # "compiled"
      BY <2>1, <2>2, CompiledStops
    <3>2. call = NoCall /\ UNCHANGED <<x, call, last, tainted>>
      BY <2>1, <2>2, <3>1 DEF ExtractorInv, Progress, xVars
    <3> QED
      BY <2>1, <3>2, SameCallBlames
  <2>3. CASE UNCHANGED vars
    <3>1. fl' = fl /\ UNCHANGED <<x, call, last, tainted>>
      BY <2>3 DEF vars, cVars, xVars
    <3> QED
      BY <2>1, <3>1, SameCallBlames
  <2>4. CASE SetCryptKey
    <3>1. fl' = fl /\ UNCHANGED <<x, call, last, tainted>>
      BY <2>4 DEF SetCryptKey, cVars
    <3> QED
      BY <2>1, <3>1, SameCallBlames
  <2>5. CASE XNext /\ ~SetCryptKey
    BY <2>1, <2>5, ExtractBlames, RestartChunkBlames, SeekBlames, NextPieceBlames, LoopEndsBlames,
       RefillBlames, DecodeBlames, PieceDoneBlames, ReadRestBlames, ReadNextSliceBlames, ReadFailsBlames
       DEF XNext
  <2> QED
    BY <2>2, <2>3, <2>4, <2>5 DEF Next, CompileFailed
<1> QED
  BY <1>1, <1>2, InvInvariant, PTL DEF Spec

\* When Setup has the decompressors of the methods the scripts use, a call fails
\* only for what happened in it (a disk that was refused, an I/O error, a slice
\* that is no slice, the user's cancel, a key that was not given) or for damaged
\* data of the same start of the chunk: the stream neither ends early nor reads
\* as something else, and an earlier exception is not met again.
THEOREM FailuresHaveCauses ==
  ASSUME OwnMethods
  PROVE  Spec => []FailsForACause
<1>1. FailsForACause /\ Recovery => FailsForACause
  OBVIOUS
<1> QED
  BY <1>1, BlameInvariant, PTL

\* With the same decompressors, to extract a file again after "The source file
\* is corrupted" reads the chunk anew: it is reported a second time only if
\* something of the second call is the cause.  (FNeedReset, and the comparison
\* of the file's offset with FChunkDecompressedBytesRead.)
THEOREM SecondTryIsNew ==
  ASSUME OwnMethods
  PROVE  Spec => []RetryRecovers
<1>1. FailsForACause /\ Recovery => RetryRecovers
  BY DEF FailsForACause, Recovery, RetryRecovers
<1> QED
  BY <1>1, BlameInvariant, PTL
================================================================================
