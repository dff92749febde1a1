----------------------------- MODULE FileExtractor -----------------------------
(***************************************************************************)
(* Setup's TFileExtractor (Setup.FileExtractor.pas), reading what          *)
(* CompressionHandler wrote.  Setup and [Code] extract any file, in any    *)
(* order and any number of times.  The extractor goes on from where the    *)
(* last call left it when it can, and starts the chunk over when it must;  *)
(* a disk that is not provided, a read error, damaged data or the user's   *)
(* cancel can end a call at any point of it.                               *)
(***************************************************************************)
EXTENDS CompressionHandler, FiniteSets

CONSTANT InBufSize  \* FBuffer of a decompressor

ASSUME InBufAssumption == InBufSize \in Nat \ {0}

VARIABLES
  x,       \* the TFileExtractor
  dec,     \* FDecompressor: for chunks that are not compressed, and that are
  keySet,  \* FCryptKeySet
  call,    \* the call of SeekTo and DecompressFile under way, or the last one
  last,    \* history: the file of the call before that, and how it ended
  tainted  \* history: damaged data was read since the chunk was started

xVars == <<x, dec, keySet, call, last, tainted>>
vars == <<cVars, xVars>>

Garbled == [codec |-> "none", pos |-> 0, unit |-> <<-1, -1>>, key |-> NoKey]
Garbage == Garbled.unit

Nowhere == [opened |-> 0, pos |-> 0, firstSlice |-> 0, lastSlice |-> 0, startOffset |-> 0,
            bytesLeft |-> 0, read |-> 0, needReset |-> FALSE, compressed |-> FALSE,
            encrypted |-> FALSE, crypt |-> NoKey]
FreshDecompressor == [buf |-> <<>>, next |-> 1]
NoCall == [pc |-> "idle", file |-> 0, purpose |-> "discard", verify |-> TRUE, left |-> 0,
           size |-> 0, want |-> 0, toRead |-> 0, inbuf |-> <<>>, out |-> <<>>,
           outcome |-> "none", cause |-> {}]

Entry == fl[call.file]
Compressed == x.compressed
Goto(l) == call' = [call EXCEPT !.pc = l]

-----------------------------------------------------------------------------
(***************************************************************************)
(* Codecs.                                                                 *)
(***************************************************************************)

\* DecompClasses, by SetupHeader.CompressMethod.
DecompClass ==
  [none |-> "stored", zip |-> "zlib", bzip |-> "bzip2", lzma |-> "lzma", lzma2 |-> "lzma2",
   brotli |-> "brotli", zstd |-> "zstd", smart |-> "zstd"][script.method]

\* LoadDecompressorDLL knows zlib and bzlib; LZMA is linked in.  Nothing in
\* Setup loads the Brotli or the Zstd DLL, and their decompressors' Create
\* raises without it.
DecoderLoaded == DecompClass \notin {"brotli", "zstd"}

Codec == IF Compressed THEN DecompClass ELSE "stored"

\* Mutant: data are not decrypted after a slice change.
DecryptFirstSlice(units) ==
  IF x.encrypted /\ x.opened = x.firstSlice
  THEN [k \in DOMAIN units |-> [units[k] EXCEPT !.key = NoKey]] ELSE units

\* XChaCha20Crypt undoes itself with the same key stream, and only with it.
Decrypt(units) ==
  IF x.encrypted
  THEN [k \in DOMAIN units |->
          IF units[k].key = <<x.crypt[1], x.crypt[2], x.crypt[3] + k>>
          THEN [units[k] EXCEPT !.key = NoKey] ELSE Garbled]
  ELSE units

\* What a stream unit yields as the next unit of output.  The stored
\* decompressor passes on whatever it reads.  The others need the codec they
\* know and everything before the unit; faced with anything else they raise,
\* or (the damage going unnoticed) yield something else.
Intact(u, codec, next) == u.codec = codec /\ u.key = NoKey /\ u.pos = next /\ u.unit # EndMark
Yields(u, codec, next) ==
  IF codec = "stored" THEN IF u.codec = "stored" /\ u.key = NoKey THEN u.unit ELSE Garbage
  ELSE IF Intact(u, codec, next) THEN u.unit ELSE Garbage

-----------------------------------------------------------------------------
(***************************************************************************)
(* The end of a call.                                                      *)
(***************************************************************************)

Ends(outcome, cause) ==
  call' = [call EXCEPT !.pc = "idle", !.outcome = outcome, !.cause = @ \cup cause]

\* Mutant: an exception leaves the decompressor as it is.
NoResetAfterException == UNCHANGED x

\* An exception passes through DecompressBytes.
ResetAfterException == x' = [x EXCEPT !.needReset = TRUE]

RaiseFromDecompress(outcome, cause) ==
  /\ ResetAfterException
  /\ Ends(outcome, cause)
  /\ UNCHANGED <<dec, tainted>>

-----------------------------------------------------------------------------
(***************************************************************************)
(* SeekTo.                                                                 *)
(***************************************************************************)

\* SetCryptKey, once the password is known.
SetCryptKey == /\ call.pc = "idle" /\ ~keySet
               /\ keySet' = TRUE
               /\ UNCHANGED <<cVars, x, dec, call, last, tainted>>

\* Mutant: a failed decompression is forgotten.
MustRestartUnlessFailed(e) ==
  \/ x.firstSlice # e.firstSlice \/ x.startOffset # e.startOffset \/ e.suboffset < x.read

\* Mutant: chunks are told apart by their offset alone.
MustRestartByOffset(e) ==
  \/ x.firstSlice = 0 \/ x.startOffset # e.startOffset \/ e.suboffset < x.read \/ x.needReset

\* The chunk is started over.
MustRestart(e) ==
  \/ x.firstSlice # e.firstSlice
  \/ x.startOffset # e.startOffset
  \/ e.suboffset < x.read
  \/ x.needReset

\* Extraction of file f begins: FileExtractor is created if it was not, and
\* SeekTo decides where to read from.
Extract(f, verify) ==
  /\ cpc = "compiled" /\ call.pc = "idle"
  /\ LET e == fl[f]
         new == [NoCall EXCEPT !.pc = "seek", !.file = f, !.verify = verify]
     IN  /\ last' = [file |-> call.file, outcome |-> call.outcome]
         /\ \/ /\ ~DecoderLoaded \/ (e.encrypted /\ ~keySet)
               /\ call' = [new EXCEPT !.pc = "idle", !.outcome = "internal",
                                      !.cause = IF e.encrypted /\ ~keySet THEN {"nokey"} ELSE {}]
               /\ UNCHANGED <<x, dec, tainted>>
            \/ /\ DecoderLoaded /\ (e.encrypted => keySet) /\ MustRestart(e)
               /\ x' = [x EXCEPT !.firstSlice = 0, !.needReset = FALSE]
               /\ dec' = [dec EXCEPT ![e.compressed] = FreshDecompressor]
               /\ call' = [new EXCEPT !.pc = "restart"]
               /\ tainted' = FALSE
            \/ /\ DecoderLoaded /\ (e.encrypted => keySet) /\ ~MustRestart(e)
               /\ call' = new
               /\ UNCHANGED <<x, dec, tainted>>
  /\ UNCHANGED <<cVars, keySet>>

Sound(s) == script.spanning => slices[s].sealed

\* Why OpenSlice, going to slice s, may fail: the user does not provide the
\* disk, or the file cannot be read or has not the right header.
OpenFaults(s) ==
  IF script.spanning THEN {"refused", "ioerror", "corrupted"} ELSE {"ioerror"}

\* OpenSlice has failed; an unsound slice is no accident.
EndsOpening(fault, s) == Ends(fault, IF fault = "corrupted" /\ ~Sound(s) THEN {} ELSE {fault})
Closed(y) == [y EXCEPT !.opened = 0, !.pos = 0]

RestartChunk ==
  /\ call.pc = "restart"
  /\ LET e == Entry IN
     \/ /\ Sound(e.firstSlice)
        /\ slices[e.firstSlice].data[e.startOffset + 1] = ChunkId
        /\ x' = [opened |-> e.firstSlice, pos |-> e.startOffset + 1,
                 firstSlice |-> e.firstSlice, lastSlice |-> e.lastSlice,
                 startOffset |-> e.startOffset, bytesLeft |-> e.compressedSize,
                 read |-> 0, needReset |-> x.needReset,
                 compressed |-> e.compressed, encrypted |-> e.encrypted,
                 crypt |-> IF e.encrypted THEN <<e.firstSlice, e.startOffset, 0>> ELSE x.crypt]
        /\ Goto("seek")
     \/ /\ x.opened # e.firstSlice
        /\ \E fault \in OpenFaults(e.firstSlice) : EndsOpening(fault, e.firstSlice)
        /\ x' = Closed(x)
     \/ /\ Sound(e.firstSlice)  \* CompID cannot be read, or is damaged
        /\ \E fault \in {"ioerror", "corrupted"} : Ends(fault, {fault})
        /\ x' = [x EXCEPT !.opened = e.firstSlice, !.pos = e.startOffset]
  /\ UNCHANGED <<cVars, dec, keySet, last, tainted>>

\* The part of the chunk in front of the file is read and dropped (Discard);
\* then DecompressFile begins.
Seek ==
  /\ call.pc = "seek"
  /\ call' = IF Entry.suboffset > x.read
             THEN [call EXCEPT !.pc = "loop", !.left = Entry.suboffset - x.read]
             ELSE [call EXCEPT !.pc = "loop", !.purpose = "extract", !.left = Entry.size]
  /\ UNCHANGED <<cVars, x, dec, keySet, last, tainted>>

-----------------------------------------------------------------------------
(***************************************************************************)
(* Discard and DecompressFile, DecompressBytes and DecompressInto.         *)
(***************************************************************************)

NextPiece ==
  /\ call.pc = "loop" /\ call.left > 0
  /\ LET n == Least(call.left, PieceSize)
     IN  call' = [call EXCEPT !.pc = "decode", !.size = n, !.want = n]
  /\ UNCHANGED <<cVars, x, dec, keySet, last, tainted>>

LoopEnds ==
  /\ call.pc = "loop" /\ call.left = 0
  /\ IF call.purpose = "discard" THEN Goto("seek")
     ELSE IF call.verify /\ call.out # Original(call.file) THEN Ends("corrupted", {})
     ELSE Ends("ok", {})
  /\ UNCHANGED <<cVars, x, dec, keySet, last, tainted>>

\* DecompressInto needs more of the stream.
Refill ==
  /\ call.pc = "decode" /\ call.want > 0 /\ dec[Compressed].buf = <<>>
  /\ LET asked == IF Codec = "stored" THEN call.want ELSE InBufSize
         n == Least(asked, x.bytesLeft)
     IN  IF n = 0
         THEN RaiseFromDecompress("corrupted", {})
         ELSE /\ call' = [call EXCEPT !.pc = "read", !.toRead = n, !.inbuf = <<>>]
              /\ UNCHANGED <<x, dec, tainted>>
  /\ UNCHANGED <<cVars, keySet, last>>

\* DecompressInto decodes what it has.
Decode ==
  /\ call.pc = "decode" /\ call.want > 0
  /\ LET d == dec[Compressed]
         n == Least(call.want, Len(d.buf))
         got == [k \in 1..n |-> Yields(d.buf[k], Codec, d.next + k - 1)]
         intact == Codec = "stored" \/ \A k \in 1..n : Intact(d.buf[k], Codec, d.next + k - 1)
     IN  /\ n > 0
         /\ \/ ~intact /\ RaiseFromDecompress("corrupted", {})
            \/ /\ intact \/ tainted
               /\ dec' = [dec EXCEPT ![Compressed] =
                            [buf |-> From(d.buf, n), next |-> d.next + n]]
               /\ call' = [call EXCEPT !.want = @ - n,
                             !.out = IF call.purpose = "extract" THEN @ \o got ELSE @]
               /\ UNCHANGED <<x, tainted>>
  /\ UNCHANGED <<cVars, keySet, last>>

\* DecompressBytes returns.  Writing the destination file may raise then, and
\* so does the progress callback when the user cancels.
PieceDone ==
  /\ call.pc = "decode" /\ call.want = 0
  /\ x' = [x EXCEPT !.read = @ + call.size]
  /\ \/ call' = [call EXCEPT !.pc = "loop", !.left = @ - call.size]
     \/ Ends("cancelled", {"cancelled"})
  /\ UNCHANGED <<cVars, dec, keySet, last, tainted>>

-----------------------------------------------------------------------------
(***************************************************************************)
(* ReadProc: the next call.toRead units of the chunk, from as many slices  *)
(* as they are spread over.                                                *)
(***************************************************************************)

\* n units of the open slice arrive.
Received(n) == Decrypt([k \in 1..n |-> slices[x.opened].data[x.pos + k]])

AfterRead(n, y) ==
  [y EXCEPT !.pos = @ + n, !.bytesLeft = @ - n,
            !.crypt = IF y.encrypted THEN <<@[1], @[2], @[3] + n>> ELSE @]

InSlice == Least(call.toRead, Len(slices[x.opened].data) - x.pos)

\* The last of them are in the open slice; on damaged media they are not what
\* was written.
ReadRest ==
  /\ call.pc = "read" /\ InSlice = call.toRead
  /\ \E damaged \in BOOLEAN :
       LET units == IF damaged THEN [k \in 1..InSlice |-> Garbled] ELSE Received(InSlice)
       IN  /\ dec' = [dec EXCEPT ![Compressed].buf = call.inbuf \o units]
           /\ tainted' = (tainted \/ damaged)
           /\ call' = [call EXCEPT !.pc = "decode", !.inbuf = <<>>, !.toRead = 0,
                                   !.cause = @ \cup (IF damaged THEN {"damaged"} ELSE {})]
  /\ x' = AfterRead(InSlice, x)
  /\ UNCHANGED <<cVars, keySet, last>>

ReadNextSlice ==
  /\ call.pc = "read" /\ InSlice < call.toRead
  /\ IF x.opened >= x.lastSlice
     THEN RaiseFromDecompress("corrupted", {})
     ELSE \/ /\ Sound(x.opened + 1)
             /\ x' = [AfterRead(InSlice, x) EXCEPT !.opened = @ + 1, !.pos = 0]
             /\ call' = [call EXCEPT !.toRead = @ - InSlice, !.inbuf = @ \o Received(InSlice)]
             /\ UNCHANGED <<dec, tainted>>
          \/ /\ \E fault \in OpenFaults(x.opened + 1) : EndsOpening(fault, x.opened + 1)
             /\ x' = [Closed(AfterRead(InSlice, x)) EXCEPT !.needReset = TRUE]
             /\ UNCHANGED <<dec, tainted>>
  /\ UNCHANGED <<cVars, keySet, last>>

\* ReadFile fails.
ReadFails ==
  /\ call.pc = "read"
  /\ RaiseFromDecompress("ioerror", {"ioerror"})
  /\ UNCHANGED <<cVars, keySet, last>>

-----------------------------------------------------------------------------
XInit == /\ x = Nowhere
         /\ dec = [c \in BOOLEAN |-> FreshDecompressor]
         /\ keySet = FALSE /\ call = NoCall
         /\ last = [file |-> 0, outcome |-> "none"] /\ tainted = FALSE

XNext == \/ SetCryptKey
         \/ \E f \in DOMAIN fl, verify \in BOOLEAN : Extract(f, verify)
         \/ RestartChunk \/ Seek \/ NextPiece \/ LoopEnds
         \/ Refill \/ Decode \/ PieceDone
         \/ ReadRest \/ ReadNextSlice \/ ReadFails

Init == CInit /\ XInit
\* The compiler has stopped with an error, so that there is nothing to install.
CompileFailed == cpc = "aborted" /\ UNCHANGED vars

Next == (CNext /\ UNCHANGED xVars) \/ XNext \/ CompileFailed
Spec == Init /\ [][Next]_vars

-----------------------------------------------------------------------------
TypeOK ==
  /\ script \in Scripts
  /\ cpc \in {"next", "finalize", "enter", "compress", "compiled", "aborted"}
  /\ file \in Nat /\ toRead \in Nat
  /\ ch.left \in Nat /\ ch.bytesWritten \in Nat /\ ch.class \in Codecs
  /\ x.opened \in 0..Len(slices) /\ x.pos \in Nat /\ x.bytesLeft \in Nat
  /\ \A c \in BOOLEAN : Len(dec[c].buf) <= IF c THEN InBufSize ELSE PieceSize
  /\ keySet \in BOOLEAN /\ tainted \in BOOLEAN
  /\ call.outcome \in {"none", "ok", "refused", "ioerror", "corrupted", "cancelled", "internal"}

\* A file that has been extracted is the file that was compressed, whatever
\* was extracted before it and however that ended, unless the media was damaged
\* and the file is one whose checksum is not verified.
ExtractsTheOriginal ==
  call.outcome = "ok" /\ (call.verify \/ ~tainted) => call.out = Original(call.file)

\* A call fails only for what happened in it, or for damaged data that were
\* read ahead for it: never for what was raised in an earlier call, and no
\* script the compiler accepts makes an installation Setup cannot read.
FailsForACause ==
  CASE call.outcome = "corrupted" -> "corrupted" \in call.cause \/ tainted
    [] call.outcome = "internal" -> "nokey" \in call.cause
    [] call.outcome \in {"refused", "ioerror", "cancelled"} -> call.outcome \in call.cause
    [] OTHER -> TRUE

\* "force a decompressor reset & re-seek the next time": to try again after
\* "The source file is corrupted" is not to meet the same data again.
RetryRecovers ==
  call.outcome = "corrupted" /\ last = [file |-> call.file, outcome |-> "corrupted"]
    => call.cause # {}

\* Only slices of the file's chunk are asked for.
AsksForOwnSlices ==
  [][x'.opened \notin {0, x.opened}
       => x'.opened \in Entry.firstSlice..Entry.lastSlice]_vars

\* Between pieces the extractor's account of the chunk, the place it reads
\* from, the key stream and the decompressor are at the same point of the
\* stream, or the next SeekTo starts the chunk over.
InSync ==
  (x.firstSlice # 0 /\ ~x.needReset /\ call.pc \in {"idle", "seek", "loop"}) =>
    LET e == CHOOSE e \in {fl[i] : i \in DOMAIN fl} :
               e.firstSlice = x.firstSlice /\ e.startOffset = x.startOffset
        consumed == e.compressedSize - x.bytesLeft
        placed(s) == {s} \X (1..IF s < x.opened THEN Len(slices[s].data) ELSE x.pos)
    IN  /\ Cardinality(UNION {placed(s) : s \in x.firstSlice..x.opened}) = x.startOffset + 1 + consumed
        /\ x.encrypted => x.crypt = <<x.firstSlice, x.startOffset, consumed>>
        /\ dec[x.compressed].next = x.read + 1
        /\ x.read + Len(dec[x.compressed].buf) = consumed
=================================================================================
