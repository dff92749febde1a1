--------------------------- MODULE CompressionHandler ---------------------------
(***************************************************************************)
(* How the compiler lays out the files of an installation: CompressFiles   *)
(* (Compiler.SetupCompiler.pas) drives a TCompressionHandler.  Files are   *)
(* grouped into chunks, each compressed (and encrypted) as one stream; the *)
(* stream is cut over the slices of a spanned disk set.  Only the file     *)
(* location entries tell Setup where a chunk is and how long it is, and    *)
(* they are complete only once the chunk has ended.                        *)
(*                                                                         *)
(* A unit stands for a run of bytes.  A unit of a stream records the codec *)
(* it was compressed by, its place in the stream, what it stands for, and  *)
(* the place of the key stream it was encrypted with.  Slices are numbered *)
(* from 1; offsets are counted from the end of the slice's header.         *)
(***************************************************************************)
EXTENDS Integers, Sequences

CONSTANTS
  Scripts,    \* what can be compiled, see ScriptType
  SliceSize,  \* room in a new slice, header excluded
  PieceSize,  \* Buf of CompressFile, and of DecompressFile and Discard
  Encoders    \* which of the Brotli and Zstd DLLs the compiler has found

Codecs == {"stored", "zlib", "bzip2", "lzma", "lzma2", "brotli", "zstd"}
Methods == {"none", "zip", "bzip", "lzma", "lzma2", "brotli", "zstd", "smart"}
Strategies == {"stored", "brotli", "zstd", "lzma2"}

FileType == [size : Nat, compressed : BOOLEAN, encrypted : BOOLEAN,
             solidBreak : BOOLEAN, strategy : Strategies]

\* The levels that [Setup] Compression allows with each method, the ones it
\* stands for when none is given included.
Levels == [none |-> {0}, zip |-> 1..9, bzip |-> 1..9, lzma |-> 1..5, lzma2 |-> 1..5,
           brotli |-> 0..11, zstd |-> 1..22, smart |-> {2}]

ScriptType == {s \in [method : Methods, level : Nat, solid : BOOLEAN, spanning : BOOLEAN,
                      room : Nat,  \* FSliceBytesLeft once the first slice is set up
                      files : Seq(FileType)] : s.level \in Levels[s.method]}

ASSUME SizeAssumption == SliceSize \in Nat /\ SliceSize >= 2 /\ PieceSize \in Nat \ {0}
ASSUME ScriptAssumption == Scripts \subseteq ScriptType
ASSUME EncoderAssumption == Encoders \subseteq {"brotli", "zstd"}

VARIABLES
  script,
  cpc,     \* where CompressFiles is
  file,    \* I, from 1
  toRead,  \* Bytes of CompressFile
  ch,      \* the TCompressionHandler
  slices,  \* the slice files on disk
  fl       \* FileLocationEntries

cVars == <<script, cpc, file, toRead, ch, slices, fl>>

Least(a, b) == IF a <= b THEN a ELSE b
From(s, n) == SubSeq(s, n + 1, Len(s))

NoKey == <<>>
ChunkId == "zlb"    \* ZLIBID, in front of every chunk
EndMark == <<0, 0>> \* what ends the stream of a compressor other than the stored one

Original(i) == [k \in 1..script.files[i].size |-> <<i, k>>]

-----------------------------------------------------------------------------
(***************************************************************************)
(* The choice of a compressor.                                             *)
(***************************************************************************)

IfFound(codec) == IF codec \in Encoders THEN codec ELSE "lzma2"

\* SelectCompressionStrategy's choice is part of the file here; it is "stored"
\* for a small file and for one that is already compressed.
FactoryClass(f) ==
  [none |-> "stored", zip |-> "zlib", bzip |-> "lzma2", lzma |-> "lzma", lzma2 |-> "lzma2",
   brotli |-> IfFound("brotli"), zstd |-> IfFound("zstd"),
   smart |-> IF f.strategy \in {"brotli", "zstd"} THEN IfFound(f.strategy) ELSE f.strategy
  ][script.method]

GetCompressorClass(f) == IF f.compressed THEN FactoryClass(f) ELSE "stored"

\* InitializeProps, when a compressor is created: the level given with another
\* method may be none that the LZMA compressors know.
CompressorRaises(class) == class \in {"lzma", "lzma2"} /\ script.level \notin 1..5

-----------------------------------------------------------------------------
(***************************************************************************)
(* Slices.                                                                 *)
(***************************************************************************)

EmptySlice == [data |-> <<>>, sealed |-> FALSE]
CurSlice == Len(slices)

EndSlice == [slices EXCEPT ![CurSlice].sealed = TRUE]

NewSlice == IF script.spanning THEN Append(EndSlice, EmptySlice) ELSE EndSlice

\* Starting a slice without disk spanning is a compile error.
AbortCompile == /\ cpc' = "aborted"
                /\ slices' = NewSlice
                /\ UNCHANGED <<script, file, toRead, ch, fl>>

\* S bytes of the buffer go to slice s of on.
WriteTo(on, units) == [on EXCEPT ![Len(on)].data = @ \o units]

-----------------------------------------------------------------------------
(***************************************************************************)
(* The compressor and WriteProc.  A compressor may keep any part of its    *)
(* output until Finish, except the stored one, which has none to keep.     *)
(***************************************************************************)

\* Mutant: the key stream starts over in each call.
EncryptFromStart(units) ==
  [k \in DOMAIN units |-> [units[k] EXCEPT !.key = <<ch.firstSlice, ch.startOffset, k>>]]

Encrypt(units) ==
  [k \in DOMAIN units |->
     [units[k] EXCEPT !.key = <<ch.firstSlice, ch.startOffset, ch.bytesWritten + k>>]]

Fits(left, n) == Least(left, n)

\* One turn of WriteProc's loop.
WriteProc ==
  /\ ch.out # <<>> /\ cpc # "aborted"
  /\ IF ch.left = 0 /\ ~script.spanning
     THEN AbortCompile
     ELSE LET full == ch.left = 0
              left == IF full THEN SliceSize ELSE ch.left
              n == Fits(left, Len(ch.out))
              units == SubSeq(ch.out, 1, n)
          IN  /\ slices' = WriteTo(IF full THEN NewSlice ELSE slices,
                                   IF ch.encrypted THEN Encrypt(units) ELSE units)
              /\ ch' = [ch EXCEPT !.left = left - n, !.bytesWritten = @ + n,
                                  !.out = From(@, n)]
              /\ UNCHANGED <<script, cpc, file, toRead, fl>>

\* The stream units for n units of the current file.
Encode(n) ==
  LET done == script.files[file].size - toRead
  IN  [k \in 1..n |-> [codec |-> ch.class, pos |-> ch.bytesRead + k,
                       unit |-> <<file, done + k>>, key |-> NoKey]]

FinishStream == IF ch.class = "stored" THEN <<>>
                ELSE <<[codec |-> ch.class, pos |-> ch.bytesRead + 1,
                        unit |-> EndMark, key |-> NoKey]>>

-----------------------------------------------------------------------------
(***************************************************************************)
(* CompressFiles.  No step is taken while WriteProc has output to write.   *)
(***************************************************************************)

At(l) == cpc = l /\ ch.out = <<>>
NoMoreFiles == file > Len(script.files)

\* Whether the current chunk ends before the next file.
MustEndChunk ==
  LET f == script.files[file] IN
  \/ ~script.solid
  \/ f.solidBreak
  \/ ch.compressed # f.compressed
  \/ ch.encrypted # f.encrypted
  \/ ch.compressed /\ ch.class # GetCompressorClass(f)

\* FinalizeChunk as far as EndChunk: what the compressor still holds is output.
EndChunk ==
  /\ At("next") /\ ch.started
  /\ ~NoMoreFiles => MustEndChunk
  /\ ch' = [ch EXCEPT !.started = FALSE, !.pending = <<>>, !.out = ch.pending \o FinishStream]
  /\ cpc' = "finalize"
  /\ UNCHANGED <<script, file, toRead, slices, fl>>

InChunk(e) == e.startOffset = ch.startOffset /\ e.firstSlice = ch.firstSlice

\* The rest of FinalizeChunk, over the entries of the files compressed so far.
FinalizeChunk ==
  /\ At("finalize")
  /\ fl' = [i \in DOMAIN fl |->
              IF InChunk(fl[i])
              THEN [fl[i] EXCEPT !.lastSlice = CurSlice, !.compressedSize = ch.bytesWritten]
              ELSE fl[i]]
  /\ cpc' = "next"
  /\ UNCHANGED <<script, file, toRead, ch, slices>>

\* The first slice with room for ChunkId and one unit more.  The id is written
\* before the compressor is created, and an error there ends the compilation.
NewChunk ==
  /\ At("next") /\ ~ch.started /\ ~NoMoreFiles
  /\ LET f == script.files[file]
         full == ch.left < 2
         on == IF full THEN NewSlice ELSE slices
         left == (IF full THEN SliceSize ELSE ch.left) - 1
         raises == CompressorRaises(GetCompressorClass(f))
     IN  IF full /\ ~script.spanning
         THEN AbortCompile
         ELSE /\ slices' = WriteTo(on, <<ChunkId>>)
              /\ ch' = [left |-> left, started |-> ~raises,
                        firstSlice |-> Len(on), startOffset |-> Len(on[Len(on)].data),
                        bytesRead |-> 0, bytesWritten |-> 0,
                        compressed |-> f.compressed,
                        encrypted |-> IF raises THEN ch.encrypted ELSE f.encrypted,
                        class |-> IF raises THEN ch.class ELSE GetCompressorClass(f),
                        pending |-> <<>>, out |-> <<>>]
              /\ cpc' = IF raises THEN "aborted" ELSE "enter"
              /\ UNCHANGED <<script, file, toRead, fl>>

\* The file is added to the chunk, the current one or the one just started.
AddFile ==
  /\ \/ At("enter")
     \/ At("next") /\ ch.started /\ ~NoMoreFiles /\ ~MustEndChunk
  /\ LET f == script.files[file] IN
     /\ fl' = Append(fl, [firstSlice |-> ch.firstSlice, lastSlice |-> 0,
                          startOffset |-> ch.startOffset, suboffset |-> ch.bytesRead,
                          size |-> f.size, compressedSize |-> 0,
                          compressed |-> f.compressed, encrypted |-> f.encrypted])
     /\ toRead' = f.size
  /\ cpc' = "compress"
  /\ UNCHANGED <<script, file, ch, slices>>

\* One turn of CompressFile's loop.
CompressFile ==
  /\ At("compress") /\ toRead > 0
  /\ LET n == Least(toRead, PieceSize)
         held == ch.pending \o Encode(n)
     IN  /\ toRead' = toRead - n
         /\ \E k \in 0..Len(held) :
              /\ ch.class = "stored" => k = Len(held)
              /\ ch' = [ch EXCEPT !.bytesRead = @ + n, !.pending = From(held, k),
                                  !.out = SubSeq(held, 1, k)]
  /\ UNCHANGED <<script, cpc, file, slices, fl>>

NextFile == /\ At("compress") /\ toRead = 0
            /\ file' = file + 1 /\ cpc' = "next"
            /\ UNCHANGED <<script, toRead, ch, slices, fl>>

Finish == /\ At("next") /\ NoMoreFiles /\ ~ch.started
          /\ slices' = EndSlice
          /\ cpc' = "compiled"
          /\ UNCHANGED <<script, file, toRead, ch, fl>>

-----------------------------------------------------------------------------
CInit ==
  /\ script \in Scripts
  /\ cpc = "next" /\ file = 1 /\ toRead = 0
  /\ ch = [left |-> script.room, started |-> FALSE, firstSlice |-> 0, startOffset |-> 0,
           bytesRead |-> 0, bytesWritten |-> 0, compressed |-> FALSE, encrypted |-> FALSE,
           class |-> "stored", pending |-> <<>>, out |-> <<>>]
  /\ slices = <<EmptySlice>>
  /\ fl = <<>>

CNext == \/ WriteProc \/ EndChunk \/ FinalizeChunk \/ NewChunk \/ AddFile
         \/ CompressFile \/ NextFile \/ Finish

CSpec == CInit /\ [][CNext]_cVars

=================================================================================
