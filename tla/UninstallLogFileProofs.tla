---------------------- MODULE UninstallLogFileProofs ----------------------
(***************************************************************************)
(* Proofs about UninstallLogFile, for every value of its constants: its    *)
(* types, that Save is atomic against crashes, that the file implements    *)
(* UninstallLogStore, and that Load reads back what was saved.             *)
(***************************************************************************)
EXTENDS UninstallLogFile, SequenceTheorems, WellFoundedInduction, TLAPS

USE LogFileAssumption DEF LogFileAssumption

(* Images and what is stored in them.                                      *)

LEMMA EmptyImages ==
  /\ NoImage \in Image /\ NewImage \in Image
  /\ Stored(NoImage) = NoFile /\ Stored(NewImage) = Unreadable
  BY DEF Image, NoImage, NewImage, EmptyBlocks, Header, Stored

\* A reader sees the header and the blocks it covers, and nothing else.
LEMMA StoredSame ==
  ASSUME NEW x \in Image, NEW y \in Image,
         x.exists = y.exists, x.hdr = y.hdr,
         x.hdr # ZeroHeader => \A s \in 1..x.hdr.end : x.blks[s] = y.blks[s]
  PROVE  Stored(x) = Stored(y)
<1>1. CASE x.hdr = ZeroHeader
  BY <1>1 DEF Stored
<1>2. CASE x.hdr # ZeroHeader
  <2>1. \A i \in 1..x.hdr.end : (IF i \in Slots THEN x.blks[i] ELSE Junk)
                              = (IF i \in Slots THEN y.blks[i] ELSE Junk)
    BY <1>2
  <2>. QED
    BY <2>1, <1>2 DEF Stored
<1>. QED
  BY <1>1, <1>2

LEMMA PrecedesTransitive ==
  ASSUME NEW h \in Header, NEW k \in Header, NEW m \in Header,
         Precedes(h, k), Precedes(k, m)
  PROVE  Precedes(h, m)
  BY DEF Precedes, Header

LEMMA BlockWritten ==
  ASSUME TypeOK, NEW b \in Block, WriteBlock(b)
  PROVE  /\ cache' \in Image
         /\ cache'.exists = cache.exists /\ cache'.hdr = cache.hdr
         /\ \A s \in Slots : s <= pos => cache'.blks[s] = cache.blks[s]
         /\ pos' \in 0..MaxBlocks /\ pos' = pos + 1
         /\ buf' \in Seq(Unit) /\ Len(buf') = 0
<1>1. pos + 1 \in Slots /\ pos + 1 \in 0..MaxBlocks
  BY DEF TypeOK, WriteBlock, Slots
<1>2. /\ cache' \in Image
      /\ cache'.exists = cache.exists /\ cache'.hdr = cache.hdr
      /\ \A s \in Slots : s # pos + 1 => cache'.blks[s] = cache.blks[s]
  BY <1>1 DEF TypeOK, WriteBlock, Image
<1>3. \A s \in Slots : s <= pos => s # pos + 1
  BY DEF TypeOK, Slots
<1>4. buf' = <<>> /\ buf' \in Seq(Unit) /\ Len(buf') = 0
  BY DEF WriteBlock
<1>. QED
  BY <1>1, <1>2, <1>3, <1>4 DEF WriteBlock
-----------------------------------------------------------------------------
(* The inductive invariant, action by action.                              *)

LEMMA InitInv == Init => LogInv
<1> SUFFICES ASSUME Init PROVE LogInv
  OBVIOUS
<1>1. /\ list = <<>> /\ list \in Seq(Rec) /\ Len(list) = 0
      /\ buf \in Seq(Unit) /\ Len(buf) = 0
  BY DEF Init
<1>2. cur \in 1..(Len(list) + 1) /\ off \in Nat \ {0} /\ ~(cur <= Len(list))
  BY <1>1 DEF Init
<1>3. TypeOK
  <2>1. pos \in 0..MaxBlocks /\ Len(buf) < BlockCap
    BY <1>1 DEF Init
  <2>2. disk \in Image /\ cache \in Image
    BY EmptyImages DEF Init
  <2>. QED
    BY <1>1, <1>2, <2>1, <2>2 DEF Init, TypeOK, PCs
<1>4. disk.hdr = ZeroHeader /\ cache.hdr = ZeroHeader /\ disk.exists = cache.exists
  BY DEF Init, NoImage
<1>5. ImagesInv /\ WriterInv
  BY <1>4 DEF Init, ImagesInv, WriterInv
<1>6. VersionsInv
  BY EmptyImages DEF Init, VersionsInv
<1>. QED
  BY <1>3, <1>5, <1>6 DEF LogInv

\* What a process leaves behind when it ends.
LEMMA EndOfSave ==
  ASSUME EndSave
  PROVE  /\ list' \in Seq(Rec)
         /\ cur' \in 1..(Len(list') + 1)
         /\ off' \in Nat \ {0} /\ (cur' <= Len(list') => off' <= RecSize[list'[cur']])
         /\ buf' \in Seq(Unit) /\ Len(buf') < BlockCap
         /\ pos' \in 0..MaxBlocks
         /\ header' \in Header \cup {ZeroHeader}
<1>1. list' = <<>> /\ Len(list') = 0 /\ buf' = <<>> /\ Len(buf') = 0
  BY DEF EndSave
<1>. QED
  BY <1>1 DEF EndSave

LEMMA ReserveDataFileInv ==
  ASSUME LogInv, NEW a \in Apps, NEW fl \in SUBSET FlagNames,
         ReserveDataFile(a, fl)
  PROVE  LogInv'
<1> USE DEF ReserveDataFile, StartSession, writer
<1>1. TypeOK'
  BY EmptyImages DEF LogInv, TypeOK, PCs
<1>2. disk'.hdr = ZeroHeader /\ cache'.hdr = ZeroHeader /\ disk' = cache'
  BY DEF NewImage
<1>3. ImagesInv' /\ WriterInv'
  BY <1>2 DEF ImagesInv, WriterInv
<1>4. VersionsInv'
  BY EmptyImages DEF VersionsInv
<1>. QED
  BY <1>1, <1>3, <1>4 DEF LogInv

LEMMA UseExistingDataFileInv ==
  ASSUME LogInv, NEW a \in Apps, NEW fl \in SUBSET FlagNames,
         UseExistingDataFile(a, fl)
  PROVE  LogInv'
<1> USE DEF UseExistingDataFile, StartSession, writer
<1>1. TypeOK'
  BY DEF LogInv, TypeOK, PCs
<1>2. ImagesInv' /\ WriterInv'
  BY DEF LogInv, ImagesInv, WriterInv, CanAppend, OnDisk
<1>3. VersionsInv'
  BY DEF LogInv, VersionsInv, Stored
<1>. QED
  BY <1>1, <1>2, <1>3 DEF LogInv

LEMMA SaveCreateInv ==
  ASSUME LogInv, NEW l \in Lists, SaveCreate(l)
  PROVE  LogInv'
<1> USE DEF SaveCreate, StartWriting, session
<1>1. l \in Seq(Rec) /\ Len(l) \in Nat /\ Len(buf') = 0 /\ buf' \in Seq(Unit)
  OBVIOUS
<1>2. cur' \in 1..(Len(list') + 1) /\ off' \in Nat \ {0}
      /\ (cur' <= Len(list') => off' <= RecSize[list'[cur']])
  <2>1. cur' <= Len(list') => list'[cur'] \in Rec
    BY <1>1
  <2>. QED
    BY <1>1, <2>1
<1>3. TypeOK'
  BY <1>1, <1>2, EmptyImages DEF LogInv, TypeOK, PCs
<1>4. disk'.hdr = ZeroHeader /\ cache'.hdr = ZeroHeader /\ disk' = cache'
  BY DEF NewImage
<1>5. ImagesInv' /\ WriterInv'
  BY <1>4 DEF ImagesInv, WriterInv
<1>6. VersionsInv'
  BY EmptyImages DEF VersionsInv
<1>. QED
  BY <1>3, <1>5, <1>6 DEF LogInv

LEMMA SaveAppendInv ==
  ASSUME LogInv, NEW l \in Lists, SaveAppend(l)
  PROVE  LogInv'
<1> USE DEF SaveAppend, StartWriting, session, history
<1>1. l \in Seq(Rec) /\ Len(l) \in Nat /\ Len(buf') = 0 /\ buf' \in Seq(Unit)
  OBVIOUS
<1>2. cur' \in 1..(Len(list') + 1) /\ off' \in Nat \ {0}
      /\ (cur' <= Len(list') => off' <= RecSize[list'[cur']])
  <2>1. cur' <= Len(list') => list'[cur'] \in Rec
    BY <1>1
  <2>. QED
    BY <1>1, <2>1
<1>3. cache.hdr \in Header /\ cache.hdr.app = app /\ cache.hdr.end \in 0..MaxBlocks
  BY DEF LogInv, WriterInv, TypeOK, Image, Header
<1>4. /\ cache' \in Image
      /\ cache'.exists = cache.exists /\ cache'.hdr = cache.hdr
      /\ \A s \in 1..cache.hdr.end : cache'.blks[s] = cache.blks[s]
  <2>1. cache \in Image /\ \A s \in 1..cache.hdr.end : s \in Slots /\ ~(s > cache.hdr.end)
    BY <1>3 DEF LogInv, TypeOK, Slots
  <2>. QED
    BY <2>1 DEF Image
<1>5. TypeOK'
  BY <1>1, <1>2, <1>3, <1>4 DEF LogInv, TypeOK, PCs
<1>6. ImagesInv'
  BY <1>4 DEF LogInv, ImagesInv, OnDisk
<1>7. WriterInv'
  BY <1>3, <1>4 DEF WriterInv
<1>8. Stored(cache') = Stored(cache)
  BY <1>4, StoredSame DEF LogInv, TypeOK
<1>9. VersionsInv'
  BY <1>8 DEF LogInv, VersionsInv
<1>. QED
  BY <1>5, <1>6, <1>7, <1>9 DEF LogInv

\* A block written at F.Position is past everything a valid header covers.
LEMMA WritingInv ==
  ASSUME LogInv, pc = "writing", NEW b \in Block, WriteBlock(b),
         UNCHANGED <<disk, pc, app, flags, append, created, header, versions>>
  PROVE  ImagesInv' /\ WriterInv' /\ VersionsInv'
<1>1. header = cache.hdr /\ (cache.hdr # ZeroHeader =>
        /\ cache.hdr \in Header /\ cache.hdr.end \in 0..MaxBlocks
        /\ cache.hdr.app = app /\ cache.hdr.end <= pos)
  BY DEF LogInv, WriterInv, TypeOK, Image, Header
<1>2. /\ cache' \in Image
      /\ cache'.exists = cache.exists /\ cache'.hdr = cache.hdr
      /\ pos' = pos + 1
      /\ \A s \in Slots : s <= pos => cache'.blks[s] = cache.blks[s]
  BY BlockWritten DEF LogInv
<1>3. cache.hdr # ZeroHeader =>
        \A s \in 1..cache.hdr.end : cache'.blks[s] = cache.blks[s]
  <2>1. cache.hdr # ZeroHeader => \A s \in 1..cache.hdr.end : s \in Slots /\ s <= pos
    BY <1>1 DEF Slots, LogInv, TypeOK
  <2>. QED
    BY <1>2, <2>1
<1>4. ImagesInv'
  BY <1>2, <1>3 DEF LogInv, ImagesInv, OnDisk
<1>5. WriterInv'
  BY <1>1, <1>2 DEF WriterInv, LogInv, TypeOK
<1>6. Stored(cache') = Stored(cache)
  BY <1>2, <1>3, StoredSame DEF LogInv, TypeOK
<1>. QED
  BY <1>4, <1>5, <1>6 DEF LogInv, VersionsInv

LEMMA WriteUnitInv ==
  ASSUME LogInv, WriteUnit
  PROVE  LogInv'
<1> DEFINE unit == <<list[cur], off>>
           last == off = RecSize[list[cur]]
           more == Append(buf, unit)
<1>1. /\ pc = "writing" /\ cur <= Len(list)
      /\ IF last THEN cur' = cur + 1 /\ off' = 1 ELSE cur' = cur /\ off' = off + 1
      /\ IF Len(more) = BlockCap THEN WriteBlock(more)
         ELSE buf' = more /\ UNCHANGED <<cache, pos>>
      /\ UNCHANGED <<disk, pc, session, list, header, history>>
  BY DEF WriteUnit
<1>2. list[cur] \in Rec /\ off \in 1..RecSize[list[cur]] /\ RecSize[list[cur]] \in Nat
  BY <1>1 DEF LogInv, TypeOK
<1>3. unit \in Unit
  BY <1>2 DEF Unit
<1>4. more \in Seq(Unit) /\ Len(more) = Len(buf) + 1 /\ Len(more) <= BlockCap
      /\ Len(more) \in Nat
  BY <1>3 DEF LogInv, TypeOK
<1>5. more \in Block
  BY <1>4 DEF Block
<1>6. list \in Seq(Rec) /\ Len(list) \in Nat /\ cur \in 1..(Len(list) + 1)
  BY DEF LogInv, TypeOK
<1>7. cur' \in 1..(Len(list) + 1) /\ off' \in Nat \ {0}
      /\ (cur' <= Len(list) => off' <= RecSize[list[cur']])
  <2>1. CASE last
    <3>1. cur' = cur + 1 /\ off' = 1
      BY <1>1, <2>1
    <3>2. cur' <= Len(list) => list[cur'] \in Rec
      BY <3>1, <1>6
    <3>. QED
      BY <3>1, <3>2, <1>1, <1>6
  <2>2. CASE ~last
    BY <2>2, <1>1, <1>2, <1>6
  <2>. QED
    BY <2>1, <2>2
<1>8. CASE Len(more) = BlockCap
  <2>1. WriteBlock(more)
    BY <1>1, <1>8
  <2>2. ImagesInv' /\ WriterInv' /\ VersionsInv'
    BY <1>1, <1>5, <2>1, WritingInv DEF session, history
  <2>3. buf' \in Seq(Unit) /\ Len(buf') = 0 /\ pos' \in 0..MaxBlocks /\ cache' \in Image
    BY <1>5, <2>1, BlockWritten DEF LogInv
  <2>4. TypeOK'
    BY <1>1, <1>7, <2>3 DEF LogInv, TypeOK, session
  <2>. QED
    BY <2>2, <2>4 DEF LogInv
<1>9. CASE Len(more) # BlockCap
  <2>1. buf' = more /\ UNCHANGED <<cache, pos>>
    BY <1>1, <1>9
  <2>2. TypeOK'
    BY <1>1, <1>4, <1>7, <1>9, <2>1 DEF LogInv, TypeOK, session
  <2>3. ImagesInv' /\ WriterInv' /\ VersionsInv'
    BY <1>1, <2>1 DEF LogInv, ImagesInv, WriterInv, VersionsInv, Stored, OnDisk,
                      session, history
  <2>. QED
    BY <2>2, <2>3 DEF LogInv
<1>. QED
  BY <1>8, <1>9

LEMMA FlushLastInv ==
  ASSUME LogInv, FlushLast
  PROVE  LogInv'
<1> USE DEF FlushLast
<1>1. buf \in Block
  BY DEF LogInv, TypeOK, Block
<1>2. ImagesInv' /\ WriterInv' /\ VersionsInv'
  BY <1>1, WritingInv DEF session, history
<1>3. buf' \in Seq(Unit) /\ Len(buf') = 0 /\ pos' \in 0..MaxBlocks /\ cache' \in Image
  BY <1>1, BlockWritten DEF LogInv
<1>4. TypeOK'
  BY <1>3 DEF LogInv, TypeOK, session
<1>. QED
  BY <1>2, <1>4 DEF LogInv

LEMMA SealAndFlushInv ==
  ASSUME LogInv, SealAndFlush
  PROVE  LogInv'
<1> USE DEF SealAndFlush, session
<1>1. header = cache.hdr /\ (header # ZeroHeader => header.app = app /\ header.end <= pos)
  BY DEF LogInv, WriterInv
<1>2. /\ HeaderNum \in Nat /\ HeaderFlags \in SUBSET FlagNames
      /\ list \in Seq(Rec) /\ Len(list) \in Nat /\ pos \in 0..MaxBlocks
      /\ disk' = cache /\ cache \in Image
  BY DEF LogInv, TypeOK, HeaderNum, HeaderFlags, Header
<1>3. header' \in Header /\ header'.app = app /\ header'.end = pos
      /\ header'.num = HeaderNum + Len(list)
      /\ HeaderFlags \ NonSticky \subseteq header'.flags
  BY <1>2 DEF LogInv, TypeOK, Header
<1>4. TypeOK'
  BY <1>2, <1>3 DEF LogInv, TypeOK, PCs
<1>5. cache.hdr # ZeroHeader => Precedes(cache.hdr, cache.hdr) /\ Precedes(cache.hdr, header')
  <2>1. SUFFICES ASSUME cache.hdr # ZeroHeader
                 PROVE  Precedes(cache.hdr, cache.hdr) /\ Precedes(cache.hdr, header')
    OBVIOUS
  <2>2. /\ cache.hdr \in Header /\ cache.hdr.app = app /\ cache.hdr.end <= pos
        /\ HeaderNum = cache.hdr.num /\ HeaderFlags = cache.hdr.flags
    BY <1>1, <1>2, <2>1 DEF HeaderNum, HeaderFlags, Image
  <2>3. cache.hdr.num \in Nat /\ cache.hdr.end \in Nat
    BY <2>2 DEF Header
  <2>. QED
    BY <1>2, <1>3, <2>2, <2>3 DEF Precedes
<1>6. ImagesInv'
  BY <1>2, <1>5 DEF ImagesInv, OnDisk
<1>7. WriterInv'
  BY <1>2, <1>3, <1>5 DEF WriterInv, OnDisk
<1>8. VersionsInv'
  BY <1>2 DEF VersionsInv, Stored
<1>. QED
  BY <1>4, <1>6, <1>7, <1>8 DEF LogInv

\* A process that ends leaves the images to the invariant's other parts.
LEMMA EndedWriter ==
  ASSUME EndProcess
  PROVE  WriterInv'
  BY DEF EndProcess, WriterInv

LEMMA WriteHeaderInv ==
  ASSUME LogInv, WriteHeader
  PROVE  LogInv'
<1>1. /\ header \in Header /\ OnDisk(header.end) /\ cache \in Image /\ disk \in Image
      /\ cache.hdr # ZeroHeader => Precedes(cache.hdr, header)
  BY DEF LogInv, TypeOK, WriterInv, WriteHeader
<1>2. /\ cache' \in Image /\ cache'.exists = cache.exists
      /\ cache'.hdr = header /\ cache'.blks = cache.blks /\ disk' = disk
  BY <1>1 DEF WriteHeader, Image
<1>3. TypeOK'
  BY <1>2, EndOfSave DEF WriteHeader, EndProcess, LogInv, TypeOK, PCs
<1>4. disk.hdr # ZeroHeader => Precedes(disk.hdr, header)
  <2>1. SUFFICES ASSUME disk.hdr # ZeroHeader PROVE Precedes(disk.hdr, header)
    OBVIOUS
  <2>2. disk.hdr \in Header /\ cache.hdr \in Header /\ Precedes(disk.hdr, cache.hdr)
    BY <1>1, <2>1 DEF LogInv, ImagesInv, Image
  <2>3. Precedes(cache.hdr, header)
    BY <1>1, <2>2
  <2>. QED
    BY <1>1, <2>2, <2>3, PrecedesTransitive
<1>5. ImagesInv'
  BY <1>1, <1>2, <1>4 DEF LogInv, ImagesInv, OnDisk
<1>6. WriterInv'
  BY EndedWriter DEF WriteHeader
<1>7. VersionsInv'
  BY <1>2 DEF WriteHeader, LogInv, VersionsInv, Stored
<1>. QED
  BY <1>3, <1>5, <1>6, <1>7 DEF LogInv

LEMMA SaveFailsInv ==
  ASSUME LogInv, SaveFails
  PROVE  LogInv'
<1> USE DEF SaveFails, session, history
<1>1. /\ cache' \in Image /\ cache'.exists = cache.exists /\ cache'.hdr = cache.hdr
      /\ \A s \in Slots : ~(pc = "writing" /\ s = pos + 1) =>
           cache'.blks[s] = cache.blks[s]
  BY DEF LogInv, TypeOK, Image, Slots
<1>2. TypeOK'
  BY <1>1, EndOfSave DEF LogInv, TypeOK, PCs
<1>3. cache.hdr # ZeroHeader =>
        \A s \in 1..cache.hdr.end : cache'.blks[s] = cache.blks[s]
  <2>1. SUFFICES ASSUME cache.hdr # ZeroHeader, NEW s \in 1..cache.hdr.end
                 PROVE  cache'.blks[s] = cache.blks[s]
    OBVIOUS
  <2>2. cache.hdr.end \in 0..MaxBlocks /\ pos \in 0..MaxBlocks
    BY <2>1 DEF LogInv, TypeOK, Image, Header
  <2>3. pc = "writing" => cache.hdr.end <= pos
    BY <2>1 DEF LogInv, WriterInv
  <2>4. s \in Slots /\ ~(pc = "writing" /\ s = pos + 1)
    BY <2>2, <2>3 DEF Slots
  <2>. QED
    BY <1>1, <2>4
<1>4. ImagesInv'
  BY <1>1, <1>3 DEF LogInv, ImagesInv, OnDisk
<1>5. WriterInv'
  BY DEF WriterInv
<1>6. Stored(cache') = Stored(cache)
  BY <1>1, <1>3, StoredSame DEF LogInv, TypeOK
<1>7. VersionsInv'
  BY <1>6 DEF LogInv, VersionsInv
<1>. QED
  BY <1>2, <1>4, <1>5, <1>7 DEF LogInv

LEMMA InstallFailsInv ==
  ASSUME LogInv, InstallFails
  PROVE  LogInv'
<1> USE DEF InstallFails, session, writer, history
<1>1. TypeOK'
  BY DEF LogInv, TypeOK, PCs
<1>2. ImagesInv' /\ WriterInv' /\ VersionsInv'
  BY DEF LogInv, ImagesInv, WriterInv, VersionsInv, OnDisk, Stored
<1>. QED
  BY <1>1, <1>2 DEF LogInv

LEMMA RemoveFileInv ==
  ASSUME RemoveFile
  PROVE  ImagesInv' /\ VersionsInv' /\ disk' \in Image /\ cache' \in Image
<1>1. disk'.hdr = ZeroHeader /\ cache'.hdr = ZeroHeader /\ disk' = cache'
  BY DEF RemoveFile, NoImage
<1>. QED
  BY <1>1, EmptyImages DEF RemoveFile, ImagesInv, VersionsInv

LEMMA RollbackInv ==
  ASSUME LogInv, Rollback
  PROVE  LogInv'
<1> USE DEF Rollback, history
<1>1. WriterInv'
  BY EndedWriter
<1>2. ImagesInv' /\ VersionsInv' /\ disk' \in Image /\ cache' \in Image
  <2>1. CASE created
    BY <2>1, RemoveFileInv
  <2>2. CASE ~created
    BY <2>2 DEF LogInv, TypeOK, ImagesInv, VersionsInv, OnDisk, Stored
  <2>. QED
    BY <2>1, <2>2
<1>3. TypeOK'
  BY <1>2, EndOfSave DEF EndProcess, LogInv, TypeOK, PCs
<1>. QED
  BY <1>1, <1>2, <1>3 DEF LogInv

LEMMA UninstallInv ==
  ASSUME LogInv, Uninstall
  PROVE  LogInv'
<1> USE DEF Uninstall, session, writer
<1>1. ImagesInv' /\ VersionsInv' /\ disk' \in Image /\ cache' \in Image
  BY RemoveFileInv
<1>2. TypeOK'
  BY <1>1 DEF LogInv, TypeOK, PCs
<1>3. WriterInv'
  BY DEF WriterInv
<1>. QED
  BY <1>1, <1>2, <1>3 DEF LogInv

\* The lazy writer: the header may reach the disk only because its blocks
\* are there, and a block that is not covered is nobody's business.
LEMMA WriteBackInv ==
  ASSUME LogInv, WriteBack
  PROVE  LogInv' /\ Stored(disk') \in {Stored(disk), Stored(cache)}
<1> USE DEF WriteBack, session, writer, history
<1>1. disk \in Image /\ cache \in Image
  BY DEF LogInv, TypeOK
<1>2. CASE disk' = [disk EXCEPT !.hdr = cache.hdr]
  <2>1. disk' \in Image /\ disk'.exists = cache.exists /\ disk'.hdr = cache.hdr
        /\ disk'.blks = disk.blks
    BY <1>1, <1>2 DEF Image, LogInv, ImagesInv
  <2>2. cache.hdr # ZeroHeader => OnDisk(cache.hdr.end) /\ Precedes(cache.hdr, cache.hdr)
    <3>1. cache.hdr # ZeroHeader => cache.hdr.num \in Nat /\ cache.hdr.end \in Nat
      BY <1>1 DEF Image, Header
    <3>. QED
      BY <3>1 DEF LogInv, ImagesInv, Precedes
  <2>3. Stored(disk') = Stored(cache)
    <3>1. disk'.hdr # ZeroHeader =>
            \A s \in 1..disk'.hdr.end : disk'.blks[s] = cache.blks[s]
      BY <2>1, <2>2 DEF OnDisk
    <3>. QED
      BY <1>1, <2>1, <3>1, StoredSame
  <2>4. ImagesInv' /\ WriterInv'
    BY <2>1, <2>2 DEF LogInv, ImagesInv, WriterInv, OnDisk
  <2>6. VersionsInv'
    BY <2>3 DEF LogInv, VersionsInv, Stored
  <2>5. TypeOK'
    BY <2>1 DEF LogInv, TypeOK
  <2>. QED
    BY <2>3, <2>4, <2>5, <2>6 DEF LogInv
<1>3. ASSUME NEW s \in Slots, disk' = [disk EXCEPT !.blks[s] = cache.blks[s]]
      PROVE  LogInv' /\ Stored(disk') \in {Stored(disk), Stored(cache)}
  <2>1. disk' \in Image /\ disk'.exists = disk.exists /\ disk'.hdr = disk.hdr
        /\ \A i \in Slots : disk'.blks[i] = disk.blks[i] \/ disk'.blks[i] = cache.blks[i]
    BY <1>1, <1>3 DEF Image
  <2>2. \A n \in 0..MaxBlocks : OnDisk(n) => OnDisk(n)'
                                  /\ \A i \in 1..n : disk'.blks[i] = disk.blks[i]
    <3>1. \A n \in 0..MaxBlocks : \A i \in 1..n : i \in Slots
      BY DEF Slots
    <3>. QED
      BY <2>1, <3>1 DEF OnDisk
  <2>3. /\ cache.hdr # ZeroHeader => cache.hdr.end \in 0..MaxBlocks
        /\ disk.hdr # ZeroHeader => disk.hdr.end \in 0..MaxBlocks
        /\ header # ZeroHeader => header.end \in 0..MaxBlocks
    BY <1>1 DEF Image, Header, LogInv, TypeOK
  <2>4. disk.hdr # ZeroHeader => OnDisk(disk.hdr.end)
    BY <2>3 DEF LogInv, ImagesInv, Precedes, OnDisk
  <2>5. Stored(disk') = Stored(disk)
    BY <1>1, <2>1, <2>2, <2>3, <2>4, StoredSame
  <2>6. ImagesInv'
    BY <2>1, <2>2, <2>3 DEF LogInv, ImagesInv
  <2>7. WriterInv' /\ VersionsInv'
    BY <2>2, <2>3, <2>5 DEF LogInv, WriterInv, VersionsInv, Stored
  <2>8. TypeOK'
    BY <2>1 DEF LogInv, TypeOK
  <2>. QED
    BY <2>5, <2>6, <2>7, <2>8 DEF LogInv
<1>. QED
  BY <1>2, <1>3

LEMMA CrashInv ==
  ASSUME LogInv, Crash
  PROVE  LogInv'
<1> USE DEF Crash
<1>1. WriterInv'
  BY EndedWriter
<1>2. disk' = disk /\ cache' = disk /\ disk \in Image
  BY DEF LogInv, TypeOK
<1>3. TypeOK'
  BY <1>2, EndOfSave DEF EndProcess, LogInv, TypeOK, PCs
<1>4. disk.hdr # ZeroHeader => Precedes(disk.hdr, disk.hdr)
  <2>1. disk.hdr # ZeroHeader => disk.hdr.num \in Nat /\ disk.hdr.end \in Nat
    BY <1>2 DEF Image, Header
  <2>. QED
    BY <2>1 DEF Precedes
<1>5. ImagesInv' /\ VersionsInv'
  BY <1>2, <1>4 DEF ImagesInv, VersionsInv, OnDisk, Stored
<1>. QED
  BY <1>1, <1>3, <1>5 DEF LogInv

LEMMA StepInv == LogInv /\ [Next]_vars => LogInv'
<1> SUFFICES ASSUME LogInv, [Next]_vars PROVE LogInv'
  OBVIOUS
<1>1. CASE UNCHANGED vars
  BY <1>1 DEF vars, session, writer, history, LogInv, TypeOK, ImagesInv, WriterInv,
              VersionsInv, OnDisk, Stored
<1>2. CASE Next
  BY <1>2, ReserveDataFileInv, UseExistingDataFileInv, SaveCreateInv, SaveAppendInv,
     WriteUnitInv, FlushLastInv, SealAndFlushInv, WriteHeaderInv, SaveFailsInv,
     InstallFailsInv, RollbackInv, UninstallInv, WriteBackInv, CrashInv DEF Next
<1>. QED
  BY <1>1, <1>2
-----------------------------------------------------------------------------
(* Theorems.                                                               *)

\* The inductive invariant holds in every reachable state: blocks under a
\* valid header are on disk before the header is (Save, FlushFileBuffers).
THEOREM LogInvariant == Spec => []LogInv
  BY InitInv, StepInv, PTL DEF Spec

\* Save's variables and the file images keep their types: the buffer is
\* never left full, and the writer stays within its record and the volume.
THEOREM LogTypes == Spec => []TypeOK
<1>1. LogInv => TypeOK
  BY DEF LogInv
<1>. QED
  BY <1>1, LogInvariant, PTL

\* Save is atomic against a system crash at any point and any order of
\* write-back: what a reader gets is a completed Save's content or what was
\* there before it.
THEOREM CrashAtomicity == Spec => []DiskIsAVersion
<1>1. LogInv => DiskIsAVersion
  BY DEF LogInv, VersionsInv, DiskIsAVersion
<1>. QED
  BY <1>1, LogInvariant, PTL

(* The refinement of UninstallLogStore.                                    *)

LEMMA StoredCases ==
  ASSUME NEW x \in Image
  PROVE  \/ Stored(x) = NoFile
         \/ Stored(x) = Unreadable
         \/ Store!Entry(Stored(x))
  BY DEF Stored, NoFile, Unreadable, Store!Entry

\* What the lazy writer or a flush makes readable is a legal next content.
LEMMA CacheIsNextStore ==
  ASSUME LogInv, Stored(disk)' = Stored(cache)
  PROVE  [Store!Next]_(Stored(disk))
<1>1. disk \in Image /\ cache \in Image /\ disk.exists = cache.exists
  BY DEF LogInv, TypeOK, ImagesInv
<1>2. CASE disk.hdr = ZeroHeader \/ ~disk.exists
  <2>1. Stored(disk) = NoFile \/ Stored(disk) = Unreadable
    BY <1>2 DEF Stored
  <2>2. Stored(disk) = NoFile => Stored(cache) = NoFile
    BY <1>1 DEF Stored, NoFile, Unreadable
  <2>. QED
    BY <1>1, <2>1, <2>2, StoredCases DEF Store!Next, Store!Publish, Store!Remove
<1>3. CASE disk.hdr # ZeroHeader /\ disk.exists
  <2>1. cache.hdr # ZeroHeader /\ Precedes(disk.hdr, cache.hdr) /\ OnDisk(cache.hdr.end)
    BY <1>3 DEF LogInv, ImagesInv
  <2>2. /\ disk.hdr \in Header /\ cache.hdr \in Header
        /\ disk.hdr.end \in Nat /\ cache.hdr.end \in Nat
        /\ disk.hdr.end <= cache.hdr.end
    BY <1>1, <1>3, <2>1 DEF Image, Header, Precedes
  <2>3. \A i \in 1..disk.hdr.end : i \in 1..cache.hdr.end /\ disk.blks[i] = cache.blks[i]
    BY <2>1, <2>2 DEF OnDisk
  <2>4. /\ Stored(disk) = [kind |-> "log", hdr |-> disk.hdr,
             blks |-> [i \in 1..disk.hdr.end |->
                         IF i \in Slots THEN disk.blks[i] ELSE Junk]]
        /\ Stored(cache) = [kind |-> "log", hdr |-> cache.hdr,
             blks |-> [i \in 1..cache.hdr.end |->
                         IF i \in Slots THEN cache.blks[i] ELSE Junk]]
    BY <1>1, <1>3, <2>1 DEF Stored
  <2>5. \A i \in 1..disk.hdr.end : Stored(cache).blks[i] = Stored(disk).blks[i]
    <3>1. SUFFICES ASSUME NEW i \in 1..disk.hdr.end
                   PROVE  Stored(cache).blks[i] = Stored(disk).blks[i]
      OBVIOUS
    <3> DEFINE d == [j \in 1..disk.hdr.end |->
                       IF j \in Slots THEN disk.blks[j] ELSE Junk]
               c == [j \in 1..cache.hdr.end |->
                       IF j \in Slots THEN cache.blks[j] ELSE Junk]
    <3>2. Stored(disk).blks = d /\ Stored(cache).blks = c
      BY <2>4
    <3>3. i \in 1..cache.hdr.end /\ disk.blks[i] = cache.blks[i]
      BY <2>3
    <3>4. d[i] = c[i]
      BY <3>3
    <3>. QED
      BY <3>2, <3>4
  <2>6. /\ Stored(disk).hdr = disk.hdr /\ Stored(cache).hdr = cache.hdr
        /\ Stored(disk).kind = "log" /\ Stored(cache).kind = "log"
    BY <2>4
  <2>7. Store!Extends(Stored(disk), Stored(cache))
    BY <2>1, <2>5, <2>6 DEF Store!Extends, Precedes
  <2>. QED
    BY <2>6, <2>7 DEF Store!Next, Store!Extend, Store!Entry
<1>. QED
  BY <1>2, <1>3

LEMMA UnreadableIsNextStore ==
  ASSUME LogInv, Stored(disk)' = Unreadable
  PROVE  [Store!Next]_(Stored(disk))
<1>1. disk \in Image
  BY DEF LogInv, TypeOK
<1>. QED
  BY <1>1, StoredCases DEF Store!Next, Store!Reserve, Store!StartOver

LEMMA RemoveIsNextStore ==
  ASSUME RemoveFile
  PROVE  Store!Next
  BY EmptyImages DEF RemoveFile, Store!Next, Store!Remove

LEMMA StepRefines == LogInv /\ [Next]_vars => [Store!Next]_(Stored(disk))
<1> SUFFICES ASSUME LogInv, [Next]_vars PROVE [Store!Next]_(Stored(disk))
  OBVIOUS
<1>0. disk' = disk => Stored(disk)' = Stored(disk)
  BY DEF Stored
<1>1. ASSUME NEW a \in Apps, NEW fl \in SUBSET FlagNames, ReserveDataFile(a, fl)
      PROVE  [Store!Next]_(Stored(disk))
  BY <1>1, EmptyImages, UnreadableIsNextStore DEF ReserveDataFile
<1>2. ASSUME NEW a \in Apps, NEW fl \in SUBSET FlagNames,
             UseExistingDataFile(a, fl)
      PROVE  [Store!Next]_(Stored(disk))
  BY <1>0, <1>2 DEF UseExistingDataFile
<1>3. ASSUME NEW l \in Lists, SaveCreate(l)
      PROVE  [Store!Next]_(Stored(disk))
  BY <1>3, EmptyImages, UnreadableIsNextStore DEF SaveCreate
<1>4. ASSUME NEW l \in Lists, SaveAppend(l)
      PROVE  [Store!Next]_(Stored(disk))
  BY <1>0, <1>4 DEF SaveAppend
<1>5. CASE WriteUnit \/ FlushLast \/ WriteHeader \/ SaveFails \/ InstallFails \/ Crash
  BY <1>0, <1>5 DEF WriteUnit, FlushLast, WriteHeader, SaveFails, InstallFails, Crash
<1>6. CASE SealAndFlush
  <2>1. disk' = cache
    BY <1>6 DEF SealAndFlush
  <2>2. Stored(disk)' = Stored(cache)
    BY <2>1 DEF Stored
  <2>. QED
    BY <2>2, CacheIsNextStore
<1>7. CASE Rollback
  BY <1>0, <1>7, RemoveIsNextStore DEF Rollback
<1>8. CASE Uninstall
  BY <1>8, RemoveIsNextStore DEF Uninstall
<1>9. CASE WriteBack
  <2>1. Stored(disk)' = Stored(disk') /\ Stored(disk') \in {Stored(disk), Stored(cache)}
    BY <1>9, WriteBackInv DEF Stored
  <2>. QED
    BY <2>1, CacheIsNextStore
<1>10. CASE UNCHANGED vars
  BY <1>0, <1>10 DEF vars
<1>. QED
  BY <1>1, <1>2, <1>3, <1>4, <1>5, <1>6, <1>7, <1>8, <1>9, <1>10 DEF Next

\* The file implements the abstract store: through any crash, failure and
\* write-back order its readable content only gains installations at the
\* end, is started over by an overwriting Save, or is removed.
THEOREM ImplementsStore == Spec => StoreSpec
<1>1. Init => Store!Init
  BY EmptyImages DEF Init, Store!Init
<1>2. LogInv /\ [Next]_vars => [Store!Next]_(Stored(disk))
  BY StepRefines
<1>. QED
  BY <1>1, <1>2, LogInvariant, PTL DEF Spec, StoreSpec, Store!Spec
-----------------------------------------------------------------------------
(* What Load reads.  Induction is by least counterexamples.                *)

\* A set of natural numbers that is not empty has a least element.
LEMMA LeastNatural ==
  ASSUME NEW T \in SUBSET Nat, T # {}
  PROVE  \E n \in T : \A m \in T : n <= m
<1> DEFINE R == OpToRel(<, Nat)
<1>1. IsWellFoundedOn(R, Nat)
  BY NatLessThanWellFounded
<1>2. \A m, n \in Nat : m < n => <<m, n>> \in R
  BY DEF OpToRel
<1> HIDE DEF R
<1>3. PICK n \in T : \A m \in T : ~(<<m, n>> \in R)
  BY <1>1, WFMin
<1>4. ASSUME NEW m \in T, m < n PROVE FALSE
  BY <1>2, <1>3, <1>4
<1>5. \A m \in T : n <= m
  BY <1>4
<1> QED
  BY <1>5

\* The units of the first blocks, one block after the other.
Joins(u, blks, n) ==
  u = [i \in 0..n |-> IF i = 0 THEN <<>> ELSE u[i - 1] \o blks[i]]
Joined(blks, n, w) ==
  /\ \E u : Joins(u, blks, n) /\ u[n] = w
  /\ \A i \in 1..n : blks[i] # Junk

\* The units of good blocks are all delivered.
LEMMA GoodUnitsJoined ==
  ASSUME NEW n \in Nat, NEW blks, NEW w, Joined(blks, n, w)
  PROVE  GoodUnits(blks, n) = w
<1> DEFINE U == CHOOSE g : g = [i \in 0..n |-> IF i = 0 THEN <<>> ELSE g[i - 1] \o blks[i]]
           good == {k \in 0..n : \A i \in 1..k : blks[i] # Junk}
           last == CHOOSE k \in good : \A m \in good : m <= k
<1>1. GoodUnits(blks, n) = U[last]
  BY DEF GoodUnits
<1>2. PICK u : Joins(u, blks, n) /\ u[n] = w
  BY DEF Joined
<1>3. Joins(U, blks, n)
  BY <1>2 DEF Joins
<1> HIDE DEF U
<1>4. \A i \in 0..n : U[i] = u[i]
  <2> DEFINE T == {i \in 0..n : U[i] # u[i]}
  <2> SUFFICES ASSUME T # {} PROVE FALSE
    OBVIOUS
  <2>1. T \in SUBSET Nat
    OBVIOUS
  <2>2. PICK i \in T : \A j \in T : i <= j
    BY <2>1, LeastNatural
  <2>3. CASE i = 0
    BY <1>2, <1>3, <2>3 DEF Joins
  <2>4. CASE i # 0
    <3>1. i - 1 \in 0..n /\ i - 1 \notin T
      BY <2>2, <2>4
    <3>2. U[i] = U[i - 1] \o blks[i] /\ u[i] = u[i - 1] \o blks[i]
      BY <1>2, <1>3, <2>4 DEF Joins
    <3> QED
      BY <3>1, <3>2
  <2> QED
    BY <2>3, <2>4
<1>5. last = n
  <2>1. n \in good /\ \A m \in good : m <= n
    BY DEF Joined
  <2>2. last \in good /\ \A m \in good : m <= last
    BY <2>1
  <2> HIDE DEF last
  <2> QED
    BY <2>1, <2>2
<1>6. n \in 0..n
  OBVIOUS
<1> HIDE DEF last, good
<1> QED
  BY <1>1, <1>2, <1>4, <1>5, <1>6

\* One more block.
LEMMA JoinedNext ==
  ASSUME NEW n \in Nat, NEW blks, NEW w, Joined(blks, n, w), NEW more,
         \A i \in 1..n : more[i] = blks[i], more[n + 1] # Junk
  PROVE  Joined(more, n + 1, w \o more[n + 1])
<1>1. PICK u : Joins(u, blks, n) /\ u[n] = w
  BY DEF Joined
<1> DEFINE v == [i \in 0..(n + 1) |-> IF i = n + 1 THEN w \o more[n + 1] ELSE u[i]]
<1>2. \A i \in 0..n : u[i] = IF i = 0 THEN <<>> ELSE u[i - 1] \o blks[i]
  BY <1>1 DEF Joins
<1>3. v[n + 1] = w \o more[n + 1] /\ \A i \in 0..n : v[i] = u[i]
  OBVIOUS
<1>5. v = [i \in 0..(n + 1) |-> v[i]]
  OBVIOUS
<1> HIDE DEF v
<1>4. \A i \in 0..(n + 1) : v[i] = IF i = 0 THEN <<>> ELSE v[i - 1] \o more[i]
  <2> TAKE i \in 0..(n + 1)
  <2>1. CASE i = n + 1
    <3>1. i - 1 = n /\ n \in 0..n /\ i # 0
      BY <2>1
    <3>2. v[i - 1] = w
      BY <1>1, <1>3, <3>1
    <3>3. v[i] = w \o more[i]
      BY <1>3, <2>1
    <3> QED
      BY <3>1, <3>2, <3>3
  <2>2. CASE i # n + 1 /\ i # 0
    <3>1. i \in 1..n /\ i \in 0..n /\ i - 1 \in 0..n
      BY <2>2
    <3>2. v[i] = u[i] /\ v[i - 1] = u[i - 1] /\ more[i] = blks[i]
      BY <1>3, <3>1
    <3>3. u[i] = u[i - 1] \o blks[i]
      BY <1>2, <2>2, <3>1
    <3> QED
      BY <2>2, <3>2, <3>3
  <2>3. CASE i = 0
    <3>1. 0 \in 0..n /\ v[0] = u[0]
      BY <1>3
    <3> QED
      BY <1>2, <2>3, <3>1
  <2> QED
    BY <2>1, <2>2, <2>3
<1>6. Joins(v, more, n + 1)
  BY <1>4, <1>5 DEF Joins
<1>7. \A i \in 1..(n + 1) : more[i] # Junk
  <2> TAKE i \in 1..(n + 1)
  <2>1. CASE i = n + 1
    BY <2>1
  <2>2. CASE i # n + 1
    <3>1. i \in 1..n
      BY <2>2
    <3> QED
      BY <3>1 DEF Joined
  <2> QED
    BY <2>1, <2>2
<1> QED
  BY <1>3, <1>6, <1>7 DEF Joined

\* Only those blocks matter.
LEMMA JoinedSame ==
  ASSUME NEW n \in Nat, NEW blks, NEW w, Joined(blks, n, w), NEW more,
         \A i \in 1..n : more[i] = blks[i]
  PROVE  Joined(more, n, w)
<1>1. PICK u : Joins(u, blks, n) /\ u[n] = w
  BY DEF Joined
<1>2. \A i \in 0..n : (IF i = 0 THEN <<>> ELSE u[i - 1] \o blks[i])
                    = (IF i = 0 THEN <<>> ELSE u[i - 1] \o more[i])
  OBVIOUS
<1>3. Joins(u, more, n)
  BY <1>1, <1>2 DEF Joins
<1> QED
  BY <1>1, <1>3 DEF Joined

\* No block, no units.
LEMMA JoinedNone ==
  ASSUME NEW blks
  PROVE  Joined(blks, 0, <<>>)
<1> DEFINE u == [i \in 0..0 |-> <<>>]
<1>1. u[0] = <<>> /\ Joins(u, blks, 0)
  BY DEF Joins
<1> HIDE DEF u
<1> QED
  BY <1>1 DEF Joined

\* The loop of Load, one record a turn.
Turn == [left : Nat, pos : Nat, recs : Seq(Rec)]
Ends(units, st) ==
  \/ st.left = 0
  \/ st.pos >= Len(units)
  \/ units[st.pos + 1][2] # 1
  \/ st.pos + RecSize[units[st.pos + 1][1]] > Len(units)
NextTurn(units, st) ==
  [left |-> st.left - 1, pos |-> st.pos + RecSize[units[st.pos + 1][1]],
   recs |-> Append(st.recs, units[st.pos + 1][1])]
Result(st) == IF st.left = 0 THEN st.recs ELSE Corrupt
TurnsTo(units, f, st) == IF Ends(units, st) THEN Result(st) ELSE f[NextTurn(units, st)]
Reads(units, D, f) == f = [st \in D |-> TurnsTo(units, f, st)]
UpTo(n) == {st \in Turn : st.left <= n}

LEMMA NextTurnType ==
  ASSUME NEW units \in Seq(Unit), NEW st \in Turn, ~Ends(units, st)
  PROVE  /\ NextTurn(units, st) \in Turn
         /\ st.left # 0 /\ NextTurn(units, st).left = st.left - 1
<1>1. st.pos + 1 \in 1..Len(units) /\ st.left \in Nat \ {0} /\ st.recs \in Seq(Rec)
  BY DEF Ends, Turn
<1>2. units[st.pos + 1] \in Unit
  BY <1>1, ElementOfSeq
<1>3. units[st.pos + 1][1] \in Rec
  BY <1>2 DEF Unit
<1>4. RecSize[units[st.pos + 1][1]] \in Nat /\ Append(st.recs, units[st.pos + 1][1]) \in Seq(Rec)
  BY <1>1, <1>3
<1>5. st.left - 1 \in Nat /\ st.pos \in Nat
  BY <1>1 DEF Turn
<1> QED
  BY <1>1, <1>4, <1>5 DEF NextTurn, Turn

\* However many turns are left, there is a function that makes them.
LEMMA ReadsUpTo ==
  ASSUME NEW units \in Seq(Unit), NEW n \in Nat
  PROVE  \E f : Reads(units, UpTo(n), f)
<1> DEFINE T == {m \in Nat : ~\E f : Reads(units, UpTo(m), f)}
<1> SUFFICES ASSUME T # {} PROVE FALSE
  OBVIOUS
<1>1. T \in SUBSET Nat
  OBVIOUS
<1>2. PICK m \in T : \A k \in T : m <= k
  BY <1>1, LeastNatural
<1>3. CASE m = 0
  <2> DEFINE f == [st \in UpTo(m) |-> st.recs]
  <2>1. ASSUME NEW st \in UpTo(m), NEW g PROVE TurnsTo(units, g, st) = st.recs
    <3> HIDE DEF T
    <3>1. st.left \in Nat /\ st.left <= 0
      BY <1>3 DEF UpTo, Turn
    <3>2. st.left = 0
      BY <3>1
    <3> QED
      BY <3>2 DEF TurnsTo, Ends, Result
  <2>2. Reads(units, UpTo(m), f)
    BY <2>1 DEF Reads
  <2> HIDE DEF f
  <2> QED
    BY <2>2
<1>4. CASE m # 0
  <2>1. m - 1 \in Nat /\ m - 1 \notin T
    BY <1>2, <1>4
  <2>2. PICK f : Reads(units, UpTo(m - 1), f)
    BY <2>1
  <2> DEFINE g == [st \in UpTo(m) |-> TurnsTo(units, f, st)]
  <2>3. \A st \in UpTo(m) : g[st] = TurnsTo(units, f, st)
    OBVIOUS
  <2>4. g = [st \in UpTo(m) |-> g[st]]
    OBVIOUS
  <2> HIDE DEF g
  <2>5. ASSUME NEW st \in UpTo(m) PROVE g[st] = TurnsTo(units, g, st)
    <3>1. CASE Ends(units, st)
      BY <2>3, <3>1 DEF TurnsTo
    <3>2. CASE ~Ends(units, st)
      <4> DEFINE nx == NextTurn(units, st)
      <4>1. st \in Turn /\ st.left <= m /\ st.left \in Nat
        BY DEF UpTo, Turn
      <4>2. nx \in Turn /\ nx.left = st.left - 1
        BY <3>2, <4>1, NextTurnType
      <4>3. nx \in UpTo(m - 1) /\ nx \in UpTo(m)
        BY <4>1, <4>2 DEF UpTo
      <4>4. f[nx] = TurnsTo(units, f, nx)
        BY <2>2, <4>3 DEF Reads
      <4>5. g[nx] = f[nx]
        BY <2>3, <4>3, <4>4
      <4>6. TurnsTo(units, f, st) = f[nx] /\ TurnsTo(units, g, st) = g[nx]
        BY <3>2 DEF TurnsTo
      <4> QED
        BY <2>3, <4>5, <4>6
    <3> QED
      BY <3>1, <3>2
  <2>6. Reads(units, UpTo(m), g)
    BY <2>4, <2>5 DEF Reads
  <2> QED
    BY <2>6
<1> QED
  BY <1>3, <1>4

\* Two such functions agree.
LEMMA ReadsAgree ==
  ASSUME NEW units \in Seq(Unit), NEW m \in Nat, NEW n \in Nat, NEW f, NEW g,
         Reads(units, UpTo(m), f), Reads(units, UpTo(n), g)
  PROVE  \A st \in UpTo(m) \cap UpTo(n) : f[st] = g[st]
<1> DEFINE T == {k \in Nat : \E st \in UpTo(m) \cap UpTo(n) : st.left = k /\ f[st] # g[st]}
<1>1. T \in SUBSET Nat
  OBVIOUS
<1>2. ASSUME NEW st \in UpTo(m) \cap UpTo(n), st.left \in T, \A k \in T : st.left <= k
      PROVE  f[st] = g[st]
  <2>1. st \in Turn /\ st.left \in Nat /\ st.left <= m /\ st.left <= n
    BY DEF UpTo, Turn
  <2>2. f[st] = TurnsTo(units, f, st) /\ g[st] = TurnsTo(units, g, st)
    BY DEF Reads
  <2>3. CASE Ends(units, st)
    BY <2>2, <2>3 DEF TurnsTo
  <2>4. CASE ~Ends(units, st)
    <3> DEFINE nx == NextTurn(units, st)
    <3>1. nx \in Turn /\ nx.left = st.left - 1 /\ st.left # 0
      BY <2>1, <2>4, NextTurnType
    <3>2. nx \in UpTo(m) \cap UpTo(n) /\ nx.left \in Nat
      BY <2>1, <3>1 DEF UpTo
    <3> HIDE DEF nx
    <3>3. nx.left \notin T
      BY <1>2, <2>1, <3>1
    <3>4. f[nx] = g[nx]
      BY <3>2, <3>3
    <3> QED
      BY <2>2, <2>4, <3>4 DEF TurnsTo, nx
  <2> QED
    BY <2>3, <2>4
<1>3. T = {}
  <2> SUFFICES ASSUME T # {} PROVE FALSE
    OBVIOUS
  <2>1. PICK k \in T : \A j \in T : k <= j
    BY <1>1, LeastNatural
  <2>2. PICK st \in UpTo(m) \cap UpTo(n) : st.left = k /\ f[st] # g[st]
    BY <2>1
  <2> QED
    BY <1>2, <2>1, <2>2
<1>4. \A st \in UpTo(m) \cap UpTo(n) : st.left \in Nat
  BY DEF UpTo, Turn
<1> QED
  BY <1>3, <1>4

\* Parse is the function that makes all turns.
LEMMA ParseReads ==
  ASSUME NEW units \in Seq(Unit)
  PROVE  \E f : /\ \A st \in Turn : f[st] = TurnsTo(units, f, st)
                /\ \A num : Parse(units, num) = f[[left |-> num, pos |-> 0, recs |-> <<>>]]
<1> DEFINE Upto(n) == CHOOSE f : Reads(units, UpTo(n), f)
           F == [st \in Turn |-> Upto(st.left)[st]]
<1>1. \A n \in Nat : Reads(units, UpTo(n), Upto(n))
  BY ReadsUpTo
<1>2. \A st \in Turn : F[st] = Upto(st.left)[st]
  OBVIOUS
<1>3. F = [st \in Turn |-> F[st]]
  OBVIOUS
<1> HIDE DEF F, Upto
<1>4. ASSUME NEW st \in Turn PROVE F[st] = TurnsTo(units, F, st)
  <2>1. st.left \in Nat /\ st \in UpTo(st.left)
    BY DEF Turn, UpTo
  <2>2. F[st] = TurnsTo(units, Upto(st.left), st)
    BY <1>1, <1>2, <2>1 DEF Reads
  <2>3. CASE Ends(units, st)
    BY <2>2, <2>3 DEF TurnsTo
  <2>4. CASE ~Ends(units, st)
    <3> DEFINE nx == NextTurn(units, st)
    <3>1. nx \in Turn /\ nx.left = st.left - 1 /\ nx.left \in Nat
      BY <2>1, <2>4, NextTurnType
    <3>2. nx \in UpTo(nx.left) /\ nx \in UpTo(st.left)
      BY <2>1, <3>1 DEF UpTo
    <3> HIDE DEF nx
    <3>3. Upto(nx.left)[nx] = Upto(st.left)[nx]
      BY <1>1, <2>1, <3>1, <3>2, ReadsAgree
    <3> QED
      BY <1>2, <2>2, <2>4, <3>1, <3>3 DEF TurnsTo, nx
  <2> QED
    BY <2>3, <2>4
<1>5. Reads(units, Turn, F)
  BY <1>3, <1>4 DEF Reads
<1> DEFINE G == CHOOSE f : Reads(units, Turn, f)
<1>6. Reads(units, Turn, G)
  BY <1>5
<1>7. \A num : Parse(units, num) = G[[left |-> num, pos |-> 0, recs |-> <<>>]]
  <2> DEFINE Old(f, st) ==
        IF st.left = 0 THEN st.recs
        ELSE IF st.pos >= Len(units) \/ units[st.pos + 1][2] # 1 THEN Corrupt
        ELSE LET r == units[st.pos + 1][1]
             IN  IF st.pos + RecSize[r] > Len(units) THEN Corrupt
                 ELSE f[[left |-> st.left - 1, pos |-> st.pos + RecSize[r],
                         recs |-> Append(st.recs, r)]]
  <2>1. \A f, st : Old(f, st) = TurnsTo(units, f, st)
    BY DEF TurnsTo, Ends, Result, NextTurn
  <2>2. G = CHOOSE f : f = [st \in [left : Nat, pos : Nat, recs : Seq(Rec)] |-> Old(f, st)]
    <3>1. \A f : Reads(units, Turn, f)
            <=> f = [st \in [left : Nat, pos : Nat, recs : Seq(Rec)] |-> Old(f, st)]
      <4> HIDE DEF Old
      <4> QED
        BY <2>1 DEF Reads, Turn
    <3> HIDE DEF Old
    <3> QED
      BY <3>1
  <2> QED
    BY <2>2 DEF Parse
<1> HIDE DEF G
<1>8. \A st \in Turn : G[st] = TurnsTo(units, G, st)
  BY <1>6 DEF Reads
<1> QED
  BY <1>7, <1>8

\* Units that are those of the records recs, one after the other, and then
\* the first o of r; p says where each begins.
Places(p, v, recs, r, o) ==
  /\ p \in [1..(Len(recs) + 1) -> Nat]
  /\ p[1] = 0 /\ p[Len(recs) + 1] + o = Len(v)
  /\ \A i \in 1..Len(recs) :
       /\ p[i + 1] = p[i] + RecSize[recs[i]] /\ p[i + 1] <= Len(v)
       /\ \A k \in 1..RecSize[recs[i]] : v[p[i] + k] = <<recs[i], k>>
  /\ \A k \in 1..o : v[p[Len(recs) + 1] + k] = <<r, k>>
Spelled(v, recs, r, o) == \E p : Places(p, v, recs, r, o)

LEMMA PlacesType ==
  ASSUME NEW p, NEW v \in Seq(Unit), NEW recs \in Seq(Rec), NEW r, NEW o, Places(p, v, recs, r, o)
  PROVE  /\ Len(recs) \in Nat /\ Len(v) \in Nat
         /\ \A i \in 1..Len(recs) : recs[i] \in Rec /\ RecSize[recs[i]] \in Nat \ {0}
         /\ \A i \in 1..(Len(recs) + 1) : p[i] \in Nat
         /\ p[1] = 0 /\ p[Len(recs) + 1] + o = Len(v)
<1>1. \A i \in 1..Len(recs) : recs[i] \in Rec
  BY ElementOfSeq
<1>2. Len(recs) \in Nat /\ Len(v) \in Nat
  OBVIOUS
<1>3. p \in [1..(Len(recs) + 1) -> Nat] /\ p[1] = 0 /\ p[Len(recs) + 1] + o = Len(v)
  BY DEF Places
<1>4. \A i \in 1..Len(recs) : RecSize[recs[i]] \in Nat \ {0}
  BY <1>1
<1> QED
  BY <1>1, <1>2, <1>3, <1>4

LEMMA SubSeqAppended ==
  ASSUME NEW recs \in Seq(Rec), NEW i \in 1..Len(recs)
  PROVE  Append(SubSeq(recs, 1, i - 1), recs[i]) = SubSeq(recs, 1, i)
<1> DEFINE s == SubSeq(recs, 1, i - 1)
           t == SubSeq(recs, 1, i)
<1>1. i \in Nat /\ i - 1 \in Nat /\ recs[i] \in Rec
  BY ElementOfSeq
<1>2. s \in Seq(Rec) /\ Len(s) = i - 1 /\ \A k \in 1..(i - 1) : s[k] = recs[k]
  BY <1>1, SubSeqProperties
<1>3. t \in Seq(Rec) /\ Len(t) = i /\ \A k \in 1..i : t[k] = recs[k]
  BY <1>1, SubSeqProperties
<1> HIDE DEF s, t
<1>4. Append(s, recs[i]) \in Seq(Rec) /\ Len(Append(s, recs[i])) = i
  BY <1>1, <1>2
<1>5. \A k \in 1..i : Append(s, recs[i])[k] = recs[k]
  BY <1>1, <1>2
<1>6. \A k \in 1..i : Append(s, recs[i])[k] = t[k]
  BY <1>3, <1>5
<1>7. Append(s, recs[i]) = t
  BY <1>3, <1>4, <1>6, SeqEqual
<1> QED
  BY <1>7 DEF s, t

\* Load reads back the records whose units it is given.
LEMMA ParseSpelled ==
  ASSUME NEW v \in Seq(Unit), NEW recs \in Seq(Rec), NEW r, Spelled(v, recs, r, 0)
  PROVE  Parse(v, Len(recs)) = recs
<1> DEFINE n == Len(recs)
<1>1. PICK p : Places(p, v, recs, r, 0)
  BY DEF Spelled
<1>2. PICK f : /\ \A st \in Turn : f[st] = TurnsTo(v, f, st)
               /\ \A num : Parse(v, num) = f[[left |-> num, pos |-> 0, recs |-> <<>>]]
  BY ParseReads
<1> DEFINE At(j) == [left |-> j, pos |-> p[n - j + 1], recs |-> SubSeq(recs, 1, n - j)]
           T == {j \in 0..n : f[At(j)] # recs}
<1>3. /\ n \in Nat /\ Len(v) \in Nat
      /\ \A i \in 1..n : recs[i] \in Rec /\ RecSize[recs[i]] \in Nat \ {0}
      /\ \A i \in 1..(n + 1) : p[i] \in Nat
      /\ p[1] = 0
  BY <1>1, PlacesType
<1>4. \A j \in 0..n : At(j) \in Turn
  <2> TAKE j \in 0..n
  <2>1. n - j + 1 \in 1..(n + 1) /\ n - j \in 0..n
    BY <1>3
  <2>2. p[n - j + 1] \in Nat
    BY <1>1, <2>1 DEF Places
  <2>3. SubSeq(recs, 1, n - j) \in Seq(Rec)
    BY <2>1, SubSeqProperties
  <2> QED
    BY <2>2, <2>3 DEF Turn
<1>5. \A j \in 0..n : At(j).left = j /\ At(j).pos = p[n - j + 1] /\ At(j).recs = SubSeq(recs, 1, n - j)
  OBVIOUS
<1>6. At(0).recs = recs
  BY <1>5, SubSeqProperties
<1>7. ASSUME NEW j \in 1..n PROVE ~Ends(v, At(j)) /\ NextTurn(v, At(j)) = At(j - 1)
  <2> DEFINE i == n - j + 1
  <2>1. i \in 1..n /\ i + 1 = n - (j - 1) + 1 /\ n - j = i - 1 /\ n - (j - 1) = i
    BY <1>3
  <2>2. recs[i] \in Rec /\ RecSize[recs[i]] \in Nat \ {0} /\ i \in 1..(n + 1) /\ p[i] \in Nat
    BY <1>3, <2>1
  <2> HIDE DEF i
  <2>3. /\ p[i + 1] = p[i] + RecSize[recs[i]] /\ p[i + 1] <= Len(v)
        /\ v[p[i] + 1] = <<recs[i], 1>>
    <3>1. /\ p[i + 1] = p[i] + RecSize[recs[i]] /\ p[i + 1] <= Len(v)
          /\ \A k \in 1..RecSize[recs[i]] : v[p[i] + k] = <<recs[i], k>>
      BY <1>1, <2>1 DEF Places
    <3>2. 1 \in 1..RecSize[recs[i]]
      BY <2>2
    <3> QED
      BY <3>1, <3>2
  <2>4. v[p[i] + 1][1] = recs[i] /\ v[p[i] + 1][2] = 1
    BY <2>3
  <2>5. At(j).left = j /\ At(j).pos = p[i] /\ At(j).recs = SubSeq(recs, 1, i - 1)
    <3>1. j \in 0..n /\ n - j + 1 = i
      BY <1>3 DEF i
    <3> HIDE DEF At
    <3> QED
      BY <1>5, <2>1, <3>1
  <2>6. ~Ends(v, At(j))
    <3> DEFINE e == p[i]
               a == p[i + 1]
               l == Len(v)
               z == RecSize[recs[i]]
    <3>2. e \in Nat /\ z \in Nat \ {0} /\ l \in Nat /\ a = e + z /\ a <= l
      BY <1>3, <2>2, <2>3
    <3> HIDE DEF e, a, l, z
    <3>3. ~(e >= l) /\ ~(e + z > l) /\ j # 0
      BY <3>2
    <3>1. j # 0 /\ ~(p[i] >= Len(v)) /\ ~(p[i] + RecSize[recs[i]] > Len(v))
      BY <3>3 DEF e, l, z
    <3> HIDE DEF At
    <3> QED
      BY <2>4, <2>5, <3>1 DEF Ends
  <2>7. Append(SubSeq(recs, 1, i - 1), recs[i]) = SubSeq(recs, 1, i)
    BY <1>3, <2>1, SubSeqAppended
  <2>8. At(j - 1) = [left |-> j - 1, pos |-> p[i + 1], recs |-> SubSeq(recs, 1, i)]
    BY <2>1
  <2>9. NextTurn(v, At(j)) = [left |-> j - 1, pos |-> p[i + 1], recs |-> SubSeq(recs, 1, i)]
    <3> HIDE DEF At
    <3> QED
      BY <2>3, <2>4, <2>5, <2>7 DEF NextTurn
  <2> QED
    BY <2>6, <2>8, <2>9
<1>8. T = {}
  <2> HIDE DEF At
  <2> SUFFICES ASSUME T # {} PROVE FALSE
    OBVIOUS
  <2>1. T \in SUBSET Nat
    OBVIOUS
  <2>2. PICK j \in T : \A k \in T : j <= k
    BY <2>1, LeastNatural
  <2>3. f[At(j)] = TurnsTo(v, f, At(j)) /\ j \in 0..n /\ f[At(j)] # recs
    BY <1>2, <1>4
  <2>4. CASE j = 0
    BY <1>3, <1>5, <1>6, <2>3, <2>4 DEF TurnsTo, Ends, Result
  <2>5. CASE j # 0
    <3>1. j - 1 \in 0..n /\ j - 1 \notin T /\ j \in 1..n
      BY <2>2, <2>5
    <3>2. f[At(j - 1)] = recs
      BY <3>1
    <3>3. TurnsTo(v, f, At(j)) = f[At(j - 1)]
      BY <1>7, <3>1 DEF TurnsTo
    <3> QED
      BY <2>3, <3>2, <3>3
  <2> QED
    BY <2>4, <2>5
<1>9. f[At(n)] = recs
  <2>1. n \in 0..n
    BY <1>3
  <2> HIDE DEF At
  <2> QED
    BY <2>1, <1>8
<1>10. At(n) = [left |-> n, pos |-> 0, recs |-> <<>>]
  <2>1. n - n = 0 /\ p[n - n + 1] = 0
    BY <1>1, <1>3 DEF Places
  <2>2. SubSeq(recs, 1, n - n) = <<>>
    BY <2>1
  <2> QED
    BY <2>1, <2>2
<1> QED
  BY <1>2, <1>9, <1>10

\* An empty log spells nothing.
LEMMA SpelledNothing ==
  ASSUME NEW r
  PROVE  Spelled(<<>>, <<>>, r, 0)
<1> DEFINE p == [i \in 1..1 |-> 0]
<1>1. Len(<<>>) = 0
  OBVIOUS
<1>2. p \in [1..1 -> Nat] /\ p[1] = 0
  OBVIOUS
<1> HIDE DEF p
<1>3. Places(p, <<>>, <<>>, r, 0)
  BY <1>1, <1>2 DEF Places
<1> QED
  BY <1>3 DEF Spelled

\* One more unit of the record at the end.
LEMMA SpelledUnit ==
  ASSUME NEW v \in Seq(Unit), NEW recs \in Seq(Rec), NEW r, NEW o \in Nat,
         Spelled(v, recs, r, o)
  PROVE  Spelled(Append(v, <<r, o + 1>>), recs, r, o + 1)
<1> DEFINE w == Append(v, <<r, o + 1>>)
           n == Len(recs)
<1>1. PICK p : Places(p, v, recs, r, o)
  BY DEF Spelled
<1>2. /\ Len(w) = Len(v) + 1 /\ w[Len(v) + 1] = <<r, o + 1>> /\ Len(v) \in Nat
      /\ \A i \in 1..Len(v) : w[i] = v[i]
  OBVIOUS
<1>3. n \in Nat /\ \A i \in 1..n : RecSize[recs[i]] \in Nat
  BY <1>1, PlacesType
<1>4. /\ p \in [1..(n + 1) -> Nat] /\ p[1] = 0 /\ p[n + 1] + o = Len(v) /\ p[n + 1] \in Nat
      /\ \A i \in 1..n : p[i] \in Nat
  <2>1. n + 1 \in 1..(n + 1) /\ \A i \in 1..n : i \in 1..(n + 1)
    BY <1>3
  <2>2. p \in [1..(n + 1) -> Nat]
    BY <1>1 DEF Places
  <2> QED
    BY <1>1, <2>1, <2>2, PlacesType
<1> HIDE DEF w
<1>5. \A i \in 1..n :
        /\ p[i + 1] = p[i] + RecSize[recs[i]] /\ p[i + 1] <= Len(w)
        /\ \A k \in 1..RecSize[recs[i]] : w[p[i] + k] = <<recs[i], k>>
  <2> TAKE i \in 1..n
  <2>1. /\ p[i + 1] = p[i] + RecSize[recs[i]] /\ p[i + 1] <= Len(v)
        /\ \A k \in 1..RecSize[recs[i]] : v[p[i] + k] = <<recs[i], k>>
    BY <1>1 DEF Places
  <2>2. p[i] \in Nat /\ RecSize[recs[i]] \in Nat
    BY <1>3, <1>4
  <2>3. \A k \in 1..RecSize[recs[i]] : w[p[i] + k] = <<recs[i], k>>
    <3> TAKE k \in 1..RecSize[recs[i]]
    <3> DEFINE e == p[i]
               a == p[i + 1]
               l == Len(v)
               z == RecSize[recs[i]]
    <3>2. e \in Nat /\ z \in Nat /\ l \in Nat /\ a = e + z /\ a <= l /\ k \in 1..z
      BY <1>2, <2>1, <2>2
    <3> HIDE DEF e, a, l, z
    <3>3. e + k \in 1..l
      BY <3>2
    <3>1. p[i] + k \in 1..Len(v)
      BY <3>3 DEF e, l
    <3> QED
      BY <1>2, <2>1, <3>1
  <2>4. p[i + 1] <= Len(w)
    <3>1. p[i + 1] \in Nat
      BY <2>1, <2>2
    <3> QED
      BY <1>2, <2>1, <3>1
  <2> QED
    BY <2>1, <2>3, <2>4
<1>6. \A k \in 1..(o + 1) : w[p[n + 1] + k] = <<r, k>>
  <2> TAKE k \in 1..(o + 1)
  <2>1. CASE k = o + 1
    <3> DEFINE e == p[n + 1]
               l == Len(v)
    <3>3. e \in Nat /\ l \in Nat /\ e + o = l
      BY <1>2, <1>4
    <3> HIDE DEF e, l
    <3>2. e + k = l + 1
      BY <2>1, <3>3
    <3>1. p[n + 1] + k = Len(v) + 1
      BY <3>2 DEF e, l
    <3> QED
      BY <1>2, <2>1, <3>1
  <2>2. CASE k # o + 1
    <3>1. k \in 1..o /\ p[n + 1] + k \in 1..Len(v)
      BY <1>4, <2>2
    <3>2. v[p[n + 1] + k] = <<r, k>>
      BY <1>1, <3>1 DEF Places
    <3> QED
      BY <1>2, <3>1, <3>2
  <2> QED
    BY <2>1, <2>2
<1>7. p[n + 1] + (o + 1) = Len(w)
  <2> DEFINE e == p[n + 1]
             l == Len(v)
             k == Len(w)
  <2>1. e \in Nat /\ l \in Nat /\ k = l + 1 /\ e + o = l
    BY <1>2, <1>4
  <2> HIDE DEF e, l, k
  <2>2. e + (o + 1) = k
    BY <2>1
  <2> QED
    BY <2>2 DEF e, k
<1>8. Places(p, w, recs, r, o + 1)
  BY <1>4, <1>5, <1>6, <1>7 DEF Places
<1> QED
  BY <1>8 DEF Spelled, w

\* A record is complete.
LEMMA SpelledRecord ==
  ASSUME NEW v \in Seq(Unit), NEW recs \in Seq(Rec), NEW r \in Rec, NEW q,
         Spelled(v, recs, r, RecSize[r])
  PROVE  Spelled(v, Append(recs, r), q, 0)
<1> DEFINE more == Append(recs, r)
           n == Len(recs)
<1>1. PICK p : Places(p, v, recs, r, RecSize[r])
  BY DEF Spelled
<1>2. n \in Nat /\ Len(v) \in Nat /\ RecSize[r] \in Nat
  OBVIOUS
<1>3. Len(more) = n + 1 /\ more[n + 1] = r /\ \A i \in 1..n : more[i] = recs[i]
  OBVIOUS
<1> HIDE DEF more
<1> DEFINE m == [i \in 1..(n + 2) |-> IF i = n + 2 THEN Len(v) ELSE p[i]]
<1>4. p \in [1..(n + 1) -> Nat] /\ p[1] = 0 /\ p[n + 1] + RecSize[r] = Len(v)
  BY <1>1 DEF Places
<1>5. m \in [1..(n + 2) -> Nat] /\ m[n + 2] = Len(v) /\ \A i \in 1..(n + 1) : m[i] = p[i]
  BY <1>2, <1>4
<1> HIDE DEF m
<1>6. \A i \in 1..(n + 1) :
        /\ m[i + 1] = m[i] + RecSize[more[i]] /\ m[i + 1] <= Len(v)
        /\ \A k \in 1..RecSize[more[i]] : v[m[i] + k] = <<more[i], k>>
  <2> TAKE i \in 1..(n + 1)
  <2>1. CASE i = n + 1
    <3>1. i + 1 = n + 2 /\ i \in 1..(n + 1)
      BY <1>2, <2>1
    <3>3. m[i + 1] = Len(v) /\ m[i] = p[n + 1] /\ more[i] = r
      BY <1>3, <1>5, <2>1, <3>1
    <3>2. \A k \in 1..RecSize[r] : v[p[n + 1] + k] = <<r, k>>
      BY <1>1 DEF Places
    <3>4. \A k \in 1..RecSize[more[i]] : v[m[i] + k] = <<more[i], k>>
      BY <3>2, <3>3
    <3>5. m[i + 1] = m[i] + RecSize[more[i]] /\ m[i + 1] <= Len(v)
      BY <1>2, <1>4, <3>3
    <3> QED
      BY <3>4, <3>5
  <2>2. CASE i # n + 1
    <3>1. i \in 1..n /\ i \in 1..(n + 1) /\ i + 1 \in 1..(n + 1)
      BY <1>2, <2>2
    <3>2. m[i] = p[i] /\ m[i + 1] = p[i + 1] /\ more[i] = recs[i]
      BY <1>3, <1>5, <3>1
    <3>3. /\ p[i + 1] = p[i] + RecSize[recs[i]] /\ p[i + 1] <= Len(v)
          /\ \A k \in 1..RecSize[recs[i]] : v[p[i] + k] = <<recs[i], k>>
      BY <1>1, <3>1 DEF Places
    <3> QED
      BY <3>2, <3>3
  <2> QED
    BY <2>1, <2>2
<1>7. Len(more) + 1 = n + 2 /\ m[1] = 0 /\ m[n + 2] + 0 = Len(v)
  <2>1. 1 \in 1..(n + 1)
    BY <1>2
  <2> QED
    BY <1>2, <1>3, <1>4, <1>5, <2>1
<1>8. \A k \in 1..0 : v[m[n + 2] + k] = <<q, k>>
  OBVIOUS
<1>9. Places(m, v, more, q, 0)
  BY <1>3, <1>5, <1>6, <1>7, <1>8 DEF Places
<1> QED
  BY <1>9 DEF Spelled, more
-----------------------------------------------------------------------------
(* What is in the file: the inductive invariant of LogReadsBack.           *)

Keeps(img, recs) ==
  /\ img.hdr.num = Len(recs)
  /\ \E w \in Seq(Unit) : Joined(img.blks, img.hdr.end, w) /\ Spelled(w, recs, 0, 0)
Writes ==
  \E w \in Seq(Unit) :
    /\ Joined(cache.blks, pos, w)
    /\ Spelled(w \o buf, expected \o SubSeq(list, 1, cur - 1), list[cur], off - 1)
Written ==
  /\ header.num = Len(expected) + Len(list)
  /\ \E w \in Seq(Unit) : Joined(cache.blks, header.end, w) /\ Spelled(w, expected \o list, 0, 0)

ReadInv ==
  /\ expected \in Seq(Rec)
  /\ cache.hdr # ZeroHeader => cache.exists /\ Keeps(cache, expected)
  /\ disk.hdr # ZeroHeader => \E recs \in Seq(Rec) : Keeps(disk, recs)
  /\ pc = "writing" => /\ cache.exists
                       /\ cache.hdr = ZeroHeader => expected = <<>>
                       /\ cur > Len(list) => off = 1
                       /\ Writes
  /\ pc = "header" => cache.exists /\ Written

LEMMA AppendConcat ==
  ASSUME NEW s \in Seq(Rec), NEW t \in Seq(Rec), NEW r \in Rec
  PROVE  Append(s \o t, r) = s \o Append(t, r)
<1>1. Append(s \o t, r) \in Seq(Rec) /\ s \o Append(t, r) \in Seq(Rec)
  OBVIOUS
<1>2. Len(Append(s \o t, r)) = Len(s \o Append(t, r))
  OBVIOUS
<1>3. \A i \in 1..Len(Append(s \o t, r)) : Append(s \o t, r)[i] = (s \o Append(t, r))[i]
  OBVIOUS
<1> QED
  BY <1>1, <1>2, <1>3, SeqEqual

LEMMA SpelledAny ==
  ASSUME NEW v, NEW recs, NEW r, NEW q, Spelled(v, recs, r, 0)
  PROVE  Spelled(v, recs, q, 0)
<1>1. PICK p : Places(p, v, recs, r, 0)
  BY DEF Spelled
<1>2. \A k \in 1..0 : v[p[Len(recs) + 1] + k] = <<q, k>>
  OBVIOUS
<1>3. Places(p, v, recs, q, 0)
  BY <1>1, <1>2 DEF Places
<1> QED
  BY <1>3 DEF Spelled

LEMMA HeaderType ==
  ASSUME NEW img \in Image, img.hdr # ZeroHeader
  PROVE  img.hdr \in Header /\ img.hdr.end \in 0..MaxBlocks /\ img.hdr.end \in Nat /\ img.hdr.num \in Nat
<1>1. img.hdr \in Header
  BY DEF Image
<1> QED
  BY <1>1 DEF Header

\* An image that keeps records is loaded as these records.
LEMMA LoadKept ==
  ASSUME NEW img \in Image, img.exists, img.hdr # ZeroHeader,
         NEW recs \in Seq(Rec), Keeps(img, recs)
  PROVE  Load(img) = recs
<1> DEFINE n == img.hdr.end
           B == [i \in 1..n |-> IF i \in Slots THEN img.blks[i] ELSE Junk]
<1>1. n \in 0..MaxBlocks /\ n \in Nat
  BY HeaderType
<1>2. Stored(img) = [kind |-> "log", hdr |-> img.hdr, blks |-> B]
  BY DEF Stored
<1>3. \A i \in 1..n : B[i] = img.blks[i]
  BY <1>1 DEF Slots
<1>4. PICK w \in Seq(Unit) : Joined(img.blks, n, w) /\ Spelled(w, recs, 0, 0)
  BY DEF Keeps
<1> HIDE DEF B
<1>5. GoodUnits(B, n) = w
  <2>1. Joined(B, n, w)
    BY <1>1, <1>3, <1>4, JoinedSame
  <2> HIDE DEF n
  <2> QED
    BY <1>1, <2>1, GoodUnitsJoined
<1>6. Parse(w, img.hdr.num) = recs
  BY <1>4, ParseSpelled DEF Keeps
<1>7. /\ Stored(img).kind = "log" /\ Stored(img).hdr = img.hdr /\ Stored(img).blks = B
  BY <1>2
<1> QED
  BY <1>5, <1>6, <1>7 DEF Load, LoadStored

\* Only what the header covers matters.
LEMMA KeepsSame ==
  ASSUME NEW img \in Image, img.hdr # ZeroHeader, NEW copy, NEW recs, Keeps(img, recs),
         copy.hdr = img.hdr, \A s \in 1..img.hdr.end : copy.blks[s] = img.blks[s]
  PROVE  Keeps(copy, recs)
<1>1. PICK w \in Seq(Unit) : Joined(img.blks, img.hdr.end, w) /\ Spelled(w, recs, 0, 0)
  BY DEF Keeps
<1>2. img.hdr.end \in Nat
  BY HeaderType
<1>3. Joined(copy.blks, copy.hdr.end, w)
  BY <1>1, <1>2, JoinedSame
<1> QED
  BY <1>1, <1>3 DEF Keeps

\* A block at F.Position leaves what the header covers as it is.
LEMMA WritingKeeps ==
  ASSUME LogInv, pc = "writing", NEW b \in Block, WriteBlock(b), NEW recs,
         cache.hdr # ZeroHeader => cache.exists /\ Keeps(cache, recs)
  PROVE  /\ cache'.exists = cache.exists /\ cache'.hdr = cache.hdr
         /\ (cache'.hdr # ZeroHeader => cache'.exists /\ Keeps(cache', recs))
<1>1. /\ cache'.exists = cache.exists /\ cache'.hdr = cache.hdr
      /\ \A s \in Slots : s <= pos => cache'.blks[s] = cache.blks[s]
  BY BlockWritten DEF LogInv
<1>2. ASSUME cache.hdr # ZeroHeader PROVE Keeps(cache', recs)
  <2>1. cache \in Image /\ pos \in 0..MaxBlocks
    BY DEF LogInv, TypeOK
  <2>2. cache.hdr.end \in 0..MaxBlocks /\ cache.hdr.end <= pos
    BY <1>2, <2>1, HeaderType DEF LogInv, WriterInv
  <2>3. \A s \in 1..cache.hdr.end : s \in Slots /\ s <= pos
    BY <2>1, <2>2 DEF Slots
  <2>4. \A s \in 1..cache.hdr.end : cache'.blks[s] = cache.blks[s]
    BY <1>1, <2>3
  <2> QED
    BY <1>1, <1>2, <2>1, <2>4, KeepsSame
<1> QED
  BY <1>1, <1>2

\* It becomes the next block.
LEMMA WritingJoins ==
  ASSUME LogInv, NEW b \in Block, WriteBlock(b), NEW w \in Seq(Unit), Joined(cache.blks, pos, w)
  PROVE  pos' = pos + 1 /\ Joined(cache'.blks, pos', w \o b) /\ w \o b \in Seq(Unit)
<1>1. pos \in Nat /\ pos + 1 \in Slots /\ pos < MaxBlocks
  BY DEF LogInv, TypeOK, WriteBlock, Slots
<1>2. cache'.blks = [cache.blks EXCEPT ![pos + 1] = b]
  BY DEF LogInv, TypeOK, Image, WriteBlock
<1>3. cache.blks \in [Slots -> Block \cup {Junk}]
  BY DEF LogInv, TypeOK, Image
<1>4. cache'.blks[pos + 1] = b /\ b # Junk
  BY <1>1, <1>2, <1>3
<1>5. \A i \in 1..pos : cache'.blks[i] = cache.blks[i]
  <2> TAKE i \in 1..pos
  <2>1. i \in Slots /\ i # pos + 1
    BY <1>1 DEF Slots
  <2> QED
    BY <1>2, <1>3, <2>1
<1>6. Joined(cache'.blks, pos + 1, w \o b)
  BY <1>1, <1>4, <1>5, JoinedNext
<1>7. b \in Seq(Unit)
  BY DEF Block
<1> QED
  BY <1>6, <1>7 DEF WriteBlock

\* WriteBuf's turn: one unit, and perhaps a block.
LEMMA WriteUnitReads ==
  ASSUME LogInv, ReadInv, WriteUnit
  PROVE  ReadInv'
<1> DEFINE unit == <<list[cur], off>>
           last == off = RecSize[list[cur]]
           more == Append(buf, unit)
           done == expected \o SubSeq(list, 1, cur - 1)
<1>1. /\ pc = "writing" /\ cur <= Len(list)
      /\ IF last THEN cur' = cur + 1 /\ off' = 1 ELSE cur' = cur /\ off' = off + 1
      /\ IF Len(more) = BlockCap THEN WriteBlock(more)
         ELSE buf' = more /\ UNCHANGED <<cache, pos>>
      /\ UNCHANGED <<disk, pc, session, list, header, history>>
  BY DEF WriteUnit
<1>2. /\ list \in Seq(Rec) /\ Len(list) \in Nat /\ cur \in 1..Len(list) /\ buf \in Seq(Unit)
      /\ Len(buf) \in Nat /\ Len(buf) < BlockCap /\ expected \in Seq(Rec)
      /\ off \in Nat \ {0} /\ off <= RecSize[list[cur]]
  BY <1>1 DEF LogInv, TypeOK, ReadInv
<1>3. list[cur] \in Rec /\ RecSize[list[cur]] \in Nat
  BY <1>2, ElementOfSeq
<1>4. unit \in Unit
  BY <1>2, <1>3 DEF Unit
<1>5. more \in Seq(Unit) /\ more \in Block
  BY <1>2, <1>4 DEF Block
<1>6. PICK w \in Seq(Unit) :
        Joined(cache.blks, pos, w) /\ Spelled(w \o buf, done, list[cur], off - 1)
  BY <1>1 DEF ReadInv, Writes
<1>7. done \in Seq(Rec)
  <2>1. SubSeq(list, 1, cur - 1) \in Seq(Rec)
    BY <1>2, SubSeqProperties
  <2> QED
    BY <1>2, <2>1
<1>8. w \o more = Append(w \o buf, unit) /\ w \o buf \in Seq(Unit) /\ w \o more \in Seq(Unit)
  <2>1. w \o more \in Seq(Unit) /\ w \o buf \in Seq(Unit) /\ Append(w \o buf, unit) \in Seq(Unit)
    BY <1>2, <1>4, <1>5
  <2>2. Len(w \o more) = Len(Append(w \o buf, unit))
    BY <1>2, <1>4
  <2>3. \A i \in 1..Len(w \o more) : (w \o more)[i] = Append(w \o buf, unit)[i]
    BY <1>2, <1>4
  <2> QED
    BY <2>1, <2>2, <2>3, SeqEqual
<1>9. Spelled(w \o more, done, list[cur], off)
  <2> DEFINE o == off - 1
             v == w \o buf
  <2>1. o \in Nat /\ o + 1 = off
    BY <1>2
  <2>2. v \in Seq(Unit) /\ Spelled(v, done, list[cur], o)
    BY <1>6, <1>8
  <2> HIDE DEF o, v, done
  <2>3. Spelled(Append(v, <<list[cur], o + 1>>), done, list[cur], o + 1)
    BY <1>7, <2>1, <2>2, SpelledUnit
  <2>4. Append(v, <<list[cur], off>>) = w \o more
    BY <1>8 DEF v
  <2> QED
    BY <2>1, <2>3, <2>4
<1> HIDE DEF more, unit, done
<1>10. Spelled(w \o more, expected \o SubSeq(list, 1, cur' - 1), list[cur'], off' - 1)
  <2>1. CASE last
    <3>1. cur' - 1 = cur /\ off' - 1 = 0
      BY <1>1, <1>2, <2>1
    <3>2. Append(done, list[cur]) = expected \o SubSeq(list, 1, cur)
      <4>1. SubSeq(list, 1, cur) = Append(SubSeq(list, 1, cur - 1), list[cur])
        BY <1>2, SubSeqAppended
      <4>2. SubSeq(list, 1, cur - 1) \in Seq(Rec)
        BY <1>2, SubSeqProperties
      <4> DEFINE t == SubSeq(list, 1, cur - 1)
      <4>3. t \in Seq(Rec) /\ done = expected \o t /\ SubSeq(list, 1, cur) = Append(t, list[cur])
        BY <4>1, <4>2 DEF done
      <4> HIDE DEF t
      <4>4. Append(expected \o t, list[cur]) = expected \o Append(t, list[cur])
        BY <1>2, <1>3, <4>3, AppendConcat
      <4> QED
        BY <4>3, <4>4
    <3>3. Spelled(w \o more, Append(done, list[cur]), list[cur'], 0)
      BY <1>3, <1>7, <1>8, <1>9, <2>1, SpelledRecord
    <3> QED
      BY <3>1, <3>2, <3>3
  <2>2. CASE ~last
    <3>1. cur' = cur /\ off' - 1 = off
      BY <1>1, <1>2, <2>2
    <3> QED
      BY <1>9, <3>1 DEF done
  <2> QED
    BY <2>1, <2>2
<1>11. list' = list /\ expected' = expected /\ disk' = disk /\ pc' = "writing"
  BY <1>1 DEF history
<1>12. cur' > Len(list') => off' = 1
  BY <1>1, <1>2, <1>11
<1>13. CASE Len(more) = BlockCap
  <2>1. WriteBlock(more)
    BY <1>1, <1>13
  <2>2. /\ cache'.exists = cache.exists /\ cache'.hdr = cache.hdr
        /\ (cache'.hdr # ZeroHeader => cache'.exists /\ Keeps(cache', expected))
    BY <1>1, <1>5, <2>1, WritingKeeps DEF ReadInv
  <2>3. Joined(cache'.blks, pos', w \o more)
    BY <1>5, <1>6, <2>1, WritingJoins
  <2>4. buf' = <<>> /\ (w \o more) \o buf' = w \o more
    BY <1>8, <2>1 DEF WriteBlock
  <2>5. Writes'
    BY <1>8, <1>10, <1>11, <2>3, <2>4 DEF Writes
  <2> QED
    BY <1>1, <1>11, <1>12, <2>2, <2>5 DEF ReadInv
<1>14. CASE Len(more) # BlockCap
  <2>1. buf' = more /\ cache' = cache /\ pos' = pos
    BY <1>1, <1>14
  <2>2. Writes'
    BY <1>6, <1>10, <1>11, <2>1 DEF Writes
  <2> QED
    BY <1>1, <1>11, <1>12, <2>1, <2>2 DEF ReadInv, Keeps
<1> QED
  BY <1>13, <1>14

LEMMA FlushLastReads ==
  ASSUME LogInv, ReadInv, FlushLast
  PROVE  ReadInv'
<1>1. /\ pc = "writing" /\ pc' = "writing" /\ WriteBlock(buf) /\ cur > Len(list)
      /\ disk' = disk /\ list' = list /\ cur' = cur /\ off' = off /\ expected' = expected
  BY DEF FlushLast, history
<1>2. buf \in Block /\ buf \in Seq(Unit)
  BY DEF LogInv, TypeOK, Block
<1>3. PICK w \in Seq(Unit) :
        /\ Joined(cache.blks, pos, w)
        /\ Spelled(w \o buf, expected \o SubSeq(list, 1, cur - 1), list[cur], off - 1)
  BY <1>1 DEF ReadInv, Writes
<1>4. Joined(cache'.blks, pos', w \o buf) /\ w \o buf \in Seq(Unit)
  BY <1>1, <1>2, <1>3, WritingJoins
<1>5. buf' = <<>> /\ (w \o buf) \o buf' = w \o buf
  BY <1>1, <1>4 DEF WriteBlock
<1>6. Writes'
  BY <1>1, <1>3, <1>4, <1>5 DEF Writes
<1>7. /\ cache'.exists = cache.exists /\ cache'.hdr = cache.hdr
      /\ (cache'.hdr # ZeroHeader => cache'.exists /\ Keeps(cache', expected))
  BY <1>1, <1>2, WritingKeeps DEF ReadInv
<1> QED
  BY <1>1, <1>6, <1>7 DEF ReadInv

\* Nothing is being written, and the images are as they were.
LEMMA ImagesUntouched ==
  ASSUME ReadInv, cache' = cache, disk' = disk, expected' = expected,
         pc' \notin {"writing", "header"}
  PROVE  ReadInv'
  BY DEF ReadInv, Keeps

\* The file is emptied or deleted.
LEMMA ImagesEmptied ==
  ASSUME cache'.hdr = ZeroHeader, disk'.hdr = ZeroHeader, expected' = <<>>,
         pc' \notin {"writing", "header"}
  PROVE  ReadInv'
  BY DEF ReadInv

LEMMA NothingYet ==
  ASSUME NEW s \in Seq(Rec), NEW t
  PROVE  s \o SubSeq(t, 1, 0) = s
<1>1. SubSeq(t, 1, 0) = <<>>
  OBVIOUS
<1> QED
  BY <1>1

LEMMA SaveCreateReads ==
  ASSUME LogInv, ReadInv, NEW l \in Lists, SaveCreate(l)
  PROVE  ReadInv'
<1>1. /\ pc' = "writing" /\ list' = l /\ cur' = 1 /\ off' = 1 /\ buf' = <<>> /\ pos' = 0
      /\ cache' = NewImage /\ disk' = NewImage /\ expected' = <<>>
  BY DEF SaveCreate, StartWriting
<1>2. cache'.hdr = ZeroHeader /\ disk'.hdr = ZeroHeader /\ cache'.exists
  BY <1>1 DEF NewImage
<1>3. expected' \in Seq(Rec)
  BY <1>1
<1>4. Joined(cache'.blks, pos', <<>>) /\ <<>> \in Seq(Unit)
  BY <1>1, JoinedNone
<1>5. Spelled(<<>>, <<>>, list'[cur'], 0)
  BY SpelledNothing
<1>6. /\ <<>> \o buf' = <<>> /\ off' - 1 = 0 /\ cur' - 1 = 0
      /\ expected' \o SubSeq(list', 1, cur' - 1) = <<>>
  <2>1. cur' - 1 = 0 /\ off' - 1 = 0 /\ <<>> \o buf' = <<>>
    BY <1>1
  <2> QED
    BY <1>1, <1>3, <2>1, NothingYet
<1>7. Writes'
  BY <1>4, <1>5, <1>6 DEF Writes
<1> QED
  BY <1>1, <1>2, <1>3, <1>7 DEF ReadInv

\* Appending starts where the blocks under the header end.
LEMMA SaveAppendReads ==
  ASSUME LogInv, ReadInv, NEW l \in Lists, SaveAppend(l)
  PROVE  ReadInv'
<1>1. /\ pc' = "writing" /\ list' = l /\ cur' = 1 /\ off' = 1 /\ buf' = <<>>
      /\ pos' = cache.hdr.end /\ disk' = disk /\ expected' = expected
      /\ cache' = [cache EXCEPT !.blks =
                     [s \in Slots |-> IF s > cache.hdr.end THEN Junk ELSE cache.blks[s]]]
      /\ pc = "installing" /\ append
  BY DEF SaveAppend, StartWriting, history
<1>2. cache.hdr # ZeroHeader /\ cache \in Image
  BY <1>1 DEF LogInv, TypeOK, WriterInv
<1>3. cache.hdr.end \in 0..MaxBlocks /\ cache.hdr.end \in Nat
  BY <1>2, HeaderType
<1>4. /\ cache'.exists = cache.exists /\ cache'.hdr = cache.hdr
      /\ cache'.blks = [s \in Slots |-> IF s > cache.hdr.end THEN Junk ELSE cache.blks[s]]
  BY <1>1, <1>2 DEF Image
<1>5. \A s \in 1..cache.hdr.end : s \in Slots /\ ~(s > cache.hdr.end)
  BY <1>3 DEF Slots
<1>6. \A s \in 1..cache.hdr.end : cache'.blks[s] = cache.blks[s]
  BY <1>4, <1>5
<1>7. cache.exists /\ Keeps(cache, expected) /\ expected \in Seq(Rec)
  BY <1>2 DEF ReadInv
<1>8. Keeps(cache', expected)
  BY <1>2, <1>4, <1>6, <1>7, KeepsSame
<1>9. PICK w \in Seq(Unit) : Joined(cache'.blks, cache'.hdr.end, w) /\ Spelled(w, expected, 0, 0)
  BY <1>8 DEF Keeps
<1>10. Spelled(w, expected, list'[cur'], 0)
  BY <1>9, SpelledAny
<1>11. /\ w \o buf' = w /\ off' - 1 = 0
       /\ expected' \o SubSeq(list', 1, cur' - 1) = expected
  <2>1. cur' - 1 = 0 /\ off' - 1 = 0 /\ w \o buf' = w
    BY <1>1
  <2> QED
    BY <1>1, <1>7, <2>1, NothingYet
<1>12. Writes'
  BY <1>1, <1>4, <1>9, <1>10, <1>11 DEF Writes
<1>13. cur' > Len(list') => off' = 1
  BY <1>1
<1> QED
  BY <1>1, <1>2, <1>4, <1>7, <1>8, <1>12, <1>13 DEF ReadInv

\* The whole list has become blocks.
LEMMA SealAndFlushReads ==
  ASSUME LogInv, ReadInv, SealAndFlush
  PROVE  ReadInv'
<1>1. /\ pc = "writing" /\ pc' = "header" /\ cur > Len(list) /\ buf = <<>>
      /\ header'.num = HeaderNum + Len(list) /\ header'.end = pos
      /\ disk' = cache /\ cache' = cache /\ list' = list /\ expected' = expected
  BY DEF SealAndFlush
<1>2. /\ list \in Seq(Rec) /\ Len(list) \in Nat /\ cur \in 1..(Len(list) + 1)
      /\ header = cache.hdr /\ expected \in Seq(Rec)
  BY <1>1 DEF LogInv, TypeOK, WriterInv, ReadInv
<1>3. /\ cache.exists /\ off = 1 /\ Writes
      /\ cache.hdr # ZeroHeader => Keeps(cache, expected)
      /\ cache.hdr = ZeroHeader => expected = <<>>
  BY <1>1 DEF ReadInv
<1>4. HeaderNum = Len(expected)
  <2>1. CASE cache.hdr = ZeroHeader
    <3>1. Len(expected) = 0
      BY <1>3, <2>1
    <3> QED
      BY <1>2, <2>1, <3>1 DEF HeaderNum
  <2>2. CASE cache.hdr # ZeroHeader
    BY <1>2, <1>3, <2>2 DEF HeaderNum, Keeps
  <2> QED
    BY <2>1, <2>2
<1>5. PICK w \in Seq(Unit) :
        /\ Joined(cache.blks, pos, w)
        /\ Spelled(w \o buf, expected \o SubSeq(list, 1, cur - 1), list[cur], off - 1)
  BY <1>3 DEF Writes
<1>6. w \o buf = w /\ off - 1 = 0 /\ cur - 1 = Len(list)
  BY <1>1, <1>2, <1>3
<1>7. SubSeq(list, 1, cur - 1) = list
  <2> DEFINE s == SubSeq(list, 1, Len(list))
  <2>1. s \in Seq(Rec) /\ Len(s) = Len(list) /\ \A k \in 1..Len(list) : s[k] = list[k]
    BY <1>2, SubSeqProperties
  <2> HIDE DEF s
  <2>2. s = list
    BY <1>2, <2>1, SeqEqual
  <2> QED
    BY <1>6, <2>2 DEF s
<1>8. Spelled(w, expected \o list, 0, 0)
  BY <1>5, <1>6, <1>7, SpelledAny
<1>9. Written'
  BY <1>1, <1>4, <1>5, <1>8 DEF Written
<1> QED
  BY <1>1, <1>2, <1>3, <1>9 DEF ReadInv, Keeps

\* With its header the list belongs to the file.
LEMMA WriteHeaderReads ==
  ASSUME LogInv, ReadInv, WriteHeader
  PROVE  ReadInv'
<1>1. /\ pc = "header" /\ pc' = "idle" /\ cache' = [cache EXCEPT !.hdr = header]
      /\ expected' = expected \o list /\ disk' = disk
  BY DEF WriteHeader, EndProcess
<1>2. cache \in Image /\ list \in Seq(Rec) /\ expected \in Seq(Rec) /\ cache.exists /\ Written
  BY <1>1 DEF LogInv, TypeOK, ReadInv
<1>3. cache'.hdr = header /\ cache'.blks = cache.blks /\ cache'.exists = cache.exists
  BY <1>1, <1>2 DEF Image
<1>4. expected' \in Seq(Rec) /\ Len(expected') = Len(expected) + Len(list)
  BY <1>1, <1>2
<1>5. Keeps(cache', expected')
  BY <1>1, <1>2, <1>3, <1>4 DEF Written, Keeps
<1>6. disk'.hdr # ZeroHeader => \E recs \in Seq(Rec) : Keeps(disk', recs)
  BY <1>1 DEF ReadInv
<1> QED
  BY <1>1, <1>2, <1>3, <1>4, <1>5, <1>6 DEF ReadInv

\* The torn block of a failed write is past what the header covers.
LEMMA SaveFailsReads ==
  ASSUME LogInv, ReadInv, SaveFails
  PROVE  ReadInv'
<1>1. /\ pc \in {"writing", "header"} /\ pc' = "failed" /\ disk' = disk /\ expected' = expected
      /\ cache' = IF pc = "writing" /\ pos < MaxBlocks
                  THEN [cache EXCEPT !.blks[pos + 1] = Junk] ELSE cache
  BY DEF SaveFails, history
<1>2. cache \in Image
  BY DEF LogInv, TypeOK
<1>3. /\ cache'.exists = cache.exists /\ cache'.hdr = cache.hdr
      /\ \A s \in Slots : ~(pc = "writing" /\ s = pos + 1) => cache'.blks[s] = cache.blks[s]
  BY <1>1, <1>2 DEF Image, Slots
<1>4. ASSUME cache.hdr # ZeroHeader PROVE Keeps(cache', expected)
  <2>1. cache.hdr.end \in 0..MaxBlocks /\ pos \in 0..MaxBlocks
    BY <1>2, <1>4, HeaderType DEF LogInv, TypeOK
  <2>2. pc = "writing" => cache.hdr.end <= pos
    BY <1>4 DEF LogInv, WriterInv
  <2>3. \A s \in 1..cache.hdr.end : s \in Slots /\ ~(pc = "writing" /\ s = pos + 1)
    BY <2>1, <2>2 DEF Slots
  <2>4. \A s \in 1..cache.hdr.end : cache'.blks[s] = cache.blks[s]
    BY <1>3, <2>3
  <2>5. Keeps(cache, expected)
    BY <1>4 DEF ReadInv
  <2> QED
    BY <1>2, <1>3, <1>4, <2>4, <2>5, KeepsSame
<1> QED
  BY <1>1, <1>3, <1>4 DEF ReadInv

\* A header reaches the disk after its blocks.
LEMMA WriteBackReads ==
  ASSUME LogInv, ReadInv, WriteBack
  PROVE  ReadInv'
<1>1. UNCHANGED <<cache, pc, list, cur, off, buf, pos, header, expected>>
  BY DEF WriteBack, writer, history
<1>2. disk \in Image /\ cache \in Image
  BY DEF LogInv, TypeOK
<1>3. disk'.hdr # ZeroHeader => \E recs \in Seq(Rec) : Keeps(disk', recs)
  <2>1. CASE disk' = [disk EXCEPT !.hdr = cache.hdr]
    <3>1. disk'.hdr = cache.hdr /\ disk'.blks = disk.blks
      BY <1>2, <2>1 DEF Image
    <3>2. SUFFICES ASSUME cache.hdr # ZeroHeader PROVE Keeps(disk', expected) /\ expected \in Seq(Rec)
      BY <3>1
    <3>3. Keeps(cache, expected) /\ expected \in Seq(Rec)
      BY <3>2 DEF ReadInv
    <3>4. \A s \in 1..cache.hdr.end : disk'.blks[s] = cache.blks[s]
      BY <3>1, <3>2 DEF LogInv, ImagesInv, OnDisk
    <3> QED
      BY <1>2, <3>1, <3>2, <3>3, <3>4, KeepsSame
  <2>2. ASSUME NEW s \in Slots, disk' = [disk EXCEPT !.blks[s] = cache.blks[s]]
        PROVE  disk'.hdr # ZeroHeader => \E recs \in Seq(Rec) : Keeps(disk', recs)
    <3>1. /\ disk'.hdr = disk.hdr
          /\ \A i \in Slots : disk'.blks[i] = disk.blks[i] \/ disk'.blks[i] = cache.blks[i]
      BY <1>2, <2>2 DEF Image
    <3>2. SUFFICES ASSUME disk.hdr # ZeroHeader PROVE \E recs \in Seq(Rec) : Keeps(disk', recs)
      BY <3>1
    <3>3. PICK recs \in Seq(Rec) : Keeps(disk, recs)
      BY <3>2 DEF ReadInv
    <3>4. cache.hdr # ZeroHeader /\ Precedes(disk.hdr, cache.hdr) /\ OnDisk(cache.hdr.end)
      BY <3>2 DEF LogInv, ImagesInv
    <3>5. /\ disk.hdr.end \in 0..MaxBlocks /\ cache.hdr.end \in 0..MaxBlocks
          /\ disk.hdr.end <= cache.hdr.end
      BY <1>2, <3>2, <3>4, HeaderType DEF Precedes
    <3>6. \A i \in 1..disk.hdr.end : i \in Slots /\ i \in 1..cache.hdr.end
      BY <3>5 DEF Slots
    <3>7. \A i \in 1..disk.hdr.end : disk'.blks[i] = disk.blks[i]
      BY <3>1, <3>4, <3>6 DEF OnDisk
    <3>8. Keeps(disk', recs)
      BY <1>2, <3>1, <3>2, <3>3, <3>7, KeepsSame
    <3> QED
      BY <3>8
  <2> QED
    BY <2>1, <2>2 DEF WriteBack
<1> QED
  BY <1>1, <1>3 DEF ReadInv, Writes, Written, Keeps

\* After a system crash the file is what the disk kept.
LEMMA CrashReads ==
  ASSUME LogInv, ReadInv, Crash
  PROVE  ReadInv'
<1>1. /\ cache' = disk /\ disk' = disk /\ pc' = "idle"
      /\ expected' = IF Load(disk) = Corrupt THEN <<>> ELSE Load(disk)
  BY DEF Crash, EndProcess
<1>2. disk \in Image
  BY DEF LogInv, TypeOK
<1>3. CASE disk.hdr = ZeroHeader
  <2>1. Stored(disk).kind # "log"
    BY <1>3 DEF Stored, NoFile, Unreadable
  <2>2. Load(disk) = Corrupt
    BY <2>1 DEF Load, LoadStored
  <2> QED
    BY <1>1, <1>3, <2>2 DEF ReadInv
<1>4. CASE disk.hdr # ZeroHeader
  <2>1. PICK recs \in Seq(Rec) : Keeps(disk, recs)
    BY <1>4 DEF ReadInv
  <2>2. disk.exists
    BY <1>4 DEF LogInv, ImagesInv, ReadInv
  <2>3. Load(disk) = recs
    BY <1>2, <1>4, <2>1, <2>2, LoadKept
  <2>4. expected' = recs
    BY <1>1, <2>1, <2>3
  <2> QED
    BY <1>1, <1>4, <2>1, <2>2, <2>4 DEF ReadInv, Keeps
<1> QED
  BY <1>3, <1>4

LEMMA InitReads == Init => ReadInv
<1> SUFFICES ASSUME Init PROVE ReadInv
  OBVIOUS
<1>1. disk.hdr = ZeroHeader /\ cache.hdr = ZeroHeader /\ expected = <<>> /\ pc = "idle"
  BY DEF Init, NoImage
<1> QED
  BY <1>1 DEF ReadInv

LEMMA StepReads == LogInv /\ ReadInv /\ [Next]_vars => ReadInv'
<1> SUFFICES ASSUME LogInv, ReadInv, [Next]_vars PROVE ReadInv'
  OBVIOUS
<1>1. ASSUME NEW a \in Apps, NEW fl \in SUBSET FlagNames, ReserveDataFile(a, fl)
      PROVE  ReadInv'
  BY <1>1, ImagesEmptied DEF ReserveDataFile, StartSession, NewImage
<1>2. ASSUME NEW a \in Apps, NEW fl \in SUBSET FlagNames, UseExistingDataFile(a, fl)
      PROVE  ReadInv'
  BY <1>2, ImagesUntouched DEF UseExistingDataFile, StartSession
<1>3. CASE InstallFails
  BY <1>3, ImagesUntouched DEF InstallFails, history
<1>4. RemoveFile => cache'.hdr = ZeroHeader /\ disk'.hdr = ZeroHeader /\ expected' = <<>>
  BY DEF RemoveFile, NoImage
<1>5. CASE Rollback
  <2>1. pc' = "idle"
    BY <1>5 DEF Rollback, EndProcess
  <2> QED
    BY <1>4, <1>5, <2>1, ImagesEmptied, ImagesUntouched DEF Rollback, history
<1>6. CASE Uninstall
  BY <1>4, <1>6, ImagesEmptied DEF Uninstall
<1>7. CASE UNCHANGED vars
  BY <1>7 DEF vars, writer, history, ReadInv, Writes, Written, Keeps
<1> QED
  BY <1>1, <1>2, <1>3, <1>5, <1>6, <1>7, SaveCreateReads, SaveAppendReads, WriteUnitReads,
     FlushLastReads, SealAndFlushReads, WriteHeaderReads, SaveFailsReads, WriteBackReads,
     CrashReads DEF Next

\* The records that belong in the file are in it at every step: a valid
\* header counts them and covers their blocks, and while Save writes, the
\* blocks behind F.Position and Buffer spell them and as much of the undo
\* list as WriteBuf has copied.
THEOREM ReadInvariant == Spec => []ReadInv
<1>1. Init => ReadInv
  BY InitReads
<1>2. LogInv /\ ReadInv /\ [Next]_vars => ReadInv'
  BY StepReads
<1> QED
  BY <1>1, <1>2, LogInvariant, PTL DEF Spec

\* A log with a valid header, also half-way through a later append or after
\* one that failed, loads as the records of all the installations saved in
\* it, in order, however they straddle its blocks (Load, FillBuffer).
THEOREM ReadsBack == Spec => []LogReadsBack
<1>1. LogInv /\ ReadInv => LogReadsBack
  <2> SUFFICES ASSUME LogInv, ReadInv, cache.exists, cache.hdr # ZeroHeader
               PROVE  Load(cache) = expected
    BY DEF LogReadsBack
  <2>1. cache \in Image
    BY DEF LogInv, TypeOK
  <2> QED
    BY <2>1, LoadKept DEF ReadInv
<1> QED
  BY <1>1, LogInvariant, ReadInvariant, PTL

\* If the disk can be read, the cache can.
LEMMA ReadableDisk ==
  ASSUME LogInv, ReadInv, Load(disk) # Corrupt
  PROVE  Load(cache) # Corrupt
<1>1. Stored(disk).kind = "log"
  BY DEF Load, LoadStored
<1>2. disk.exists /\ disk.hdr # ZeroHeader
  BY <1>1 DEF Stored, NoFile, Unreadable
<1>3. cache.exists /\ cache.hdr # ZeroHeader /\ cache \in Image
  BY <1>2 DEF LogInv, ImagesInv, TypeOK
<1>4. Keeps(cache, expected) /\ expected \in Seq(Rec)
  BY <1>3 DEF ReadInv
<1>5. Load(cache) = expected
  BY <1>3, <1>4, LoadKept
<1> QED
  BY <1>4, <1>5

LEMMA StepDamages ==
  ASSUME LogInv, ReadInv, [Next]_vars, disk # disk', Load(disk) # Corrupt, Load(disk') = Corrupt
  PROVE  \/ pc = "installing" /\ pc' = "writing" /\ ~append
         \/ ~disk'.exists
<1>1. Load(cache) # Corrupt
  BY ReadableDisk
<1>2. ASSUME NEW a \in Apps, NEW fl \in SUBSET FlagNames, ReserveDataFile(a, fl)
      PROVE  FALSE
  <2>1. Stored(cache).kind # "log"
    BY <1>2 DEF ReserveDataFile, Stored, NoFile
  <2> QED
    BY <1>1, <2>1 DEF Load, LoadStored
<1>3. ASSUME NEW l \in Lists, SaveCreate(l)
      PROVE  pc = "installing" /\ pc' = "writing" /\ ~append
  BY <1>3 DEF SaveCreate, StartWriting
<1>4. CASE SealAndFlush
  BY <1>1, <1>4 DEF SealAndFlush
<1>5. RemoveFile => ~disk'.exists
  BY DEF RemoveFile, NoImage
<1>6. CASE WriteBack
  <2>1. Stored(disk') \in {Stored(disk), Stored(cache)}
    BY <1>6, WriteBackInv
  <2> QED
    BY <1>1, <2>1 DEF Load
<1>7. \/ \E a \in Apps, fl \in SUBSET FlagNames : ReserveDataFile(a, fl)
      \/ \E l \in Lists : SaveCreate(l)
      \/ SealAndFlush \/ RemoveFile \/ WriteBack
  BY DEF Next, vars, UseExistingDataFile, SaveAppend, WriteUnit, FlushLast, WriteHeader,
         SaveFails, InstallFails, Rollback, Uninstall, Crash
<1> QED
  BY <1>2, <1>3, <1>4, <1>5, <1>6, <1>7

\* A log that can be read stays readable through appending, failing, lazy
\* writing and crashing; only an overwriting Save or deleting it ends that.
THEOREM DamagesOnlyByOverwriting == Spec => OnlyOverwritingDamages
<1>1. LogInv /\ ReadInv /\ [Next]_vars =>
        [disk # disk' /\ Load(disk) # Corrupt /\ Load(disk') = Corrupt =>
           \/ pc = "installing" /\ pc' = "writing" /\ ~append
           \/ ~disk'.exists]_vars
  BY StepDamages
<1> QED
  BY <1>1, LogInvariant, ReadInvariant, PTL DEF Spec, OnlyOverwritingDamages
=============================================================================
