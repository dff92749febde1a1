------------------------- MODULE UninstallLogFile -------------------------
(***************************************************************************)
(* The uninstall log on disk: unins???.dat, written by TUninstallLog.Save  *)
(* and read by TUninstallLog.Load (Setup.UninstallLog.pas), with the part  *)
(* of Setup.Install.pas that reserves the file, asks CanAppend, saves and  *)
(* rolls back.                                                             *)
(*                                                                         *)
(* The file is one header sector followed by blocks.  A record is          *)
(* RecSize[r] units long (its TUninstallFileRec is the first unit), a      *)
(* block holds at most BlockCap units (the 4096-byte Buffer) under a CRC.  *)
(* Offsets are counted in blocks after the header.                         *)
(*                                                                         *)
(* There are two images of the file: `cache` is what the running system    *)
(* sees, `disk` what a system crash would leave.  Pieces of the cache      *)
(* reach the disk one at a time and in any order, or all at once in        *)
(* FlushFileBuffers.  The header fits one sector, so it is never torn.     *)
(***************************************************************************)
EXTENDS Integers, Sequences

CONSTANTS Rec,       \* undo records
          RecSize,   \* their length in units
          BlockCap,  \* units of Buffer: array[0..4095] of Byte
          MaxBlocks, \* blocks the volume has room for
          MaxEnd,    \* last block whose end fits EndOffset: UInt32
          MaxRecs,   \* High(Header.NumRecs)
          Apps,      \* the pairs of AppId and InstallMode64Bit
          FlagNames, \* TUninstallLogFlags
          NonSticky, \* GetNonStickyFlags
          Lists,     \* undo lists an installation may have collected
          MaxSaves,  \* bound: installations in a behaviour
          Junk,      \* a block that is absent, torn or fails its CRC
          ZeroHeader,  \* FillChar(Header, SizeOf(Header), 0): fails its CRC
          Corrupt    \* what Load raises instead of returning records

Slots == 1..MaxBlocks
Unit == {u \in Rec \X Nat : u[2] \in 1..RecSize[u[1]]}
Block == {b \in Seq(Unit) : Len(b) <= BlockCap}

Header == [app : Apps, num : Nat, end : 0..MaxBlocks, flags : SUBSET FlagNames]

ASSUME LogFileAssumption ==
  /\ RecSize \in [Rec -> Nat \ {0}]
  /\ BlockCap \in Nat \ {0}
  /\ MaxBlocks \in Nat
  /\ MaxEnd \in Nat
  /\ MaxRecs \in Nat
  /\ NonSticky \subseteq FlagNames
  /\ Lists \subseteq Seq(Rec)
  /\ MaxSaves \in Nat
  /\ ZeroHeader \notin Header
  /\ Corrupt \notin Seq(Rec)
  /\ Junk \notin Block

Image == [exists : BOOLEAN,
          hdr : Header \cup {ZeroHeader},
          blks : [Slots -> Block \cup {Junk}]]

EmptyBlocks == [s \in Slots |-> Junk]
NoImage == [exists |-> FALSE, hdr |-> ZeroHeader, blks |-> EmptyBlocks]
NewImage == [exists |-> TRUE, hdr |-> ZeroHeader, blks |-> EmptyBlocks]
-----------------------------------------------------------------------------
(* What a reader gets out of an image.                                     *)

NoFile == [kind |-> "nofile", hdr |-> ZeroHeader, blks |-> <<>>]
Unreadable == [kind |-> "unreadable", hdr |-> ZeroHeader, blks |-> <<>>]

\* The part of an image a reader can reach: the header, and the blocks
\* before EndOffset.  ReadUninstallLogHeader rejects a bad header CRC.
Stored(img) ==
  IF ~img.exists THEN NoFile
  ELSE IF img.hdr = ZeroHeader THEN Unreadable
  ELSE [kind |-> "log", hdr |-> img.hdr,
        blks |-> [i \in 1..img.hdr.end |->
                    IF i \in Slots THEN img.blks[i] ELSE Junk]]

\* The units FillBuffer can deliver: those of the blocks before the first
\* that fails its CRC.
GoodUnits(blks, end) ==
  LET units[i \in 0..end] == IF i = 0 THEN <<>> ELSE units[i-1] \o blks[i]
      good == {n \in 0..end : \A i \in 1..n : blks[i] # Junk}
  IN  units[CHOOSE n \in good : \A m \in good : m <= n]

\* The `for I := 1 to Header.NumRecs` loop of Load: each FileRec names the
\* DataSize that follows; Corrupt when FillBuffer runs into EndOffset, or
\* when what is read as a FileRec is the middle of some record.
Parse(units, num) ==
  LET read[st \in [left : Nat, pos : Nat, recs : Seq(Rec)]] ==
        IF st.left = 0 THEN st.recs
        ELSE IF st.pos >= Len(units) \/ units[st.pos + 1][2] # 1 THEN Corrupt
        ELSE LET r == units[st.pos + 1][1]
             IN  IF st.pos + RecSize[r] > Len(units) THEN Corrupt
                 ELSE read[[left |-> st.left - 1, pos |-> st.pos + RecSize[r],
                            recs |-> Append(st.recs, r)]]
  IN  read[[left |-> num, pos |-> 0, recs |-> <<>>]]

LoadStored(st) ==
  IF st.kind # "log" THEN Corrupt
  ELSE Parse(GoodUnits(st.blks, st.hdr.end), st.hdr.num)

Load(img) == LoadStored(Stored(img))

\* Mutant: AppId and bitness are not compared.
CanAppendAnyApp(img, a) == img.exists /\ img.hdr # ZeroHeader /\ a \in Apps

CanAppend(img, a) == img.exists /\ img.hdr # ZeroHeader /\ img.hdr.app = a
-----------------------------------------------------------------------------
VARIABLES
  disk, cache,
  pc,        \* where the installing process is
  app,       \* UninstLog.AppId and InstallMode64Bit
  flags,     \* UninstLog.Flags
  append,    \* AppendUninstallData
  created,   \* UninstallDataCreated
  list, cur, off,  \* the undo list, and the next unit WriteBuf copies
  buf,       \* Buffer[0..BufCount-1]
  pos,       \* F.Position, in blocks
  header,    \* the Header variable of Save
  versions,  \* history: contents a crash may legitimately leave
  expected,  \* history: records that belong in the file
  saves      \* counter for MaxSaves

session == <<app, flags, append, created>>
writer == <<list, cur, off, buf, pos, header>>
history == <<versions, expected, saves>>
vars == <<disk, cache, pc, session, writer, history>>

\* Save's locals and the process's globals, gone when either ends.
EndSave ==
  /\ list' = <<>> /\ cur' = 1 /\ off' = 1 /\ buf' = <<>> /\ pos' = 0
  /\ header' = ZeroHeader
EndProcess ==
  /\ pc' = "idle"
  /\ EndSave
  /\ flags' = {} /\ append' = FALSE /\ created' = FALSE
  /\ UNCHANGED app

Init ==
  /\ disk = NoImage /\ cache = NoImage
  /\ pc = "idle"
  /\ app \in Apps /\ flags = {} /\ append = FALSE /\ created = FALSE
  /\ list = <<>> /\ cur = 1 /\ off = 1 /\ buf = <<>> /\ pos = 0
  /\ header = ZeroHeader
  /\ versions = {NoFile} /\ expected = <<>> /\ saves = 0
-----------------------------------------------------------------------------
(* GenerateUninstallInfoFilename, for the installations that come to use   *)
(* this file name.                                                         *)

StartSession(a, fl, app_) ==
  /\ pc = "idle" /\ saves < MaxSaves
  /\ pc' = "installing"
  /\ app' = a /\ flags' = fl /\ append' = app_
  /\ saves' = saves + 1

\* ReserveDataFile: CREATE_NEW an empty file.  Creating, emptying and
\* deleting a file are metadata operations, durable when they return.
ReserveDataFile(a, fl) ==
  /\ StartSession(a, fl, FALSE)
  /\ ~cache.exists
  /\ cache' = NewImage /\ disk' = NewImage
  /\ created' = TRUE
  /\ versions' = {Unreadable} /\ expected' = <<>>
  /\ UNCHANGED writer

\* An existing log of the same application is appended to (lmAppend) or
\* overwritten (lmOverwrite).
UseExistingDataFile(a, fl) ==
  /\ CanAppend(cache, a)
  /\ \E app_ \in BOOLEAN : StartSession(a, fl, app_)
  /\ created' = FALSE
  /\ UNCHANGED <<disk, cache, writer, versions, expected>>
-----------------------------------------------------------------------------
(* TUninstallLog.Save.                                                     *)

StartWriting(l) ==
  /\ pc = "installing"
  /\ pc' = "writing"
  /\ list' = l /\ cur' = 1 /\ off' = 1 /\ buf' = <<>>
  /\ UNCHANGED session

\* fdCreateAlways, and the header of zeros.
SaveCreate(l) ==
  /\ StartWriting(l)
  /\ ~append
  /\ cache' = NewImage /\ disk' = NewImage
  /\ header' = ZeroHeader /\ pos' = 0
  /\ versions' = {Unreadable} /\ expected' = <<>>
  /\ UNCHANGED saves

\* Mutant: the seek to EndOffset is forgotten.
SaveAppendAtStart(l) ==
  /\ StartWriting(l)
  /\ append
  /\ header' = cache.hdr /\ pos' = 0
  /\ UNCHANGED <<disk, cache, history>>

\* fdOpenExisting, read the header, seek to EndOffset and truncate there.
SaveAppend(l) ==
  /\ StartWriting(l)
  /\ append
  /\ header' = cache.hdr /\ pos' = cache.hdr.end
  /\ cache' = [cache EXCEPT !.blks =
                 [s \in Slots |-> IF s > cache.hdr.end THEN Junk
                                    ELSE cache.blks[s]]]
  /\ UNCHANGED <<disk, history>>

\* Mutant: NumRecs counts from zero when appending.
HeaderNumForgotten == 0

HeaderNum == IF header = ZeroHeader THEN 0 ELSE header.num
HeaderFlags == IF header = ZeroHeader THEN {} ELSE header.flags

\* A buffer becomes a block at F.Position.
WriteBlock(b) ==
  /\ pos < MaxBlocks
  /\ cache' = [cache EXCEPT !.blks[pos + 1] = b]
  /\ pos' = pos + 1
  /\ buf' = <<>>

\* Mutant: the buffer is flushed one unit late.
WriteUnitLateFlush ==
  /\ pc = "writing" /\ cur <= Len(list)
  /\ LET unit == <<list[cur], off>>
         last == off = RecSize[list[cur]]
     IN  /\ IF last THEN cur' = cur + 1 /\ off' = 1
                    ELSE cur' = cur /\ off' = off + 1
         /\ IF Len(buf) = BlockCap
            THEN WriteBlock(buf)
            ELSE buf' = Append(buf, unit) /\ UNCHANGED <<cache, pos>>
  /\ UNCHANGED <<disk, pc, session, list, header, history>>

\* One turn of WriteBuf's loop: copy a unit of the current record, and
\* Flush when the buffer is full.  The last unit of a record is followed
\* by the NumRecs range check.
WriteUnit ==
  /\ pc = "writing" /\ cur <= Len(list)
  /\ LET unit == <<list[cur], off>>
         last == off = RecSize[list[cur]]
         more == Append(buf, unit)
     IN  /\ last => HeaderNum + cur - 1 < MaxRecs
         /\ IF last THEN cur' = cur + 1 /\ off' = 1
                    ELSE cur' = cur /\ off' = off + 1
         /\ IF Len(more) = BlockCap
            THEN WriteBlock(more)
            ELSE buf' = more /\ UNCHANGED <<cache, pos>>
  /\ UNCHANGED <<disk, pc, session, list, header, history>>

\* The Flush after the loop.
FlushLast ==
  /\ pc = "writing" /\ cur > Len(list) /\ buf # <<>>
  /\ WriteBlock(buf)
  /\ UNCHANGED <<disk, pc, session, list, cur, off, header, history>>

\* Mutant: no FlushFileBuffers before the header is written.
SealWithoutFlush ==
  /\ pc = "writing" /\ cur > Len(list) /\ buf = <<>>
  /\ pos <= MaxEnd
  /\ header' = [app |-> app, num |-> HeaderNum + Len(list), end |-> pos,
                flags |-> (HeaderFlags \ NonSticky) \cup flags]
  /\ versions' = versions \cup {Stored(cache)}
  /\ pc' = "header"
  /\ UNCHANGED <<disk, cache, session, list, cur, off, buf, pos, expected,
                 saves>>

\* The new header is made up in memory, and FlushFileBuffers puts on disk
\* everything written before it.
SealAndFlush ==
  /\ pc = "writing" /\ cur > Len(list) /\ buf = <<>>
  /\ pos <= MaxEnd
  /\ header' = [app |-> app, num |-> HeaderNum + Len(list), end |-> pos,
                flags |-> (HeaderFlags \ NonSticky) \cup flags]
  /\ disk' = cache
  /\ versions' = {Stored(cache)}
  /\ pc' = "header"
  /\ UNCHANGED <<cache, session, list, cur, off, buf, pos, expected, saves>>

\* The write of the new header over the old one, and the return of Save.
WriteHeader ==
  /\ pc = "header"
  /\ cache' = [cache EXCEPT !.hdr = header]
  /\ versions' = versions \cup {Stored(cache')}
  /\ expected' = expected \o list
  /\ EndProcess
  /\ UNCHANGED <<disk, saves>>

\* Any of the writes may raise: the volume is full, the record count or
\* the offset is out of range, or the device fails.  A failed WriteBuffer
\* leaves its block torn.
SaveFails ==
  /\ pc \in {"writing", "header"}
  /\ cache' = IF pc = "writing" /\ pos < MaxBlocks
              THEN [cache EXCEPT !.blks[pos + 1] = Junk] ELSE cache
  /\ pc' = "failed"
  /\ EndSave
  /\ UNCHANGED <<disk, session, history>>
-----------------------------------------------------------------------------
(* PerformInstall's exception handler, the uninstaller, and the system.    *)

RemoveFile ==
  /\ cache' = NoImage /\ disk' = NoImage
  /\ versions' = {NoFile} /\ expected' = <<>>

\* The installation is cancelled or fails before it comes to Save.
InstallFails ==
  /\ pc = "installing" /\ pc' = "failed"
  /\ UNCHANGED <<disk, cache, session, writer, history>>

\* Rolling back deletes the data file if this installation created it.
Rollback ==
  /\ pc = "failed"
  /\ EndProcess
  /\ IF created
     THEN RemoveFile /\ UNCHANGED saves
     ELSE UNCHANGED <<disk, cache, history>>

\* The uninstaller loads the log, undoes it and deletes the file.
Uninstall ==
  /\ pc = "idle" /\ Load(cache) # Corrupt
  /\ RemoveFile
  /\ UNCHANGED <<pc, session, writer, saves>>

\* The lazy writer puts one piece of the cache on disk.
WriteBack ==
  /\ cache.exists
  /\ \/ disk' = [disk EXCEPT !.hdr = cache.hdr]
     \/ \E s \in Slots : disk' = [disk EXCEPT !.blks[s] = cache.blks[s]]
  /\ UNCHANGED <<cache, pc, session, writer, history>>

\* The system stops; what is on disk is all there is.
Crash ==
  /\ cache' = disk
  /\ EndProcess
  /\ versions' = {Stored(disk)}
  /\ expected' = IF Load(disk) = Corrupt THEN <<>> ELSE Load(disk)
  /\ UNCHANGED <<disk, saves>>

Next ==
  \/ \E a \in Apps, fl \in SUBSET FlagNames :
       ReserveDataFile(a, fl) \/ UseExistingDataFile(a, fl)
  \/ \E l \in Lists : SaveCreate(l) \/ SaveAppend(l)
  \/ WriteUnit \/ FlushLast \/ SealAndFlush \/ WriteHeader \/ SaveFails
  \/ InstallFails \/ Rollback \/ Uninstall
  \/ WriteBack \/ Crash

Spec == Init /\ [][Next]_vars
-----------------------------------------------------------------------------
(* Properties.                                                             *)

PCs == {"idle", "installing", "writing", "header", "failed"}

\* Types of the two images and of Save's variables; the buffer is never left
\* full, the writer stays within its record and within the volume.
TypeOK ==
  /\ disk \in Image /\ cache \in Image
  /\ pc \in PCs
  /\ app \in Apps /\ flags \in SUBSET FlagNames
  /\ append \in BOOLEAN /\ created \in BOOLEAN
  /\ list \in Seq(Rec)
  /\ cur \in 1..(Len(list) + 1)
  /\ off \in Nat \ {0} /\ (cur <= Len(list) => off <= RecSize[list[cur]])
  /\ buf \in Seq(Unit) /\ Len(buf) < BlockCap
  /\ pos \in 0..MaxBlocks
  /\ header \in Header \cup {ZeroHeader}

\* Save is atomic against a system crash: whatever has reached the disk, a
\* reader gets the content of a completed Save or the content from before
\* it, never a new header over blocks that are not all there.  This is what
\* FlushFileBuffers before the header write is for.
DiskIsAVersion == Stored(disk) \in versions

\* Whenever the header is valid, also half-way through a later append or
\* after one that failed, Load returns the records of all the installations
\* that were saved, in order, however they straddle the blocks.
LogReadsBack ==
  cache.exists /\ cache.hdr # ZeroHeader => Load(cache) = expected

\* A readable log becomes unreadable only by an overwriting Save (lmOverwrite)
\* or by being deleted; appending, failing and crashing never do it.
OnlyOverwritingDamages ==
  [][disk # disk' /\ Load(disk) # Corrupt /\ Load(disk') = Corrupt =>
       \/ pc = "installing" /\ pc' = "writing" /\ ~append
       \/ ~disk'.exists]_vars

\* Why: the inductive invariant behind DiskIsAVersion and StoreSpec.  The
\* blocks a valid header covers were on disk before that header was written
\* anywhere, and nothing writes to them again.
Precedes(h, k) ==
  /\ k.app = h.app
  /\ h.flags \ NonSticky \subseteq k.flags
  /\ h.num <= k.num
  /\ h.end <= k.end

OnDisk(n) == \A s \in 1..n : disk.blks[s] = cache.blks[s]

ImagesInv ==
  /\ disk.exists = cache.exists
  /\ disk.hdr # ZeroHeader =>
       cache.hdr # ZeroHeader /\ Precedes(disk.hdr, cache.hdr)
  /\ cache.hdr # ZeroHeader => OnDisk(cache.hdr.end)

WriterInv ==
  /\ pc = "installing" /\ append =>
       cache.hdr # ZeroHeader /\ cache.hdr.app = app
  /\ pc = "writing" =>
       /\ header = cache.hdr
       /\ header # ZeroHeader => header.app = app /\ header.end <= pos
  /\ pc = "header" =>
       /\ header # ZeroHeader /\ OnDisk(header.end)
       /\ cache.hdr # ZeroHeader => Precedes(cache.hdr, header)

VersionsInv == {Stored(disk), Stored(cache)} \subseteq versions

LogInv == TypeOK /\ ImagesInv /\ WriterInv /\ VersionsInv

\* The file as the abstract store of committed log contents.
Store == INSTANCE UninstallLogStore WITH store <- Stored(disk)
StoreSpec == Store!Spec
=============================================================================
