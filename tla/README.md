# Inno Setup: a TLA+ verification project

This directory holds TLA+ models of the parts of Inno Setup whose behaviour is
decided by ordering, failure and shared state rather than by data: how an
installation is recorded so that it can be taken back, and how compressed data
is produced and consumed. Paths below are relative to the root of the
repository; most of the code named here is in `src/Projects/Src/`.

1. [The system](#1-the-system)
2. [The modules and the code](#2-the-modules-and-the-code)
3. [The runs](#3-the-runs)
4. [The proofs](#4-the-proofs)
5. [Where the code and its documentation disagree](#5-where-the-code-and-its-documentation-disagree)
6. [What is not modelled](#6-what-is-not-modelled)
7. [The plan](#7-the-plan)

## 1. The system

Inno Setup compiles a script to a `Setup.exe`. The compiler stores the files in
compressed chunks, cut into disk slices, through worker threads or processes.
Setup extracts and installs them, recording every change as an *undo record*;
if it fails it undoes the records at once, otherwise it saves them to
`unins000.dat`, from which the uninstaller undoes them later, perhaps after the
log was appended to by many installations. Parts that need other rights or
another bitness run in processes of their own and are reached by messages or
pipes; an uninstaller deletes itself through a copy it runs as a second process.

| Component | State it keeps | Operations | Interacts with | What makes it correct |
|---|---|---|---|---|
| **Uninstall log file** `Setup.UninstallLog.pas` | the file: header sector, CRC-protected blocks; `Buffer`, `Header`, the position while saving | `Save`, `Load`, `CanAppend`, reservation, deletion | the volume and its cache; installation and uninstaller | a crash at any point leaves the old or the new log; what was saved is read back |
| **Installation and rollback** `Setup.Install.pas`, `Setup.InstFunc.pas` | undo list, `UninstallDataCreated`, per entry `TempFile`, `DestFileExistedBefore`, ... | `CreateDirs`, `ProcessFileEntry` with retry, ignore and cancel, `Save`, rollback | file system, `SharedDLLs`, `PendingFileRenameOperations`, the log file, the 64-bit helper | a rollback leaves nothing and takes nothing that was there before |
| **Uninstallation** `Setup.UninstallLog.pas`, `Setup.Uninstall.pas` | list of records, `DirsNotRemoved`, `RestartDeleteDirList` | `PerformUninstall` steps 1 to 3, `DeleteUninstallDataFiles`, retry of directories | same as above | shared files stay while somebody counts on them; no empty directory stays behind |
| **LZMA compressor** `Compression.LZMACompressor.pas`, `islzma_exe.c` | two ring buffers and flags in shared memory, seven events, a timer | `Compress`, `Finish`, `Free`; the worker's `Read`, `Write`, `ProgressMade` callbacks | compiler above, LZMA SDK below, in another thread or process | no deadlock, no lost or repeated data, no signal left over, no call that hangs when the other side dies |
| **LZMA2 block threads** `src/Components/Lzma2/MtCoder.c`, `Lzma2Enc.c` | a ring of blocks, a list of buffers, a semaphore, events; which thread writes | `MtCoder_Code`, `ThreadFunc2` | the worker's callbacks, which allow one thread in each | blocks leave in the order they came, nobody waits for ever |
| **Chunk stream** `Compiler.CompressionHandler.pas`, `Setup.FileExtractor.pas` | slice and chunk positions, `FNeedReset`, decompressor | `NewChunk`, `CompressFile`, `EndChunk`; `SeekTo`, `DecompressFile` | the compressors; the user, who changes disks | what is read at a location is what was written there, across slices, and after an error |
| **Spawn server and client** `Setup.SpawnServer.pas`, `Setup.SpawnClient.pas` | sequence number, call status, result | `CallSpawnServer`, `HandleExec`, queries, `ExitNow` | an unelevated and an elevated process, by window messages | a client gets the result of its own call, exactly one execution per call |
| **64-bit helper** `Setup.Helper.pas`, `Helper.c` | sequence number, pipe, process | `Call`, start, stop | Setup and a 64-bit process, by a pipe | a response belongs to the request it answers, also after an aborted call |
| **Two-phase uninstaller and loader** `Setup.Uninstall.pas`, `SetupLdr.dpr` | the copy in the temporary directory, its mark, the first phase's window, the log file held open | `RunFirstPhase`, `RunSecondPhase`, `DeleteUninstallDataFiles`, `DeleteResidualTempUninstallDirs` | two or three processes of the same program and other uninstallers | the original can be deleted, the copy does not stay behind |
| **Debugger protocol** `Setup.DebugClient.pas`, `IDE.MainForm.pas` | `Debugging`, `DebugContinue`, paused state | notify, pause, continue, evaluate, detach | Setup and the IDE, by window messages | no message leaves either side waiting |
| **Wizard navigation**, **component and task trees** `Setup.WizardForm.pas`, `NewCheckListBox.pas` | current page, check states | Back, Next, skip; `CheckItem` | the script's event functions | pages are visited in order; parents agree with their children |
| **Preprocessor**, **expressions** `ISPP.*.pas`, `SimpleExpression.pas` | conditional stack, identifier scopes, file stack | directives; evaluation | the script compiler | nesting is balanced; evaluation agrees with the grammar |
| **Everything else** | | | | the script compiler, downloads and signatures, Pascal scripting, the IDE, vendored libraries: see section 6 |

Which behaviours are hard:

* *Crashes.* `Save` writes a file that must stay readable; the installer and the
  uninstaller may be killed between a change and its record.
* *Partial failure.* Every call of `ProcessFileEntry` may raise, after which the
  user chooses Retry, Ignore or Abort: the entry may be half done, and the file
  it finds on the second attempt may be its own.
* *Order.* Records are undone newest first in two passes with different rules
  for the installer and the uninstaller; directories can only be removed when
  empty, and the log is inside one of them.
* *Counters.* `SharedDLLs` is shared with all other software; every increment
  must be given back once.
* *Positions kept twice.* The compiler and Setup count slices, chunks, offsets
  and the key stream independently, cut the data at different points, and Setup
  carries its own position from one call to the next, through failures.
* *Concurrency.* The compressor and its worker share memory without a lock, and
  wait on each other by auto- and manual-reset events; either may die. Inside
  the encoder, block threads share a ring and take turns to read and to write.
* *Other processes.* A call to the helper or to the spawn server may outlive its
  caller, its callee or the caller's patience, and be made from within another.
  The phases of an uninstaller hand a directory and a file to each other while
  other uninstallers clean up behind them.

The hazards are listed one by one, with the line where each bites and the
properties that would catch it, under `hazards` in `PROJECT.json`.

## 2. The modules and the code

| Module | What it is |
|---|---|
| `UninstallLogFile` | the log file against a disk with a volatile cache |
| `UninstallLogStore` | what the log file promises: an abstract store of committed logs; `UninstallLogFile!Store` is the refinement mapping |
| `UninstallLogFileProofs` | theorems about `UninstallLogFile`, with the refinement |
| `InstallTransaction` | installation, rollback, uninstallation and restarts of several applications on one machine |
| `InstallTransactionProofs` | theorems about `InstallTransaction` |
| `LZMACompressor` | the compressor, its worker and the encoder |
| `CompressedStream` | what a compressor promises `TCompressionHandler`; `LZMACompressor!Stream` is the refinement mapping |
| `LZMACompressorProofs` | theorems about `LZMACompressor`, with the refinement |
| `CompressionHandler` | the compiler's writer: files into chunks, chunks onto disk slices, and the file location entries |
| `FileExtractor` | Setup's reader of what `CompressionHandler` (which it extends) has written |
| `FileExtractorProofs` | theorems about both |
| `MtCoder` | the block threads of the LZMA2 encoder |
| `OrderedBlocks` | what a block coder promises its caller; `MtCoder!Ordered` is the refinement mapping |
| `MtCoderProofs` | theorems about `MtCoder`, with the refinement |
| `RemoteCall` | what a call to another process promises: executed at most once, answered by its own execution |
| `HelperPipe` | Setup and the 64-bit helper; implements `RemoteCall` |
| `HelperPipeProofs` | theorems about `HelperPipe`, with the refinement |
| `SpawnProtocol` | Setup and the spawn server; implements `RemoteCall` |
| `SpawnProtocolProofs` | theorems about `SpawnProtocol`, with the refinement |
| `UninstallPhases` | the processes of concurrent uninstallers and their temporary directories |
| `UninstallPhasesProofs` | theorems about `UninstallPhases` |
| `MC...` | instances for TLC |

`map` in `PROJECT.json` names, for every definition, the lines it stands for.
Definitions whose comment begins with "Mutant" are variants of the definition
next to them with a plausible bug; no specification uses them. They are there so
that each property can be seen to fail.

### UninstallLogFile

A log is a header sector and then blocks of up to 4096 bytes, each under a CRC.
The model counts in *units*: a record is `RecSize[r]` units, the first of which
is its `TUninstallFileRec`, and a block holds at most `BlockCap` of them. What
matters is that records are of different lengths, straddle blocks, and that an
append begins a new block in the middle of the file.

| Model | Code |
|---|---|
| `cache`, `disk` | the file as the system sees it, and as a crash would leave it |
| `app`, `flags`, `append`, `created` | `UninstLog.AppId`/`InstallMode64Bit`, `Flags`, `AppendUninstallData`, `UninstallDataCreated` |
| `list`, `cur`, `off`, `buf`, `pos`, `header` | the list, `WriteBuf`'s progress, `Buffer`, `F.Position`, `Header` in `Save` |
| `ReserveDataFile`, `UseExistingDataFile` | `GenerateUninstallInfoFilename` |
| `SaveCreate`, `SaveAppend`, `WriteUnit`, `FlushLast`, `SealAndFlush`, `WriteHeader`, `SaveFails` | `TUninstallLog.Save`, from its opening of the file to the final header write |
| `Load`, `CanAppend` | the functions of the same names, as operators on an image |
| `InstallFails`, `Rollback`, `Uninstall` | the exception handler of `PerformInstall`; the uninstaller's load and delete |
| `WriteBack`, `Crash` | external: the lazy writer, a power failure |

A torn, absent or corrupt block is `Junk`: a CRC is taken to detect it. The
header fits a sector and is never torn. `FlushFileBuffers` is taken to work (its
result is ignored by the code; the mutant `SealWithoutFlush` shows what
happens where it does not). Creating, truncating and deleting are metadata
operations and durable. `versions` and `expected` are history variables: the
contents a crash may leave, and the records that were saved.

### InstallTransaction

Sessions run one after the other, with any application installing again (which
appends to its log) or uninstalling at any time.

| Model | Code |
|---|---|
| `fs`, `temps`, `dirs` | destination files (with the session that wrote them), temporary files, directories |
| `count`, `pend` | `SharedDLLs`, `PendingFileRenameOperations` |
| `dat`, `litter` | each application's `unins???.dat` (saved records, or empty and reserved), and reserved ones orphaned by a killed Setup |
| `list`, `created` | the undo list, `UninstallDataCreated` |
| `tmp`, `left`, `checked`, `existed`, `exists`, `onRestart` | `TempFile`, `TempFileLeftOver`, `CheckedDestFileExistedBefore`, `DestFileExistedBefore`, `DestFileExists`, `ReplaceOnRestart` |
| `uninstaller`, `notRemoved`, `restartDirs` | `CallFromUninstaller`, `DirsNotRemoved`, `RestartDeleteDirList` |
| `StartInstall`, `CreateDirs`, `GenerateUninstallInfoFilename` | `PreviousInstallCompleted`; `CreateDirs`/`MakeDir`; the function of that name |
| `BeginEntry` ... `FinishEntry`, `EntryRaises`, `AskRetry`, `AskIgnore` | `ProcessFileEntry` from `Retry` to its end, its `try..except` and `try..finally` |
| `Cancel`, `Rollback`, `SaveLog` | `EAbort`, the exception handler and the `Save` of `PerformInstall` |
| `Step2`, `UndoDir`, `UndoCount`, `UndoFile`, `UndoFileRaises`, `UndoFileInUse` | `PerformUninstall`, steps 2 and 3 |
| `DeleteUninstallDataFiles`, `ProcessDirsNotRemoved` | the callback, and `LoggedProcessDirsNotRemoved` |
| `Restart`, `Crash` | external: Windows carries out the pending operations; a process is killed |

Whether an existing file is replaced (versions, time stamps, hashes, the user's
answer) is a nondeterministic choice in `BeginEntry`. Every failing system call
takes one of `MaxFaults`. Three history variables state the properties: `start`
(the machine when the process began), `excused` (files whose record could not be
made or undone, because a system call failed at that point) and `slack`
(references in `SharedDLLs` no log accounts for: those of files that were there
before, and those whose decrement failed). The log's file format is
`UninstallLogFile`'s subject: here `SaveLog` is one step, and always appends.

### LZMACompressor

A ring buffer operation is two steps, because `Count` is the only variable both
sides write: load it and move the data, then publish. Events and waits are steps
of their own. `InterlockedExchangeAdd` and the barriers the code places are
taken to give sequential consistency.

| Model | Code |
|---|---|
| `inRing`, `outRing`, `noMoreInput`, `encodeResult` | `TLZMACompressorSharedData` |
| `ev`, `timer` | the seven events of `TLZMACompressorSharedEvents`; `FProgressTimer` |
| `m` | the main thread: where it is in `DoCompress`/`DoFinish`, `BytesLeft`, `BytesWritten`, `FEncodeStarted`, `FEncodeFinished`, `FProgressTimerSignaled` |
| `wpc`, `rd`, `wr` | `WorkerThreadProc`, and the `FillBuffer` calls for reading and for writing |
| `mt`, `enc` | external: the encoder, and whether it reads and writes from two threads |
| `Compress`, `Finish`, `Free` | the caller |
| `SetNoMoreInput` ... `CheckResult`, `Join` | `DoCompress`, `DoFinish`, `FlushOutputBuffer`, `SatisfyWorkerWait...`, `WaitForWorkerEvent`, `UpdateProgress`, `Destroy` |
| `WorkerThreadProc`, `EndOfInput`, `ReadRing`, `ReadDone`, `WaitForInput`, `WriteRing`, `WriteDone`, `WaitForOutput` | the worker: `FillBuffer`, `WakeMainAndWaitUntil` |
| `EncoderReads`, `EncoderWrites`, `EncoderReturns`, `EncoderFails` | external: `LZMA_Encode` |
| `Tick`, `WorkerDies`, `CompilerDies` | external: the timer; a killed process |

Data are named by their position in the stream, and the compressed form of a
unit has the length of the unit: compression only changes how many bytes each
side moves, and the encoder may hold back and split its output as it likes.
`Ended` is not a step of the program: it keeps a finished system from being
reported as a deadlock, so that the check for deadlock stays on.

### CompressionHandler and FileExtractor

The compiler runs to its end (`cpc = "compiled"`) before Setup starts; what
connects the two is `slices` and `fl`, the files on disk. A *unit* stands for a
run of bytes. A unit of a compressed stream records the codec, its position in
the stream, the unit it stands for and its place in the key stream, so that
decoding with the wrong codec, from the wrong place or with the wrong key is
seen. A codec yields one unit for each it reads and ends the stream with
`EndMark`; whatever its buffering, a compressor may hold back any part of its
output until `Finish`. Offsets count from the end of the slice's header, whose
`TotalSize` is `sealed`.

| Model | Code |
|---|---|
| `script` | `Compression` with its level, `SolidCompression`, `DiskSpanning`, the room `ReserveBytesOnSlice` leaves on the first disk, the files with their flags |
| `slices`, `fl` | the slice files; `FileLocationEntries` |
| `ch` | `TCompressionHandler`: `FSliceBytesLeft`, `FChunkStarted`, `FChunkFirstSlice`, `FChunkStartOffset`, `FChunkBytesRead`, `FChunkBytesWritten`, `FChunkEncrypted`, the compressor's class, what it holds back, and the rest of the buffer `WriteProc` is writing |
| `FactoryClass`, `DecompClass`, `DecoderLoaded` | `Compiler.CompressionFactory`; `DecompClasses`; the DLLs Setup loads |
| `Levels`, `CompressorRaises` | the levels `Compression` allows with each method; `TLZMACompressor.InitializeProps`, which raises in `NewChunk` for a level it does not know |
| `MustEndChunk`, `EndChunk`, `FinalizeChunk`, `NewChunk`, `AddFile`, `NextFile`, `Finish` | `CompressFiles` with `TCompressionHandler.NewChunk`, `EndChunk`, `Finish` |
| `CompressFile`, `WriteProc` | one turn of the loop of each |
| `x` | `TFileExtractor`: `FOpenedSlice`, the position in `FSourceF`, `FChunk...`, `FNeedReset`, `FCryptContext` |
| `dec` | the two decompressors: input buffer, position in the stream |
| `call` | the extraction under way: the local variables of `SeekTo`, `Discard`, `DecompressFile`, `DecompressInto` and `ReadProc` |
| `Extract`, `RestartChunk`, `Seek` | `SeekTo`, `OpenSlice` |
| `NextPiece`, `Refill`, `Decode`, `PieceDone`, `LoopEnds` | the loops of `Discard` and `DecompressFile`, `DecompressBytes` and a decompressor's `DecompressInto` |
| `ReadRest`, `ReadNextSlice`, `ReadFails` | `ReadProc` |

A call of the extractor can be ended by a disk the user does not provide
(`refused`), a failed read (`ioerror`), a slice or a chunk with a wrong header
or data that do not decode (`corrupted`), and the user's cancel or a failed
write of the destination (`cancelled`). Damage in the middle of a stream
(`ReadRest`) is noticed by the decompressor or goes on as `Garbage`, which
`VerifyChecksum` finds. `last`, `call.cause` and `tainted` are history variables,
for the properties only (the guard of `Decode` uses `tainted` to allow damage to
go unnoticed only where there is some).

### MtCoder

`MtCoder_Code` runs with any number of threads, blocks and buffers. A step ends
where another thread may look: at a wait, at the end of a critical section,
before and after a callback; the comparison at the end of `ThreadFunc`, which is
under no lock, is a step of its own (`Count`).

| Model | Code |
|---|---|
| `caller` | `LZMA_Encode`, which writes the properties, then `MtCoder_Code` and `MtCoder_Free` |
| `threads` | `CMtCoderThread` and the locals of `ThreadFunc2`: `bi`, `bufIndex`, `res`, `finished`, `wi`, and `numFinished` of `ThreadFunc` |
| `startEvent`, `readEvent`, `finishedEvent`, `blocksSemaphore` | the objects of these names |
| `stopReading`, `readProcessed`, `blockIndex`, `numStartedThreads` | fields used with `readEvent` taken |
| `writeIndex`, `ReadyBlocks`, `freeBlocks`, `blocks` | fields used in the critical section `cs`; `freeBlockList` as a sequence |
| `Encode`, `WriteProps`, `InitCode`, `StartFirst`, `WaitFinished`, `StopThread`, `JoinThread` | the caller |
| `Wake`, `EnterRead`, `Read`, `TakeBlock`, `TakeBuffer`, `Code`, `Publish`, `Write`, `Release`, `Signal` | `ThreadFunc2` |
| `Finish`, `Count` | the end of `ThreadFunc`'s loop |

A block is its number in the input; the one that ends the stream is short and
may be empty. Any call may fail with one of `Errors`: reading, memory, creating
a thread, coding, writing. `Dawdles` says whether a thread may be held up between
its count and its comparison until another call of `LZMA_Encode` begins: section
5 has what happens then, and the run that checks the properties excludes it.

### RemoteCall, HelperPipe and SpawnProtocol

`RemoteCall` is the promise Setup relies on when something is done by another
process. Both protocols keep the variables `outcome`, `runs`, `answer` and
`given` as history, which is the whole of the refinement mapping; what could
break it is that a call is repeated, executed after it was given up, or given the
answer of another.

In `HelperPipe`, Setup is `pc` with the fields of `THelper` (`running`,
`needsRestarting`, `seq`, `request`, `response`); `toHelper` and `toSetup` are the
message in the pipe; `proc` and `work` are the helper, which `Stop` may terminate
and which may die. `after` is where `Stop` returns to. The sequence number starts
at `GetTickCount` and wraps.

| Model | Code |
|---|---|
| `CallHelper`, `Return`, `CallRaises` | `GrantPermission`, `RegisterTypeLibrary` |
| `Call`, `Start`, `Transact`, `GotResponse`, `PipeBroken`, `CreateEventFails`, `Raise`, `HandledAt` | `Call`, `Start`, `InternalCall` and their exception handlers |
| `StopThen`, `Terminate`, `Stopped`, `StopHelper` | `Stop`, `StopHelper` |
| `ReadRequest`, `ProcessRequest`, `WriteResponse`, `ReadFails`, `ExitProcess` | `Main` of `Helper.c` |

In `SpawnProtocol`, `stack` holds the calls of the client, one within the other,
because a client that waits processes messages and one of these may make a call;
`sent` and `reply` are a `SendMessage` under way, `posted` is `ExitNow` in the
queue, `fresh` says whether `MsgWaitForMultipleObjects` would see something new.
`srv` is where the server is: in the loop of `RespawnSelfElevated`, in
`HandleExec`, or in `HandleProcessWait`, which processes messages too.

| Model | Code |
|---|---|
| `CallSpawnServer`, `QueryStatus`, `GotReply` | `CallSpawnServer`, `QuerySpawnServer` |
| `StopSpawnServerProcess`, `ClientEnds` | `StopNonElevatedSetupProcesses`, the end of Setup |
| `HandleExec` (`Refuse`, `Accept`), `Exec`, `ExecRaises`, `JobPumped`, `JobWaited`, `ExecReturns` | `TSpawnServer.HandleExec`, `InstExec`, `HandleProcessWait` |
| `HandleQuery`, `HandleExitNow` | `WndProc` |
| `Pumped`, `CheckExitNow`, `Waited`, `ServerEnds` | `RespawnSelfElevated` |

An error before `HandleExec` replies to the message (data it cannot read, no memory, a
current directory it cannot change to) is answered with a code of its own, on which
the client raises. The model has one step for it and for an error after the reply,
`ExecRaises`, which the client learns of from its query: in both cases the program
was not run, the server is free again, and the call fails for the same cause.

The sequence number is a word; the run has it modulo 4, which is more than the
calls that are made.

### UninstallPhases

A run of an uninstaller is up to three processes: `initial` (only if the first
phase has to be elevated), `first` and `second`, each a program counter. `log`,
`holder` and `installed` are the application's `.dat`, the process that has it
open, and the uninstaller itself; `temp` is the directory of the run's copy, with
the copy, the mark (`_unins-done.tmp`) and whether it was modified recently;
`handle`, `todo` and `sweep` are `DeleteResidualTempUninstallDirs`.

| Model | Code |
|---|---|
| `Start`, `InitialEnds` | `RespawnFirstPhaseIfNeeded`, `RespawnSelfElevated` |
| `CreateTemp`, `CopySelf`, `Exec`, `FirstPhaseQuits`, `SecondPhaseDied`, `WaitFails`, `DeleteCopy`, `RemoveTemp` | `RunFirstPhase` |
| `OpenLog`, `CloseLog`, `ReopenLog`, `EndSweep`, `Perform`, `Abort` | `RunSecondPhase` |
| `TruncateLog` ... `DeleteUninstaller` | `DeleteUninstallDataFiles` |
| `OpenDir`, `SweepExe`, `SweepDone`, `SweepDir` | `TryDeleteUninstallDir` |
| `Age`, `Kill` | external: five minutes go by; a killed process |

What the processes ask of Windows may fail, and almost everywhere the code logs
that at most, and goes on: the truncation and the deletion of the log, the
mark, the wait of the first phase and that of the second, the deletion of the copy,
of the mark, of the directory and of the uninstaller, the opening of a directory.
Such an action has a disjunct for the failure, which is a `Fault` as a killed
process is. Where a failure is the end of a process (no temporary directory,
no copy, no access to the log) it is free.

Two assumptions: `Age` does not happen to a directory whose first phase has yet to
begin copying, so this takes less than the five minutes of `IsRecentFileTime`; and
a message that is posted to a window which exists arrives. `raced`, `killed`,
`copyLeft` and `markLeft` are history variables; the last two are the runs of which
a failure may have left the copy without the mark, or the mark without the copy.

## 3. The runs

| Run | Instance | What it shows |
|---|---|---|
| `log_file` | two records (of 1 and 3 units), blocks of 2 units, room for 5 blocks, `EndOffset` up to 4, `NumRecs` up to 4, two applications, one sticky and one non-sticky flag, 3 installations | `TypeOK`, the inductive invariant `LogInv`; `DiskIsAVersion`, `LogReadsBack`, `OnlyOverwritingDamages`; `StoreSpec`: the file implements the abstract store |
| `shared_files` | two applications sharing a file, one of them with a second one it never removes; 2 installations, 2 faults, Setup may be killed | `NoReferencesLeaked`, `RollbackLeavesNothing`, `RollbackSparesOthers`, `SharedFileKept` |
| `uninstall_dirs` | two applications in the directory of one vendor, nested directories, files that may be in use; 2 installations, 1 fault | `UninstallLeavesNoEmptyDir`, `RestartRemovesDirs` |
| `lzma` | buffers of 2 units, calls of 1 or 2, two streams of up to 3, 1 fault; worker thread or process | `InputInOrder`, `NoStaleWakeUp`, `RaisesForACause`, no deadlock; `StreamSpec`: the compressor implements the abstract stream; `CallsReturn`, `WorkerEnds`, under `FairSpec` |
| `chunk_stream` | 17 scripts of one to three files of up to 3 units, slices of 4, buffers of 2, first disks with room for 0 to 4; any extractions with any failures | `InSync`, `ExtractsTheOriginal`, `FailsForACause`, `RetryRecovers`, `AsksForOwnSlices`, no deadlock |
| `mtcoder` | 2 threads, 3 blocks, 3 buffers, inputs of up to 3 full blocks, 2 calls on one coder, 1 fault | `OneThreadInside`, `BuffersApart`; `CoderSpec`: the threads implement `OrderedBlocks`; `CodeReturns` |
| `helper` | 3 calls of two kinds, 2 faults | `Synchronous`, `ForeignCodeIsolated`, `FailsForOwnFault`; `CallSpec`: the pipe implements `RemoteCall`; `CallsReturn` |
| `spawn` | 3 calls, up to two of them nested, 1 fault, answers that differ in success, low and high word | `FailsForACause`; `CallSpec`: the messages implement `RemoteCall`; `CallsReturn`, `ServerStops` |
| `phases` | 2 runs, of one application or of two, each elevated or not, 1 killed process or failed call | `CopyKept`, `OneUninstall`, `NothingLost`, `RunsEnd` |
| `rollback_temp`, `chunk_bzip`, `mtcoder_reuse` | variations of the above | counterexamples, see section 5 |

Each property is there for a hazard. The types (`TypeOK` of every module) are
an invariant of all these instances, too, and `log_file` keeps them in its run.

Why the bounds are enough:

* `log_file` (about 150,000 states): a record of 3 units over blocks of 2
  straddles a block with and without a remainder, an append starts behind a
  partly filled block, 5 blocks against `MaxEnd` 4 and `MaxRecs` 4 make each of
  the three limits (volume, `EndOffset`, `NumRecs`) fail first in some
  behaviour, and three installations allow an append to an append. `MaxSaves`
  is the only bound that is not the program's.
* `shared_files` (about 1.3 million states): two installations are an upgrade of
  one application or one of each; two faults are a failure and a failing retry,
  or a failure and a file in use during the rollback. All starting points with
  the files and counts present or absent are initial states.
* `uninstall_dirs` (about 28,000 states): three levels of directories with a
  branch; the file at the bottom may be in use.
* `lzma` (about 430,000 states): the buffers have two units and a stream up to
  three and an end mark, in calls of one and two, so that both rings fill, empty
  and wrap in the middle of a transfer, and every one of the releases that keep
  the two sides going is needed; a second stream meets whatever the first left;
  the one fault is any callback that raises, the encoder, or either process. Of
  a killed compiler the thread is gone at once, the process lives on.
* `chunk_stream` (about 154,000 states): a chunk takes one unit for its mark and
  one for the end of the stream, so that one of 5 units spans up to three slices
  of 4 and begins at each place of a slice; a chunk that ends exactly with its
  slice, one that finds less than two units of room, an empty file at the front,
  inside and at the end of a chunk all occur. Pieces and input buffers of 2
  units do not divide the files, so that input is left over between files. The
  number of extractions and failures is not bounded: the state is finite
  without. The methods are those Setup can decompress, and two that do not
  compile for want of a level, at the first file or in the middle; section 5 has the
  others.

* `mtcoder` (about 350,000 states): four blocks through a ring of three, so that
  the ring is full, wraps, and blocks wait in it behind one that is being coded;
  a second call uses threads that exist, and finds whatever the first one left.
* `helper` (about 66,000 states): the second call finds a helper that runs, has
  died, or cannot be trusted, the third one that was replaced; two faults are a
  death and a failure of the restart. Sequence numbers modulo 2 collide as soon
  as two requests lie between.
* `spawn` (about 51,000 states): a call, one within it, and one after both; the
  program of either may be waited for.
* `phases` (about 409,000 states): each of two runs may find the other's log,
  directory, mark and uninstaller in any state, and one of their processes may be
  killed, or one call fail, at every point. Two faults at a time (1.8 million states)
  were checked for the three safety properties, and the proofs are for any number.

`CHECK_DEADLOCK FALSE` is used where the behaviours end because a bound is
reached (`MaxSessions`, `MaxCalls`, `MaxCodes`), because a single session has run,
or because the processes have ended; the LZMA and chunk runs keep the check (`CompileFailed` is the stuttering of a
compilation that ended with an error).

*Fairness.* In every case threads that can go on are scheduled (weak fairness),
and nothing is assumed of failures or of the caller's will to make another call.
A dead process takes no steps: its actions are disabled.

* `LZMACompressor`: the main thread, the worker thread, the reading and the
  writing side of the encoder, and the encoder's own reading, writing and
  returning: a wait returns once its object is signaled, and `LZMA_Encode`
  terminates. Nothing is assumed of the caller (which may never call `Finish`)
  or of the timer, so that no property rests on its polling.
* `MtCoder`: the caller and each block thread; callbacks return (for `Read` and
  `Write` this is `CallsReturn` of `LZMACompressor`).
* `HelperPipe`: Setup's thread, which includes that the ten seconds `Stop` waits
  pass, and the helper's loop. That the process ends once its loop has is not
  assumed (foreign code may hold it), nor that it ever dies.
* `SpawnProtocol`: both threads; programs that are waited for end. The server
  gets to the end of `ProcessMessages` although the client sends it a query every
  10 ms, because it is idle in between: strong fairness of these four steps.
  That Setup ends is not assumed.
* `UninstallPhases`: each process, with the user answering the questions.

## 4. The proofs

### The log file

`UninstallLogFileProofs` proves, for every record set and record length, block
capacity, volume size, number of applications and installations, with
`LogFileAssumption` only:

* `LogTypes`: `Spec => []TypeOK`. Needed throughout; not trivial where
  `Len(buf) < BlockCap` (a full buffer is flushed at once) and
  `off <= RecSize[list[cur]]` are concerned.
* `LogInvariant`: `Spec => []LogInv`, the inductive invariant. `DiskIsAVersion`
  alone is not inductive: that the old header on disk with the new blocks of the
  cache is still the old log depends on which blocks may differ. `LogInv` says
  why: a valid header that is on disk precedes the one in the cache
  (`Precedes`: same application, sticky flags kept, no fewer records and
  blocks); every block the cache's header covers is the same on disk and in the
  cache (`OnDisk`); `Save` only writes behind `header.end`; and once the new
  header is made up, every block it covers is on disk. The last follows from the
  order of `FlushFileBuffers` and the header write, and is what fails without
  the flush.
* `CrashAtomicity`: `Spec => []DiskIsAVersion`, from `VersionsInv`.
* `ImplementsStore`: `Spec => StoreSpec`. Each step of `Next` is a step of
  `UninstallLogStore` or leaves `Stored(disk)` alone; write-back of a block
  covered by the header on disk changes nothing, write-back of a header
  commits.

* `ReadInvariant`: `Spec => []ReadInv`, and from it `ReadsBack` (`LogReadsBack`) and
  `DamagesOnlyByOverwriting` (`OnlyOverwritingDamages`). `ReadInv` says what is in the
  file at every step: the header counts the records of `expected`, and the blocks it
  covers spell them (`Keeps`), wherever records straddle blocks; while `Save` writes,
  the blocks behind `F.Position` and the buffer spell these records, the part of
  the list already copied and `off - 1` units of the next record (`Writes`); what
  is on disk under a valid header spells some records, which is what a crash makes
  of `expected`; and a new or overwritten file expects nothing before its header.

Each step of the invariants' proofs has one case per action, and under it one
step per conjunct the action can disturb. `GoodUnits` and `Parse` are recursive
functions, for which a rule of induction would be natural and cannot be used (it
takes an operator as parameter). Instead, `LeastNatural` gives a counterexample a
least element: `ParseReads` shows with it that the function `Parse` chooses exists
(approximations up to each number of records left exist and agree, `ReadsUpTo` and
`ReadsAgree`) and satisfies its equation, and `ParseSpelled` that it returns the
records whose units it is given. `Joined` states what `GoodUnits` has computed.

### Installation, rollback and uninstallation

`InstallTransactionProofs` proves, for any set of applications, files and
directories, any scripts, and any number of sessions, faults and crashes, under
`TransactionAssumption` (which says that the tree of directories is well-founded,
that names of temporary files are new, and what the constants are):

* `TypesOK`: `Spec => []TypeOK`, from `TypeInv`, which adds where each control
  variable is meaningful (`Control`) and that temporary files are named in records
  of their own destination (`OwnTemps`).
* `NoReferencesAreLeaked`: `NoReferencesLeaked` speaks of the time between sessions;
  `CountsBalance` says what holds at every step. The count of a file is what
  all logs refer to, plus `slack`, plus the records of the undo list that
  have not given their reference back yet (`Owed`; Step 2 gives it back and keeps
  the record for Step 3), less what the log being uninstalled still says (`Replayed`).
  *Hypothesis:* uninstallers are not killed, see section 5.
* `SharedFilesAreKept`: `SharedFileKept`, from `CountsBalance` and `KeptInv`. The record that
  Step 2 leaves for Step 3 was the last reference (`LastReference`), and a deletion
  that waits for the restart is of a file nobody refers to or is about to install
  (`DeletesPending`). *Hypothesis:* also `SharedConsistently`: scripts agree on which
  files are shared; one that installs a shared file without the flag counts on nothing.
* `RollbackSpares`: `RollbackSparesOthers`, from `SparesInv`. The files of entries ahead
  are as the session found them, `existed` is what was there at the start although a
  retry finds something else, and the list records only what is new. *Hypothesis:*
  `ListedOnce`, a script names each destination once: a file that an earlier
  entry deleted and failed to replace, with the failure ignored, is new to a later one.
* `RollbacksLeaveNothing`: `RollbackLeavesNothing`, from `LeavesInv`: at every step of an
  entry, what it has brought is in a record, in `excused`, or known to the step
  that is next; a new directory has a record older than those of what is in it, or
  is not empty; a reference is held once. *Hypotheses:* `ListedOnce`, and
  `NoSharedAssembly`, which excludes just what `rollback_temp` shows.
* `UninstallsLeaveNoEmptyDir`: `UninstallLeavesNoEmptyDir`, in two parts.
  `NoEmptyDirIsLeft` is about the uninstaller: if its log names every
  directory before those in it (`ParentsFirst`), whatever wrote the log, the
  inner ones are undone, and tried again, first (`DirsInv`). That `ParentsFirst`
  holds of every log is about all earlier sessions: directories are logged
  in the order of their creation, each in one log only, and one that somebody else's log names
  cannot go (`OwnedInv`). *Hypotheses:* uninstallers are not killed, and `NoneAlways`, no
  script uses `uninsalwaysuninstall`, which excludes just what section 5 says of it.

`shared_files` satisfies the hypotheses on scripts of the first five, and
`uninstall_dirs` those of the last.

Sums over applications, numbers of records and paths of directories are what these
proofs count with. No induction over data is needed, because they are taken
over finite sets: `SmallestFinite` (in every set of finite sets there is a smallest
one, from `WFMin` and the well-founded order of finite subsets in the library) gives
a counterexample of least size, which a step makes smaller.

### The helper's pipe

`HelperPipeProofs` proves, for any number of calls and faults, any set of error
codes and any modulus of the sequence numbers of at least two, with
`PipeAssumption` only:

* `PipeInvariant`: `Spec => []PipeInv`. `Synchronous` is not inductive: that
  nothing is in the pipe while Setup does not wait depends on what is in it while
  it does. `PipeInv` adds to the types
  `LinkInv` (a helper that runs has its pipe open, unless it is to be stopped),
  `ExchangeInv` (at most one message is under way, the request or its response,
  and the response bears the request's number and, for a command, the answer of
  its only execution), `BooksInv` (what has become of the call in progress and of
  those to come), `ForeignInv` (the helper of a type library is new when the
  request is sent and on its way out once it was executed) and `FaultsInv` (a call
  that will fail is excused).
* `WaitingIsNeverOptional`, `ForeignCodeAlone` and `OwnFaults`: `Synchronous`,
  `ForeignCodeIsolated` and `FailsForOwnFault`.
* `ImplementsRemoteCall`: `Spec => CallSpec`. `CallHelper` makes a call,
  `ProcessRequest` of a command executes it, `Return` and `CallRaises` end it, and
  all other steps stutter.

That the sequence numbers wrap does not matter: the proof of `GotResponse` shows
that the response in the pipe is the one to the request, so that the comparison
of the numbers never fails. It is the order of steps that keeps the pipe right,
and the comparison guards against a helper that does not follow the protocol.

### The spawn server and its client

`SpawnProtocolProofs` proves, for any number and depth of calls, any set of answers
and any number of faults, with `SpawnAssumption` only. This assumption is where the
sequence numbers matter: `SeqMod > MaxCalls` says that they do not wrap among the
calls considered. The code has a word for them: a call in which 65536 others are
executed before it asks for its result would be given the result of the last.

* `SpawnInvariant`: `Spec => []SpawnInv`. `FailsForACause` is not inductive, since a
  call fails long after the step that is to blame. `SpawnInv` says of the calls on
  the stack that each waits for the one made within it (`StackInv`); that the
  message under way is that of the innermost call (`MessageInv`); that a call whose
  sequence number is the server's is the one it serves, and any other is already
  excused (`SeqInv`); that what the server keeps is about the call it serves
  (`ServerInv`); that a reply is still true when the client looks at it
  (`ReplyInv`); and that between the answer to the status and the two halves of the
  result the server's result stays (`ResultInv`), which it does because the client
  processes no messages there.
* `FailsOnlyForACause` and `ImplementsRemoteCall`: `FailsForACause`, and
  `Spec => CallSpec`. Pushing a frame makes a call, `Exec` executes it,
  `GotReply` of the second half of the result ends it; queries, the loop of the
  server and its faults stutter. That the result returned is that of the call's
  own execution is `ReturnedAnswer`, from `ServerInv` and `ResultInv`.

### The uninstaller's processes

`UninstallPhasesProofs` proves, for any number of runs, any applications and any
number of killed processes and failed calls, with `RunsAssumption` only:

* `PhasesInvariant`: `Spec => []PhasesInv`. None of the three properties is inductive.
  A sweep looks at a directory, deletes and looks again in separate steps; so
  `SweepInv` says what is known from its earlier steps: that the directory is not
  one whose copy is being made unless it was found recent, and that a sweep that
  could delete the copy found the second phase ended, for good. `TempInv` and
  `PhaseInv` tie the directory to the phases; `LogInv` says who has the log
  open and in which state, and that whoever is between its load and its reopening
  while another uninstalls is `raced`; `FateInv` says, for a run none of whose
  processes was killed, how far each of them is when the mark is there, and of what
  each failure leaves that the run is in `copyLeft` or `markLeft` from then on.
* `CopyIsKept`, `OneAtATime`, `NothingIsLost`: `CopyKept`, `OneUninstall`, `NothingLost`.

### The block threads

`MtCoderProofs` proves, for any number of threads, blocks, buffers (no fewer than
blocks), calls, faults and any length of input, under `SizesAssumption` and `~Dawdles`.
The hypothesis is an assumption on the scheduler and not on the code; without it the
theorems are false, and section 5 has the counterexample.

* `CoderInvariant`: `Spec => []CoderInv`. Its heart is `RingInv`. Of the blocks of the
  ring, those in flight (`NumBlocks` less the semaphore and less the threads about to
  signal it) follow each other from the oldest, which is `writeIndex` or the block
  of the writing thread; each but the oldest is ready or of exactly one thread. From it
  follows that the block a thread takes is free, and that the writer that finds no
  ready successor leaves `writeIndex` where the owner of that block will find it.
  `FreeInv` and `ApartInv` say that every buffer is free, of a thread or of
  a waiting block, and of one of them only; that one is free for a thread that has a
  block is counting, in the lemma `FreeBuffer`, which maps buffers into
  blocks. `CallInv` counts the threads that take part against `numStartedThreads`
  and `numFinishedThreads`: the last one to finish is the last. `TroubleInv`,
  `ReadInv`, `CodedInv` and `OrderInv` are about what is coded and reported, for the
  refinement.
* `OneInside`, `BuffersAreApart`: `OneThreadInside`, `BuffersApart`.
* `ImplementsOrderedBlocks`: `Spec => CoderSpec`. `Write` writes the next block, or a
  block when something has gone wrong already; a fault goes wrong; `WaitFinished`
  returns. That a call which succeeds has written all blocks is `AllWritten`, from
  `OrderInv` and the counts: no thread is active, so no block is in flight.

### The compressor

`LZMACompressorProofs` proves, for rings, wake-up granules, calls, reads and streams
of any size, any number of streams and faults, an encoder with one thread or two and
with the timer or without, under `BufferAssumption` and `InputAssumption`:

* `CompressorInvariant`: `Spec => []CompressorInv`. `FlowInv` says where the main thread
  is in its calls and `HandInv` who has the stream. `WakeInv` strengthens
  `NoStaleWakeUp` with what `SatisfyWorkerWait...` knows between its test and its
  `SetEvent`: the worker is in that wait, and stays there because both of its
  events are unsignaled. `MoveInv` says what each side may rely on between moving
  data and counting them, while the other side changes `Count`: the main thread's
  room only grows, and so do the data of whoever reads. `InInv` names every unit
  between the caller and the encoder, `OutData` every unit between the encoder and
  `WriteProc`, each by its place; `OutCount` says how many they are, and so, when
  `Finish` returns, that nothing is left under way. `EndInv` is the end of the
  input: the second look at the ring after `NoMoreInput` was seen is what makes
  an empty ring final. `FaultInv` says that an encoder fails or a worker ends only
  by a fault or when told to.
* `WakeUpsAreFresh`, `RaisesOnlyForACause`, `InputKeepsItsOrder`: `NoStaleWakeUp`,
  `RaisesForACause`, `InputInOrder`.
* `ImplementsCompressedStream`: `Spec => StreamSpec`. Only the beginning and the end of
  a call and `CallWriteProc` are steps of `CompressedStream`.

The module first states what each action does to each variable (the lemmas
`...Does`), and what moving and counting do to a ring (`MovedIn` ...
`CountSubtracted`), by themselves. The lemma about a conjunct then has one case
per action, which never expands the action.

### The chunk stream

`FileExtractorProofs` proves, for any scripts, any sizes of slices, pieces and input
buffers, any files and any extractions with any failures, under the assumptions of the
two modules:

* `ExtractorInvariant`: `Spec => []Inv`. The places of all slices are numbered one
  after the other (`Before` counts those of the slices in front), so that a chunk over
  several slices is an interval, and the writer and the reader, who cut it at
  different points, can be compared by one number. `CompilerInv` says that of every
  chunk that is finished all units are where its entries place them (`Finished`), and
  of the one being written that its first `bytesWritten` units are (`Holds`), that
  what the compressor holds follows them (`RightFrom`), and that it ends where the disk
  does (`EndsAt`); units of other chunks cannot lie in between, since all of this is
  about places. `ExtractorInv` says that an extractor that is not to start over is at the same
  unit in its account of the chunk, in the slices and in the key stream (`OnPlace`)
  and in the decompressor (`InOrder`), between any two steps, and that
  the file so far is a beginning of the original. The agreement has to be stated for
  *some* file of the chunk: the next call is about another one, and `Agree` says that
  entries of one chunk tell the same about it.
* `CompilerLaysOutChunks`: what Setup may rely on when the compiler is done, as a
  property of the writer alone.
* `StaysInSync`, `OnlyOwnSlices`, `OriginalExtracted`: `InSync`, `AsksForOwnSlices`,
  `ExtractsTheOriginal`, without further hypotheses. They hold for every method, also
  those Setup cannot decompress, since what is not decoded is not extracted.
* `FailuresHaveCauses` and `SecondTryIsNew`: `FailsForACause` and `RetryRecovers`.
  *Hypothesis:* `OwnMethods`, that scripts use `none`, `zip`, `lzma` or `lzma2`; for the
  other methods section 5 has the counterexample. Without damage no check of the reader
  fires: a decompressor that asks for more is given some (`MoreToRead`), ReadProc's
  "Already on last slice" does not happen (`MoreSlices`), and what was not damaged
  decodes (`Decodable`).
  `RetryRecovers` needs `Recovery`: whatever way a call found damage, the next
  `SeekTo` to the same file starts the chunk over. A decompressor that fails sets
  `FNeedReset`; a checksum that does not match does not, and need not, because
  the file has at least one unit, which is behind the place where it began.

`chunk_stream` satisfies `OwnMethods`, but for the two scripts that do not compile. The
models have no `@` inside the value of
another `EXCEPT` with an `@` of its own: the prover takes it for the outer one.

### What stays with TLC

The strengthenings above were checked as invariants of the instances in section 3
before they were proved, but for `ReadInv`, which speaks of all sequences of units.
Left to TLC are:

* liveness: that calls, waits, servers and runs come to an end, with the fairness
  stated in section 3;
* `RestartRemovesDirs`: what a restart does to a list of pending operations that
  earlier sessions added to depends on the place of every file and directory in it.

## 5. Where the code and its documentation disagree

Three of these are runs that end in a counterexample, and entries under
`findings` with the lines quoted:

* `rollback_temp`: a shared assembly that is new, with `restartreplace`. The first
  attempt puts it in place, counts it and records it, without a temporary file, and
  the GAC installation raises. On Retry the file is in use: the new one stays a
  temporary file, to be renamed into place at the restart, and is counted and recorded
  again, now with the temporary file. After Cancel the rollback takes one reference
  back for the newer record, and drops this record because the count is not zero yet;
  the older record then has the file deleted. The temporary file and the pending
  rename stay, and the restart puts the file there again.
* `chunk_bzip`: `Compression=bzip` and `bzip/1` to `bzip/9` are documented
  (`isetup.xml:5024-5025`). The compiler compresses with LZMA2 instead. With `bzip/1`
  to `bzip/5` it leaves `bzip` in the header, so that Setup decompresses with
  bzip2: no compressed file of the installation can be extracted, which the run shows.
  With `bzip/6` to `bzip/9`, and with `bzip` alone, for which the level is 9, it does
  not compile: the LZMA compressors raise for a level above 5 (`CompressorRaises`; the
  same goes for `brotli` and `zstd` with a level above 5, the default 6 included, if their
  DLLs are missing). `FailsForACause` fails in the same way for `brotli`, `zstd` and
  `smart`: Setup loads neither the Brotli nor the Zstd DLL, so that creating the
  extractor raises; and if it did, `smart` mixes codecs that Setup would all read
  as Zstd.
* `mtcoder_reuse`: a block thread that is held up between counting itself and
  comparing its number with `numStartedThreads` (`MtCoder.c:350-351`) until the
  next call has started its first thread tells that call that it is finished. The
  call returns while its threads are inside the callbacks, which are meant for one
  thread at a time. With `Dawdles = FALSE`, all properties hold.

Others were met while modelling, and are kept out of the properties by the
exception named:

* The comment above `FlushFileBuffers` in `Save` (`Setup.UninstallLog.pas:1290-1296`)
  says that a crash at that moment leaves at worst the old `EndOffset`. That holds
  for appending. A new or overwritten file has a header of zeros at that moment and
  cannot be read; `OnlyOverwritingDamages` says that nothing else has this effect.
* A `[Dirs]` entry with `uninsalwaysuninstall` (`isetup.xml:1516`: "Instructs the
  uninstaller to always attempt to delete the directory if it's empty") may name the
  directory that `{app}` is in, which was there before. Its record is newer than that of
  `{app}`, so that `LoggedProcessDirsNotRemoved` tries it while `{app}` is still in it,
  then removes `{app}`, and leaves it behind empty. TLC finds this as soon as an instance
  has such an entry; `NoneAlways` in the proof of `UninstallLeavesNoEmptyDir`
  excludes it, and the instance of `uninstall_dirs` has no such directory.
* An uninstaller that is killed in step 2 and run again decrements the same
  references twice; a shared file goes while another application counts on it
  (`isetup.xml:1854`). Only installations are killed in `shared_files` (`CrashIn`).
* `RunSecondPhase` closes the log and opens it again (lines 623-624), so that two
  uninstallers of one application can both go on with what they loaded, one after
  the other, although line 620 says that this prevents a second instance: `raced`
  in `OneUninstall`.
* The mark is there so that a later sweep deletes a directory that the first phase
  could not (`Setup.Uninstall.pas:197-199`). A sweep deletes the mark only after
  the copy, and the copy only if there is a mark. Two kinds of directories therefore
  stay for good. A copy without a mark: if the mark cannot be created
  (`Setup.Uninstall.pas:211-214`), if the first phase fails to wait for the second
  (`WAIT_FAILED`, lines 444-448), or if it gives up deleting the copy after 13 tries
  (line 458); `copyLeft` in `NothingLost`. A mark without a copy: if a sweep that has deleted the
  copy cannot delete the mark (`Setup.MainFunc.pas:1527`), or if the second phase
  cannot wait for the first (lines 255-263, a process that cannot be opened, or no
  window), ends before it, and the first phase then deletes the copy but not the mark;
  `markLeft`. A process that is killed at such a point leaves the
  same: a second phase between creating the mark and telling the first, a sweep
  between the copy and the mark; `killed`.
* A call made within another one (by an event function that a waiting
  `CallSpawnServer` lets run) after the program of the outer call has ended, but
  before its result was asked for, is accepted and takes the sequence number: the
  outer call raises an internal error although its program ran. `excused` in
  `SpawnProtocol` has it among the causes; what `CallSpec` says is that it is
  never given the inner result.

## 6. What is not modelled

* In `InstallTransaction`: registry, INI, icon and `[Run]` entries, registration
  of DLLs and fonts, the uninstaller's own executable and messages file,
  `PerformUninstall` step 1 (`utRun`), and two processes at once. That
  `SharedDLLs` is read and written without a lock is listed as a hazard.
* In `LZMACompressor` and `MtCoder`: the amounts of progress bytes, what coding a
  block does, the two threads of the match finder, `expectedDataSize` and input
  from memory (not used by the worker), waits that fail, and memory orderings
  weaker than sequential consistency. `LZMACompressor` has an encoder that reads
  from one thread and writes from one; that this is so is `OneThreadInside`.
* In `HelperPipe`: processing messages during a call; `FProcessMessagesProc` is
  assigned nowhere in the repository, so that the code for it is not reached.
* In `UninstallPhases`: the loader, whose temporary directory is deleted in the same
  way but by one process only; and the end of the session, which ends the processes
  like a kill.
* In `CompressionHandler` and `FileExtractor`: `TransformCallInstructions` (a
  reversible change of the data that only needs both sides to cut files into
  pieces of the same size, `PieceSize`), the position of the data inside
  `Setup.exe` (an offset), the recursion guard `FEntered`, and what each codec's
  wrapper does with its library. Brotli's loses output; this is a hazard of its
  own in `PROJECT.json`.
* Components of section 1 that section 7 plans: listed in `PROJECT.json` as
  `not_modelled`.
* Never: the wrappers of zlib, bzip2, Brotli and zstd and the cryptographic
  primitives (pure functions on bytes, largely third-party); the script
  compiler's translation and PE editing; the bindings of Pascal Script; the IDE
  and the controls; downloads and archives, mostly I/O through external
  libraries, except perhaps the retrying of downloads.

Of the repository's C code, by far the most is vendored and sequential: the
headers of zstd in two copies, and the LZMA SDK's encoders, decoders and archive
readers, which transform bytes and keep no state that others see. The parts of
it with a protocol in them are the block threads, modelled, and the match
finder's threads (`LzFindMt.c`), planned; the project's own logic is in Pascal.
The map is accordingly short against the lines of C.

## 7. The plan

Modules, in this order; the first eight are done.

1. `UninstallLogFile`, `UninstallLogStore`: the log file. *Done, with proofs.*
2. `InstallTransaction`: installation, rollback, uninstallation. *Done, with proofs.*
3. `LZMACompressor`, `CompressedStream`. *Done, with proofs.*
4. `CompressionHandler`, `FileExtractor`. *Done, with proofs.*
5. `SpawnProtocol`, `RemoteCall`. *Done, with proofs.*
6. `HelperPipe`, with the same abstraction. *Done, with proofs.*
7. `UninstallPhases`. *Done, with proofs.*
8. `MtCoder`, `OrderedBlocks`: the block threads under 3. *Done, with proofs.*
9. `DebugProtocol`: Setup and the IDE, liveness of a paused Setup.
10. `MatchFinderThreads`: the hash and the tree thread of `LzFindMt.c`.
11. `CheckListTree`, `PreprocessorStack`, `SimpleExpression`, `WizardPages`: pure
    algorithms against reference definitions.
12. `BufferedCodec`: the Brotli and Zstd wrappers around a library that keeps its
    output (`Compression.Brotli.pas:272` loses what the encoder left in its buffer),
    as an implementation of the abstract codec of 4.

Theorems: `RestartRemovesDirs`, the one safety property of the runs without a proof,
which needs an invariant about the places of all pending operations. Of the modules to
come, the refinement of 12 and the alternation of the threads of 10.
