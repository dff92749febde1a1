------------------------ MODULE InstallTransaction ------------------------
(***************************************************************************)
(* What one installation does to the machine, and how it is taken back:    *)
(* PerformInstall with CreateDirs and ProcessFileEntry (Setup.Install.pas) *)
(* collects undo records while it changes the disk and the SharedDLLs      *)
(* reference counts; TUninstallLog.PerformUninstall (Setup.UninstallLog)   *)
(* replays them newest first, either at once as a rollback or later, from  *)
(* the saved log, as the uninstaller.                                      *)
(*                                                                         *)
(* Sessions run one after another.  Between them the machine may restart,  *)
(* which carries out the renames and deletes that RestartReplace and       *)
(* LoggedRestartDeleteDir left behind.  How the log survives on disk is    *)
(* the subject of UninstallLogFile; here Save is one step.                 *)
(***************************************************************************)
EXTENDS Integers, FiniteSets, SequencesExt

CONSTANTS Apps, Files, Dirs,
          Root,        \* the directory that is always there
          Parent,      \* PathExtractDir
          DirOf,       \* directory of a destination file
          AppDir,      \* {app}, where UninstallFilesDir is too
          ExtraDirs,   \* per app, [Dirs] entries [dir, opts]
          Entries,     \* per app, [Files] entries [file, opts]
          NoTmp,       \* the empty TempFile string
          NoLog,       \* there is no unins???.dat
          Reserved,    \* there is an empty one
          MaxSessions, \* bound: installations in a behaviour
          MaxFaults,   \* bound: failing system calls in a behaviour
          CrashIn      \* phases in which the process may be killed

FileOptions == {"shared", "neveruninstall", "restartreplace", "restartdelete",
                "onlyifdoesntexist", "gacinstall", "noprompt"}
DirOptions == {"neveruninstall", "alwaysuninstall"}
Absent == -1
Foreign == 0   \* a file no session installed
Content == {Absent, Foreign} \cup 1..MaxSessions

Temp == [file : Files, n : Nat, ses : 1..MaxSessions]
DirRec(d) == [typ |-> "dir", dir |-> d]
FileRec(f, t, existed, opts) ==
  [typ |-> "file", file |-> f, tmp |-> t, existed |-> existed, opts |-> opts]
CountRec(f) == [typ |-> "count", file |-> f]
UndoRec ==
  {DirRec(d) : d \in Dirs} \cup {CountRec(f) : f \in Files}
  \cup [typ : {"file"}, file : Files, tmp : Temp \cup {NoTmp},
        existed : BOOLEAN, opts : SUBSET FileOptions]

\* A directory with its ancestors.
Path[d \in Dirs] == IF d = Root THEN {Root} ELSE {d} \cup Path[Parent[d]]

ASSUME TransactionAssumption ==
  /\ IsFiniteSet(Apps)
  /\ Root \in Dirs /\ Parent \in [Dirs -> Dirs]
  /\ \A D \in SUBSET (Dirs \ {Root}) : D # {} => \E d \in D : Parent[d] \notin D
  /\ DirOf \in [Files -> Dirs] /\ AppDir \in [Apps -> Dirs \ {Root}]
  /\ \A a \in Apps :
       /\ ExtraDirs[a] \in Seq([dir : Dirs, opts : SUBSET DirOptions])
       /\ Entries[a] \in Seq([file : Files, opts : SUBSET FileOptions])
  /\ MaxSessions \in Nat /\ MaxFaults \in Nat
  /\ CrashIn \subseteq {"install", "uninstall"}
  /\ NoTmp \notin Temp /\ Files \cap Temp = {}
  /\ NoLog # Reserved /\ {NoLog, Reserved} \cap Seq(UndoRec) = {}
-----------------------------------------------------------------------------
VARIABLES
  fs,        \* what is at each destination file name
  temps,     \* temporary files on disk
  dirs,      \* directories that exist
  count,     \* SharedDLLs values; 0 when there is none
  dat,       \* each app's unins???.dat: its records, or NoLog or Reserved
  litter,    \* directories with an orphaned unins???.dat
  pend,      \* PendingFileRenameOperations
  pc, app, ses, idx,
  list,      \* the undo list
  created,   \* UninstallDataCreated
  tmp,       \* TempFile
  left,      \* TempFileLeftOver
  checked,   \* CheckedDestFileExistedBefore
  existed,   \* DestFileExistedBefore
  exists,    \* DestFileExists
  onRestart, \* ReplaceOnRestart
  uninstaller,            \* CallFromUninstaller
  notRemoved, restartDirs, \* DirsNotRemoved, RestartDeleteDirList
  faults,    \* counter for MaxFaults
  start,     \* history: the machine when the process started
  excused,   \* history: what was not recorded, or could not be undone
  slack      \* history: references no log accounts for

disk == <<fs, temps, dirs>>
entry == <<tmp, left, checked, existed, exists, onRestart>>
undo == <<uninstaller, notRemoved, restartDirs>>
process == <<app, ses, idx, created>>
history == <<start, excused, slack>>
vars == <<disk, count, dat, litter, pend, pc, process, list, entry, undo,
          faults, history>>

Records(d) == IF d \in {NoLog, Reserved} THEN <<>> ELSE d
Log(a) == Records(dat[a])
\* RemoveDirectory succeeds for such directories only.
EmptyIn(d, fs_, temps_, dirs_) ==
  /\ \A e \in dirs_ \ {Root} : Parent[e] # d
  /\ \A f \in Files : DirOf[f] = d => fs_[f] = Absent
  /\ \A t \in temps_ : DirOf[t.file] # d
  /\ \A a \in Apps : AppDir[a] = d => dat[a] = NoLog
  /\ d \notin litter \cup {Root}
IsEmptyDir(d) == EmptyIn(d, fs, temps, dirs)

Snapshot == [fs |-> fs, temps |-> temps, dirs |-> dirs, dat |-> dat,
             count |-> count]

ClearEntry ==
  /\ tmp' = NoTmp /\ left' = FALSE /\ checked' = FALSE /\ existed' = FALSE
  /\ exists' = FALSE /\ onRestart' = FALSE

\* One failing call, out of MaxFaults.
Fault == faults < MaxFaults /\ faults' = faults + 1

Holds(rec, f) ==
  \/ rec.typ = "count" /\ rec.file = f
  \/ rec.typ = "file" /\ rec.file = f /\ "shared" \in rec.opts
\* The references a log gives back when it is undone.
RefsIn(log, f) == Cardinality({i \in DOMAIN log : Holds(log[i], f)})
Refs(f) == LET n == [a \in Apps |-> RefsIn(Log(a), f)]
           IN  FoldFunction(LAMBDA x, y : x + y, 0, n)

Init ==
  /\ fs \in [Files -> {Absent, Foreign}]
  /\ dirs \in {D \in SUBSET Dirs : Root \in D /\ \A d \in D : Parent[d] \in D}
  /\ \A f \in Files : fs[f] = Foreign => DirOf[f] \in dirs
  /\ count \in [Files -> {0, 1}]
  /\ \A f \in Files : count[f] = 1 =>
       fs[f] = Foreign /\ \E a \in Apps : \E i \in DOMAIN Entries[a] :
                            Entries[a][i].file = f /\ "shared" \in Entries[a][i].opts
  /\ temps = {} /\ dat = [a \in Apps |-> NoLog] /\ litter = {} /\ pend = <<>>
  /\ pc = "idle" /\ app \in Apps /\ ses = 0 /\ idx = 1 /\ created = FALSE
  /\ list = <<>>
  /\ tmp = NoTmp /\ left = FALSE /\ checked = FALSE /\ existed = FALSE
  /\ exists = FALSE /\ onRestart = FALSE
  /\ uninstaller = FALSE /\ notRemoved = <<>> /\ restartDirs = {}
  /\ faults = 0
  /\ start = Snapshot /\ excused = {} /\ slack = count
-----------------------------------------------------------------------------
(* PerformInstall up to the files: CreateDirs and the reserved log.        *)

\* Mutant: pending operations are not looked at.
PreviousInstallIgnored(a) == TRUE

\* PreviousInstallCompleted: no file of ours is in
\* PendingFileRenameOperations, as a source or as a destination.
PreviousInstallCompleted(a) ==
  \A i \in DOMAIN Entries[a], j \in DOMAIN pend :
    pend[j].op # "rmdir" => pend[j].file # Entries[a][i].file

StartInstall(a) ==
  /\ pc = "idle" /\ ses < MaxSessions /\ PreviousInstallCompleted(a)
  /\ pc' = "dirs" /\ app' = a /\ ses' = ses + 1 /\ idx' = 1 /\ created' = FALSE
  /\ list' = <<>>
  /\ start' = Snapshot /\ excused' = {}
  /\ UNCHANGED <<disk, count, dat, litter, pend, entry, undo, faults, slack>>

\* MakeDir, one CreateDirectory at a time: the missing parents, with the
\* flags minus mdAlwaysUninstall, then the directory itself.
MakeParent(d, opts) ==
  \E e \in Path[d] \ (dirs \cup {d}) :
    /\ Parent[e] \in dirs
    /\ dirs' = dirs \cup {e}
    /\ list' = IF "neveruninstall" \in opts THEN list ELSE Append(list, DirRec(e))

MakeLast(d, opts) ==
  /\ Path[d] \ {d} \subseteq dirs
  /\ dirs' = dirs \cup {d}
  /\ list' = IF /\ "neveruninstall" \notin opts
                /\ d \notin dirs \/ "alwaysuninstall" \in opts
             THEN Append(list, DirRec(d)) ELSE list

Wanted(a) == <<[dir |-> AppDir[a], opts |-> {}]>> \o ExtraDirs[a]

CreateDirs ==
  /\ pc = "dirs"
  /\ \/ /\ MakeParent(Wanted(app)[idx].dir, Wanted(app)[idx].opts)
        /\ UNCHANGED <<pc, idx>>
     \/ /\ MakeLast(Wanted(app)[idx].dir, Wanted(app)[idx].opts)
        /\ IF idx < Len(Wanted(app))
           THEN idx' = idx + 1 /\ UNCHANGED pc
           ELSE idx' = 1 /\ pc' = "reserve"
  /\ UNCHANGED <<fs, temps, count, dat, litter, pend, app, ses, created, entry,
                 undo, faults, history>>

\* GenerateUninstallInfoFilename: append to the app's own log, or reserve a
\* new name with CREATE_NEW.
GenerateUninstallInfoFilename ==
  /\ pc = "reserve"
  /\ IF dat[app] = NoLog
     THEN dat' = [dat EXCEPT ![app] = Reserved] /\ created' = TRUE
     ELSE UNCHANGED <<dat, created>>
  /\ pc' = IF Entries[app] = <<>> THEN "save" ELSE "entry"
  /\ UNCHANGED <<disk, count, litter, pend, app, ses, idx, list, entry, undo,
                 faults, history>>
-----------------------------------------------------------------------------
(* ProcessFileEntry.                                                       *)

Cur == Entries[app][idx]
Opt(o) == o \in Cur.opts

NextEntry ==
  /\ ClearEntry
  /\ IF idx < Len(Entries[app])
     THEN idx' = idx + 1 /\ pc' = "entry" ELSE idx' = 1 /\ pc' = "save"

\* Mutant: looks for the existing file again on every retry.
CheckDestFileEveryTime(f) ==
  /\ exists' = (fs[f] # Absent) /\ existed' = (fs[f] # Absent) /\ checked' = TRUE

\* DestFileExistedBefore is found out once, before the first attempt.
CheckDestFile(f) ==
  /\ exists' = (fs[f] # Absent)
  /\ existed' = IF checked THEN existed ELSE fs[f] # Absent
  /\ checked' = TRUE

\* The Retry label down to the decision to install or to go to Skip.  The
\* comparisons of versions, times and hashes, and the user, may decide
\* either way for an existing file.
BeginEntry ==
  /\ pc = "entry"
  /\ CheckDestFile(Cur.file)
  /\ \/ fs[Cur.file] # Absent /\ pc' = "share"
     \/ /\ fs[Cur.file] # Absent => ~Opt("onlyifdoesntexist")
        /\ pc' = "temp"
  /\ tmp' = NoTmp /\ left' = FALSE /\ onRestart' = FALSE
  /\ UNCHANGED <<disk, count, dat, litter, pend, process, list, undo, faults, history>>

\* MakeDir for the file, then its temporary file, extracted or downloaded.
FreshTemp(f) ==
  LET used == {t.n : t \in {u \in temps : u.file = f /\ u.ses = ses}}
  IN  [file |-> f, n |-> Cardinality(used), ses |-> ses]

ExtractToTemp ==
  /\ pc = "temp"
  /\ LET dirOpts == Cur.opts \cap DirOptions IN
     \/ /\ MakeParent(DirOf[Cur.file], dirOpts)
        /\ UNCHANGED <<temps, tmp, left, pc>>
     \/ /\ MakeLast(DirOf[Cur.file], dirOpts)
        /\ tmp' = FreshTemp(Cur.file)
        /\ temps' = temps \cup {FreshTemp(Cur.file)}
        /\ left' = TRUE
        /\ pc' = IF exists THEN "delete" ELSE "move"
  /\ UNCHANGED <<fs, count, dat, litter, pend, process, checked, existed, exists,
                 onRestart, undo, faults, history>>

DeleteExisting ==
  /\ pc = "delete"
  /\ fs' = [fs EXCEPT ![Cur.file] = Absent]
  /\ pc' = "move"
  /\ UNCHANGED <<temps, dirs, count, dat, litter, pend, process, list, entry, undo,
                 faults, history>>

\* What ends up in the log for a file that was installed; shared files are
\* recorded in ShareEntry.
RecordInstalled(t) ==
  IF Opt("neveruninstall") \/ Opt("shared") THEN list
  ELSE Append(list, FileRec(Cur.file, t, existed, Cur.opts))

MoveIntoPlace ==
  /\ pc = "move"
  /\ fs' = [fs EXCEPT ![Cur.file] = ses]
  /\ temps' = temps \ {tmp} /\ tmp' = NoTmp /\ left' = FALSE
  /\ list' = RecordInstalled(NoTmp)
  /\ pc' = "share"
  /\ UNCHANGED <<dirs, count, dat, litter, pend, process, checked, existed, exists,
                 onRestart, undo, faults, history>>

\* DoHandleFailedDeleteOrMoveFileTry with foRestartReplace: the existing
\* file is in use, the temporary file stays until the restart.
ReplaceOnRestart ==
  /\ pc \in {"delete", "move"} /\ Opt("restartreplace") /\ Fault
  /\ pend' = Append(pend, [op |-> "replace", file |-> Cur.file, tmp |-> tmp])
  /\ onRestart' = TRUE /\ left' = FALSE
  /\ list' = RecordInstalled(tmp)
  /\ pc' = "share"
  /\ UNCHANGED <<disk, count, dat, litter, process, tmp, checked, existed, exists,
                 undo, history>>

\* IncrementSharedCount: a file that was there without a count had a user.
Incremented(f, alreadyExisted) ==
  [count EXCEPT ![f] = IF @ = 0 /\ alreadyExisted THEN 2 ELSE @ + 1]

\* From the Skip label: runs for skipped files as well.
ShareEntry ==
  /\ pc = "share"
  /\ IF Opt("shared")
     THEN /\ count' = Incremented(Cur.file, existed)
          /\ slack' = [slack EXCEPT ![Cur.file] =
                         IF count[Cur.file] = 0 /\ existed THEN @ + 1 ELSE @]
          /\ list' = Append(list, IF Opt("neveruninstall") THEN CountRec(Cur.file)
                                  ELSE FileRec(Cur.file, tmp, existed, Cur.opts))
     ELSE UNCHANGED <<count, slack, list>>
  /\ excused' = IF tmp = NoTmp THEN excused \ {Cur.file} ELSE excused
  /\ pc' = "finish"
  /\ UNCHANGED <<disk, dat, litter, pend, process, entry, undo, faults, start>>

FinishEntry ==
  /\ pc = "finish"
  /\ NextEntry
  /\ UNCHANGED <<disk, count, dat, litter, pend, app, ses, created, list, undo,
                 faults, history>>

\* The finally part: the temporary file goes if nobody took it over.
DropLeftOver ==
  /\ temps' = IF left THEN temps \ {tmp} ELSE temps
  /\ tmp' = NoTmp /\ left' = FALSE

\* A call of the entry raises: creating the directory or the temporary
\* file, extracting, DeleteFile, MoveFile, MoveFileEx, RegCreateKeyEx, the
\* GAC.  A shared file that IncrementSharedCount failed for is not recorded.
EntryRaises ==
  /\ pc \in {"temp", "delete", "move", "share", "finish"} /\ Fault
  /\ pc = "share" => Opt("shared")
  /\ pc = "finish" => Opt("gacinstall")
  /\ DropLeftOver
  /\ excused' = IF pc = "share"
                THEN excused \cup {IF tmp = NoTmp THEN Cur.file ELSE tmp} ELSE excused
  /\ pc' = "ask"
  /\ UNCHANGED <<fs, dirs, count, dat, litter, pend, process, list, checked, existed,
                 exists, onRestart, undo, start, slack>>

\* AbortRetryIgnoreTaskDialogMsgBox; Abort is a Cancel.
AskRetry ==
  /\ pc = "ask" /\ pc' = "entry"
  /\ UNCHANGED <<disk, count, dat, litter, pend, process, list, entry, undo, faults, history>>
AskIgnore ==
  /\ pc = "ask" /\ NextEntry
  /\ UNCHANGED <<disk, count, dat, litter, pend, app, ses, created, list, undo,
                 faults, history>>

\* EAbort from ProcessEvents or the dialog, or a fatal exception outside
\* ProcessFileEntry.
Cancel ==
  /\ pc \in {"dirs", "reserve", "entry", "temp", "delete", "move", "ask", "save"}
  /\ temps' = IF left THEN temps \ {tmp} ELSE temps
  /\ ClearEntry
  /\ pc' = "rollback"
  /\ UNCHANGED <<fs, dirs, count, dat, litter, pend, process, list, undo, faults, history>>

\* UninstLog.Save, then Clear.
EndProcess ==
  /\ pc' = "idle" /\ idx' = 1 /\ created' = FALSE /\ UNCHANGED <<app, ses>>
  /\ ClearEntry
  /\ uninstaller' = FALSE /\ notRemoved' = <<>> /\ restartDirs' = {}

SaveLog ==
  /\ pc = "save"
  /\ dat' = [dat EXCEPT ![app] = Log(app) \o list]
  /\ list' = <<>>
  /\ EndProcess
  /\ UNCHANGED <<disk, count, litter, pend, faults, history>>
-----------------------------------------------------------------------------
(* TUninstallLog.PerformUninstall, for both callers.                       *)

StartUninstall(a) ==
  /\ pc = "idle" /\ Log(a) # <<>>
  /\ pc' = "step2" /\ app' = a /\ uninstaller' = TRUE
  /\ list' = Log(a) /\ idx' = Len(Log(a))
  /\ start' = Snapshot /\ excused' = {}
  /\ UNCHANGED <<disk, count, dat, litter, pend, ses, created, entry, notRemoved,
                 restartDirs, faults, slack>>

\* The exception handler of PerformInstall: a reserved log is deleted, the
\* records in memory are undone.
Rollback ==
  /\ pc = "rollback"
  /\ dat' = IF created THEN [dat EXCEPT ![app] = NoLog] ELSE dat
  /\ pc' = "step2" /\ idx' = Len(list)
  /\ UNCHANGED <<disk, count, litter, pend, app, ses, created, list, entry, undo,
                 faults, history>>

\* DecrementSharedCount: a missing value is left missing and says False.
Decremented(f) == [count EXCEPT ![f] = IF @ = 0 THEN 0 ELSE @ - 1]
ReachesZero(f) == count[f] = 1

\* Step 2 looks at the shared files; from Setup, those that existed before
\* are left to Step 3.
CountedInStep2(rec) ==
  /\ rec.typ = "file" /\ "shared" \in rec.opts
  /\ uninstaller \/ ~rec.existed

\* The record is kept for Step 3 when the count reached zero, unless
\* ShouldRemoveSharedFile, where the uninstaller asks, declines.
MayKeepForStep3(rec) == ReachesZero(rec.file)

MayDecline(rec) ==
  uninstaller /\ fs[rec.file] # Absent /\ "noprompt" \notin rec.opts

Step2 ==
  /\ pc = "step2" /\ idx > 0
  /\ idx' = idx - 1
  /\ LET rec == list[idx] IN
     \/ /\ ~CountedInStep2(rec)
        /\ UNCHANGED <<count, list, faults, excused, slack>>
     \/ /\ CountedInStep2(rec)
        /\ count' = Decremented(rec.file)
        /\ \/ MayKeepForStep3(rec) /\ UNCHANGED list
           \/ /\ MayKeepForStep3(rec) => MayDecline(rec)
              /\ list' = RemoveAt(list, idx)
        /\ UNCHANGED <<faults, excused, slack>>
     \/ /\ CountedInStep2(rec) /\ Fault   \* DecrementSharedCount raises
        /\ list' = RemoveAt(list, idx)
        /\ excused' = excused \cup {rec.file, rec.tmp}
        /\ slack' = [slack EXCEPT ![rec.file] = @ + 1]
        /\ UNCHANGED count
  /\ UNCHANGED <<disk, dat, litter, pend, pc, app, ses, created, entry, undo, start>>

EndStep2 ==
  /\ pc = "step2" /\ idx = 0
  /\ pc' = "step3"
  /\ UNCHANGED <<disk, count, dat, litter, pend, process, list, entry, undo, faults,
                 history>>

\* Step 3 takes the newest record and deletes it whatever comes of it.
Newest == list[Len(list)]
TakeNewest(typ) ==
  /\ pc = "step3" /\ list # <<>> /\ Newest.typ = typ
  /\ list' = Front(list)
  /\ UNCHANGED <<dat, litter, pc, process, entry, uninstaller, start>>

\* Mutant: the directory is forgotten.
ForgetDir(d) == notRemoved

\* LoggedDeleteDir during Step 3, where the uninstaller has DirsNotRemoved.
RetryLater(d) ==
  IF uninstaller /\ ~Contains(notRemoved, d) THEN Append(notRemoved, d) ELSE notRemoved

UndoDir ==
  /\ TakeNewest("dir")
  /\ LET d == Newest.dir IN
     IF d \in dirs /\ ~IsEmptyDir(d)
     THEN notRemoved' = RetryLater(d) /\ UNCHANGED dirs
     ELSE dirs' = dirs \ {d} /\ UNCHANGED notRemoved
  /\ UNCHANGED <<fs, temps, count, pend, restartDirs, faults, excused, slack>>

UndoCount ==
  /\ TakeNewest("count")
  /\ \/ /\ count' = Decremented(Newest.file)
        /\ UNCHANGED <<faults, slack>>
     \/ /\ Fault
        /\ slack' = [slack EXCEPT ![Newest.file] = @ + 1]
        /\ UNCHANGED count
  /\ UNCHANGED <<disk, pend, notRemoved, restartDirs, excused>>

\* Mutant: DestFileExistedBefore is not looked at.
DestGoesInAnyCase(rec) == uninstaller \/ rec.tmp = NoTmp

\* From Setup, a file that existed before is not deleted, and one that was
\* to be replaced on restart only loses its temporary file.
DestGoes(rec) == uninstaller \/ (~rec.existed /\ rec.tmp = NoTmp)
TempGoes(rec) == ~uninstaller /\ rec.tmp # NoTmp

\* Mutant: the half of the counting that Step 2 left to Step 3 is missing.
NotCountedInStep3(rec) == FALSE

CountedInStep3(rec) ==
  ~uninstaller /\ rec.existed /\ "shared" \in rec.opts

UndoFile ==
  /\ TakeNewest("file")
  /\ count' = IF CountedInStep3(Newest) THEN Decremented(Newest.file) ELSE count
  /\ fs' = IF DestGoes(Newest) THEN [fs EXCEPT ![Newest.file] = Absent] ELSE fs
  /\ temps' = IF TempGoes(Newest) THEN temps \ {Newest.tmp} ELSE temps
  /\ UNCHANGED <<dirs, pend, notRemoved, restartDirs, faults, excused, slack>>

\* DecrementSharedCount raises: the rest of the record is not undone.
UndoFileRaises ==
  /\ TakeNewest("file") /\ CountedInStep3(Newest) /\ Fault
  /\ excused' = excused \cup {Newest.file, Newest.tmp}
  /\ slack' = [slack EXCEPT ![Newest.file] = @ + 1]
  /\ UNCHANGED <<disk, count, pend, notRemoved, restartDirs>>

\* LoggedFileDelete finds the file in use: the uninstaller may have it
\* deleted on restart, otherwise it stays.
UndoFileInUse ==
  /\ TakeNewest("file") /\ Fault
  /\ \/ TempGoes(Newest) /\ Newest.tmp \in temps
     \/ DestGoes(Newest) /\ fs[Newest.file] # Absent
  /\ count' = IF CountedInStep3(Newest) THEN Decremented(Newest.file) ELSE count
  /\ IF uninstaller /\ "restartdelete" \in Newest.opts
     THEN /\ pend' = Append(pend, [op |-> "delete", file |-> Newest.file])
          /\ restartDirs' = restartDirs \cup {DirOf[Newest.file]}
          /\ UNCHANGED excused
     ELSE /\ excused' = excused \cup {Newest.file, Newest.tmp}
          /\ UNCHANGED <<pend, restartDirs>>
  /\ UNCHANGED <<disk, notRemoved, slack>>

EndRollback ==
  /\ pc = "step3" /\ list = <<>> /\ ~uninstaller
  /\ EndProcess
  /\ UNCHANGED <<disk, count, dat, litter, pend, list, faults, history>>

\* DeleteUninstallDataFiles, then LoggedProcessDirsNotRemoved in the order
\* in which the directories could not be removed.
DeleteUninstallDataFiles ==
  /\ pc = "step3" /\ list = <<>> /\ uninstaller
  /\ dat' = [dat EXCEPT ![app] = NoLog]
  /\ pc' = "retrydirs"
  /\ UNCHANGED <<disk, count, litter, pend, process, list, entry, undo, faults, history>>

\* Mutant: only the directory of the file itself counts.
SameDirRestarts(d) == d \in restartDirs

\* ListContainsPathOrSubdir
RestartDeletesUnder(d) == \E e \in restartDirs : d \in Path[e]

ProcessDirsNotRemoved ==
  /\ pc = "retrydirs" /\ notRemoved # <<>>
  /\ notRemoved' = Tail(notRemoved)
  /\ LET d == Head(notRemoved) IN
     IF d \in dirs /\ ~IsEmptyDir(d)
     THEN /\ pend' = IF RestartDeletesUnder(d)
                     THEN Append(pend, [op |-> "rmdir", dir |-> d]) ELSE pend
          /\ UNCHANGED dirs
     ELSE dirs' = dirs \ {d} /\ UNCHANGED pend
  /\ UNCHANGED <<fs, temps, count, dat, litter, pc, process, list, entry,
                 uninstaller, restartDirs, faults, history>>

EndUninstall ==
  /\ pc = "retrydirs" /\ notRemoved = <<>>
  /\ EndProcess
  /\ UNCHANGED <<disk, count, dat, litter, pend, list, faults, history>>
-----------------------------------------------------------------------------
(* The machine.                                                            *)

\* Windows carries out one pending operation; one that cannot be done is
\* dropped.
Pending(w, op) ==
  CASE op.op = "replace" /\ op.tmp \in w.temps ->
         [w EXCEPT !.fs[op.file] = op.tmp.ses, !.temps = @ \ {op.tmp}]
    [] op.op = "delete" -> [w EXCEPT !.fs[op.file] = Absent]
    [] op.op = "rmdir" /\ EmptyIn(op.dir, w.fs, w.temps, w.dirs) ->
         [w EXCEPT !.dirs = @ \ {op.dir}]
    [] OTHER -> w

Restart ==
  /\ pc = "idle" /\ pend # <<>>
  /\ LET w == FoldLeft(Pending, [fs |-> fs, temps |-> temps, dirs |-> dirs], pend)
     IN  fs' = w.fs /\ temps' = w.temps /\ dirs' = w.dirs
  /\ pend' = <<>>
  /\ UNCHANGED <<count, dat, litter, pc, process, list, entry, undo, faults, history>>

\* The process is killed.  The log in memory is lost; a reserved file stays
\* and is never appended to.
Crash ==
  /\ pc # "idle" /\ (IF uninstaller THEN "uninstall" ELSE "install") \in CrashIn
  /\ Fault
  /\ dat' = [a \in Apps |-> IF dat[a] = Reserved THEN NoLog ELSE dat[a]]
  /\ litter' = litter \cup {AppDir[a] : a \in {b \in Apps : dat[b] = Reserved}}
  /\ list' = <<>>
  /\ slack' = [f \in Files |-> count[f] - Refs(f)]
  /\ EndProcess
  /\ UNCHANGED <<disk, count, pend, start, excused>>

Next ==
  \/ \E a \in Apps : StartInstall(a) \/ StartUninstall(a)
  \/ CreateDirs \/ GenerateUninstallInfoFilename
  \/ BeginEntry \/ ExtractToTemp \/ DeleteExisting \/ MoveIntoPlace
  \/ ReplaceOnRestart \/ ShareEntry \/ FinishEntry
  \/ EntryRaises \/ AskRetry \/ AskIgnore \/ Cancel
  \/ SaveLog
  \/ Rollback
  \/ Step2 \/ EndStep2
  \/ UndoDir \/ UndoCount \/ UndoFile \/ UndoFileRaises \/ UndoFileInUse
  \/ EndRollback
  \/ DeleteUninstallDataFiles \/ ProcessDirsNotRemoved \/ EndUninstall
  \/ Restart \/ Crash

Spec == Init /\ [][Next]_vars
-----------------------------------------------------------------------------
EntryOf(a, f) == {Entries[a][i] : i \in {j \in DOMAIN Entries[a] : Entries[a][j].file = f}}
Flagged(a, f, o) == \E e \in EntryOf(a, f) : o \in e.opts

\* The directories named by the log the process found.
LoggedDirs ==
  LET log == Records(start.dat[app])
  IN  {log[i].dir : i \in {j \in DOMAIN log : log[j].typ = "dir"}}

MayStay(f, what) ==
  what \in excused \/ Flagged(app, f, "neveruninstall") \/ start.count[f] > 0

TypeOK ==
  /\ fs \in [Files -> Content]
  /\ temps \subseteq Temp
  /\ dirs \subseteq Dirs /\ litter \subseteq Dirs
  /\ count \in [Files -> Nat]
  /\ \A a \in Apps : dat[a] \in {NoLog, Reserved} \cup Seq(UndoRec)
  /\ list \in Seq(UndoRec)
  /\ app \in Apps /\ ses \in 0..MaxSessions /\ idx \in Nat
  /\ tmp \in Temp \cup {NoTmp}
  /\ {created, left, checked, existed, exists, onRestart, uninstaller} \subseteq BOOLEAN
  /\ notRemoved \in Seq(Dirs) /\ restartDirs \subseteq Dirs
  /\ faults \in 0..MaxFaults
  /\ slack \in [Files -> Int]

\* A file under a reference count is only removed when nobody else refers to
\* it: no other installed application (not by that one's uninstaller, by a
\* rollback, or by a delete that had to wait for a restart), and no unlogged
\* user, like the one a file that was there without a count is taken to have.
\* (Replacing the file deletes it too; that is DeleteExisting.)
SharedFileKept ==
  [][\A f \in Files :
       fs[f] # Absent /\ fs'[f] = Absent /\ pc # "delete" =>
         /\ \A a \in Apps : (a = app /\ uninstaller) \/ RefsIn(Log(a), f) = 0
         /\ (\E a \in Apps : Flagged(a, f, "shared")) => slack[f] <= 0]_vars

\* Between sessions every reference in SharedDLLs is one that a log will
\* give back, whichever of retry, ignore, cancel, append, rollback and
\* uninstall came before; `slack` has the ones of users without a log and
\* of failed decrements.
NoReferencesLeaked ==
  pc = "idle" => \A f \in Files : count[f] = Refs(f) + slack[f]

\* Directories made for something that is never uninstalled.
NeverUninstalled(d) ==
  \/ \E i \in DOMAIN ExtraDirs[app] :
       "neveruninstall" \in ExtraDirs[app][i].opts /\ d \in Path[ExtraDirs[app][i].dir]
  \/ \E i \in DOMAIN Entries[app] :
       "neveruninstall" \in Entries[app][i].opts /\ d \in Path[DirOf[Entries[app][i].file]]

\* A rollback removes everything its session brought: files, temporary
\* files, directories it created and the reserved log; except what is never
\* uninstalled, and a shared file that had a count, even if the file itself
\* was missing.
RollbackLeavesNothing ==
  pc = "step3" /\ list = <<>> /\ ~uninstaller =>
    /\ \A f \in Files : start.fs[f] = Absent /\ fs[f] # Absent => MayStay(f, f)
    /\ \A t \in temps \ start.temps : MayStay(t.file, t)
    /\ \A d \in dirs \ start.dirs : NeverUninstalled(d) \/ ~IsEmptyDir(d)
    /\ dat = start.dat

\* A rollback takes no file and no directory that was there before.
RollbackSparesOthers ==
  [][pc = "step3" /\ ~uninstaller =>
       /\ \A f \in Files : fs[f] # Absent /\ fs'[f] = Absent => start.fs[f] = Absent
       /\ \A d \in start.dirs \cap dirs : d \in dirs' \/ \E i \in DOMAIN ExtraDirs[app] :
            ExtraDirs[app][i] = [dir |-> d, opts |-> {"alwaysuninstall"}]]_vars

\* When the uninstaller is done, no directory that its log names is left
\* empty, the one the log was in and its parents included.
UninstallLeavesNoEmptyDir ==
  pc = "retrydirs" /\ notRemoved = <<>> =>
    \A d \in LoggedDirs \cap dirs : ~IsEmptyDir(d)

\* After an uninstallation that left files of its own to the restart, the
\* restart also removes the logged directories that this empties.
Awaits(d) ==
  \E j \in DOMAIN pend : /\ pend[j].op = "delete"
                          /\ d \in Path[DirOf[pend[j].file]]
                          /\ EntryOf(app, pend[j].file) # {}
RestartRemovesDirs ==
  [][pend # <<>> /\ pend' = <<>> /\ dat[app] = NoLog =>
       \A d \in LoggedDirs \cap dirs' : Awaits(d) => ~EmptyIn(d, fs', temps', dirs')]_vars
=============================================================================
