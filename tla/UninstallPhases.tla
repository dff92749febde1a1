----------------------------- MODULE UninstallPhases ---------------------------
(***************************************************************************)
(* The processes of running uninstallers and the directories of their      *)
(* copies. An uninstaller cannot delete itself, so its first phase copies  *)
(* it to a directory of its own under TEMP and runs the copy, the second   *)
(* phase; where the installation needs it, the first phase is run elevated *)
(* by an initial process that waits for it. The second phase opens the log *)
(* (.dat) for exclusive access, sweeps what earlier runs left under TEMP,  *)
(* uninstalls, deletes the log, marks its directory done, tells the first  *)
(* phase to end and deletes the uninstaller.                               *)
(*                                                                         *)
(* Several runs go on at once, of one application or of different ones.    *)
(* Any of their processes may be killed, and what they ask of Windows may  *)
(* fail.                                                                   *)
(***************************************************************************)
EXTENDS Naturals, FiniteSets

CONSTANTS
  Runs,      \* uninstallers that are started
  Apps,      \* installed applications
  Plans,     \* which run is of which application
  None,
  MaxFaults  \* bound: processes killed and calls of Windows that fail

ASSUME RunsAssumption ==
  /\ None \notin Runs
  /\ Plans \subseteq [Runs -> Apps]
  /\ MaxFaults \in Nat

VARIABLES
  app,       \* [Runs -> Apps]
  elevates,  \* runs whose first phase has to be respawned elevated
  initial,   \* the process that respawned: "none", "new", "waiting", "ended"
  first,     \* the first phase: what it does next
  second,    \* the second phase: what it does next
  kill,      \* runs with WM_KillFirstPhase in the queue of the first phase
  log,       \* the .dat of each application: "full", "empty", "gone"
  holder,    \* the run that has it open, always with fsNone
  installed, \* applications whose uninstaller (unins000.exe) is there
  temp,      \* the directory of each run: there, exe, done, recent
  handle,    \* the run that holds each directory open for DELETE
  todo,      \* directories a sweep has yet to look at
  sweep,     \* the directory it is looking at, and what it knows about it
  raced,     \* history: runs between closing and reopening the log when another reopened it
  killed,    \* history: runs of which a process was killed, and those it swept
  faults,    \* history: processes killed and calls that failed, for MaxFaults
  copyLeft,  \* history: runs of which a failure may leave the copy and no mark
  markLeft   \* history: runs of which a failure may leave the mark and no copy

plan     == <<app, elevates>>
process  == <<initial, first, second, kill>>
files    == <<log, holder, installed>>
sweeping == <<handle, todo, sweep>>
left     == <<copyLeft, markLeft>>
fate     == <<raced, killed, left>>
vars == <<plan, process, files, temp, sweeping, fate, faults>>

NoDir   == [there |-> FALSE, exe |-> FALSE, done |-> FALSE, recent |-> FALSE]
NoSweep == [dir |-> None, at |-> "next", old |-> FALSE, deleted |-> FALSE]

TypeOK ==
  /\ app \in Plans /\ elevates \subseteq Runs
  /\ initial \in [Runs -> {"none", "new", "waiting", "ended"}]
  /\ first \in [Runs -> {"none", "new", "create", "copy", "exec", "waiting", "delete",
                         "remove", "ended"}]
  /\ second \in [Runs -> {"none", "open", "loaded", "reopen", "sweep", "perform", "truncate",
                          "close", "data", "done", "tell", "wait", "exe", "ended"}]
  /\ kill \subseteq Runs
  /\ log \in [Apps -> {"full", "empty", "gone"}]
  /\ holder \in [Apps -> Runs \union {None}]
  /\ installed \subseteq Apps
  /\ temp \in [Runs -> [there : BOOLEAN, exe : BOOLEAN, done : BOOLEAN, recent : BOOLEAN]]
  /\ handle \in [Runs -> Runs \union {None}]
  /\ todo \in [Runs -> SUBSET Runs]
  /\ sweep \in [Runs -> [dir : Runs \union {None}, at : {"next", "exe", "done", "dir"},
                         old : BOOLEAN, deleted : BOOLEAN]]
  /\ raced \subseteq Runs /\ killed \subseteq Runs /\ faults \in 0 .. MaxFaults
  /\ copyLeft \subseteq Runs /\ markLeft \subseteq Runs

Init ==
  /\ app \in Plans
  /\ elevates \in SUBSET Runs
  /\ initial = [r \in Runs |-> IF r \in elevates THEN "new" ELSE "none"]
  /\ first = [r \in Runs |-> IF r \in elevates THEN "none" ELSE "new"]
  /\ second = [r \in Runs |-> "none"]
  /\ kill = {}
  /\ log = [a \in Apps |-> "full"]
  /\ holder = [a \in Apps |-> None]
  /\ installed = Apps
  /\ temp = [r \in Runs |-> NoDir]
  /\ handle = [r \in Runs |-> None]
  /\ todo = [r \in Runs |-> {}]
  /\ sweep = [r \in Runs |-> NoSweep]
  /\ raced = {} /\ killed = {} /\ faults = 0
  /\ copyLeft = {} /\ markLeft = {}

Gone == {"none", "ended"}            \* no such process

\* One more process is killed, or one more call fails; or nothing of the kind.
Fault   == faults < MaxFaults /\ faults' = faults + 1
NoFault == UNCHANGED faults

\* Mutant: the file is opened for shared access.
CanOpenShared(r) == log[app[r]] # "gone"

\* OpenUninstDataFile: every access is exclusive.
CanOpen(r) == log[app[r]] # "gone" /\ holder[app[r]] = None
--------------------------------------------------------------------------------
(* The initial process and the first phase.                                 *)

\* RespawnFirstPhaseIfNeeded reads the flags of the log; then either this
\* process becomes the first phase, or it runs it elevated and waits for it.
\* No log, a log in use, or no consent of the user is the end of the run.
Start(r) ==
  LET On(a, b) == initial' = [initial EXCEPT ![r] = a] /\ first' = [first EXCEPT ![r] = b] IN
  /\ initial[r] = "new" \/ first[r] = "new"
  /\ \/ CanOpen(r) /\ log[app[r]] = "full" /\ r \notin elevates /\ On("none", "create")
     \/ CanOpen(r) /\ log[app[r]] = "full" /\ r \in elevates    /\ On("waiting", "create")
     \/ On(IF r \in elevates THEN "ended" ELSE "none", "ended")
  /\ UNCHANGED <<plan, second, kill, files, temp, sweeping, fate, faults>>

\* RespawnSelfElevated: the process that waits for the first phase.
InitialEnds(r) ==
  /\ initial[r] = "waiting" /\ first[r] = "ended"
  /\ initial' = [initial EXCEPT ![r] = "ended"]
  /\ UNCHANGED <<plan, first, second, kill, files, temp, sweeping, fate, faults>>

\* RunFirstPhase: CreateTempDir makes a directory of a new name, or raises.
CreateTemp(r) ==
  /\ first[r] = "create"
  /\ \/ /\ temp' = [temp EXCEPT ![r] = [NoDir EXCEPT !.there = TRUE, !.recent = TRUE]]
        /\ first' = [first EXCEPT ![r] = "copy"]
     \/ /\ first' = [first EXCEPT ![r] = "ended"]
        /\ UNCHANGED temp
  /\ UNCHANGED <<plan, initial, second, kill, files, sweeping, fate, faults>>

\* CopyFile; when it fails, the directory is removed again.
CopySelf(r) ==
  /\ first[r] = "copy"
  /\ \/ /\ temp[r].there
        /\ temp' = [temp EXCEPT ![r].exe = TRUE, ![r].recent = TRUE]
        /\ first' = [first EXCEPT ![r] = "exec"]
     \/ /\ first' = [first EXCEPT ![r] = "delete"]
        /\ UNCHANGED temp
  /\ UNCHANGED <<plan, initial, second, kill, files, sweeping, fate, faults>>

Exec(r) ==
  /\ first[r] = "exec"
  /\ \/ /\ temp[r].exe
        /\ second' = [second EXCEPT ![r] = "open"]
        /\ first' = [first EXCEPT ![r] = "waiting"]
     \/ /\ first' = [first EXCEPT ![r] = "delete"]
        /\ UNCHANGED second
  /\ UNCHANGED <<plan, initial, kill, files, temp, sweeping, fate, faults>>

\* The loop ends with WM_QUIT or with the end of the second phase, whichever
\* it sees; only in the second case is the directory its own to delete.
FirstPhaseQuits(r) ==
  /\ first[r] = "waiting" /\ r \in kill
  /\ first' = [first EXCEPT ![r] = "ended"]
  /\ kill' = kill \ {r}
  /\ UNCHANGED <<plan, initial, second, files, temp, sweeping, fate, faults>>

\* Mutant: the first phase leaves the copy when the second has ended.
SecondPhaseForgotten(r) ==
  /\ first[r] = "waiting" /\ second[r] = "ended"
  /\ first' = [first EXCEPT ![r] = "ended"]
  /\ kill' = kill \ {r}
  /\ UNCHANGED <<plan, initial, second, files, temp, sweeping, fate, faults>>

\* MsgWaitForMultipleObjects: the second phase has ended.
SecondPhaseDied(r) ==
  /\ first[r] = "waiting" /\ second[r] = "ended"
  /\ first' = [first EXCEPT ![r] = "delete"]
  /\ kill' = kill \ {r}
  /\ UNCHANGED <<plan, initial, second, files, temp, sweeping, fate, faults>>

\* The wait fails: the first phase ends and leaves the directory alone, as it
\* cannot know whether the second one is still there.
WaitFails(r) ==
  /\ first[r] = "waiting" /\ Fault
  /\ first' = [first EXCEPT ![r] = "ended"]
  /\ kill' = kill \ {r}
  /\ copyLeft' = copyLeft \union {r}
  /\ UNCHANGED <<plan, initial, second, files, temp, sweeping, raced, killed, markLeft>>

\* DelayDeleteFile gives up on a file that is in use for too long.
DeleteCopy(r) ==
  /\ first[r] = "delete"
  /\ \/ /\ temp' = [temp EXCEPT ![r].exe = FALSE, ![r].recent = @ \/ temp[r].exe]
        /\ NoFault /\ UNCHANGED copyLeft
     \/ /\ temp[r].exe /\ Fault
        /\ copyLeft' = copyLeft \union {r}
        /\ UNCHANGED temp
  /\ first' = [first EXCEPT ![r] = "remove"]
  /\ UNCHANGED <<plan, initial, second, kill, files, sweeping, raced, killed, markLeft>>

\* RemoveDirectory fails for a directory with a file in it or a handle on it,
\* and may fail for any other.
IsEmpty(d) == temp[d].there /\ ~temp[d].exe /\ ~temp[d].done

RemoveTemp(r) ==
  /\ first[r] = "remove"
  /\ IF IsEmpty(r) /\ handle[r] = None
     THEN \/ NoFault /\ temp' = [temp EXCEPT ![r] = NoDir]
          \/ Fault /\ UNCHANGED temp
     ELSE NoFault /\ UNCHANGED temp
  /\ first' = [first EXCEPT ![r] = "ended"]
  /\ UNCHANGED <<plan, initial, second, kill, files, sweeping, fate>>
--------------------------------------------------------------------------------
(* The second phase.                                                        *)

\* An exception, or a No of the user: what the process holds is closed.
Close(r) == [holder EXCEPT ![app[r]] = IF @ = r THEN None ELSE @]

Abort(r) ==
  /\ second[r] \in {"loaded", "perform"}
  /\ second' = [second EXCEPT ![r] = "ended"]
  /\ holder' = Close(r)
  /\ UNCHANGED <<plan, initial, first, kill, log, installed, temp, sweeping, fate, faults>>

OpenLog(r) ==
  /\ second[r] = "open"
  /\ \/ /\ CanOpen(r) /\ log[app[r]] = "full"
        /\ second' = [second EXCEPT ![r] = "loaded"]
        /\ holder' = [holder EXCEPT ![app[r]] = r]
     \/ /\ second' = [second EXCEPT ![r] = "ended"]
        /\ UNCHANGED holder
  /\ UNCHANGED <<plan, initial, first, kill, log, installed, temp, sweeping, fate, faults>>

\* FreeAndNil(UninstDataFile), before it is opened again.
CloseLog(r) ==
  /\ second[r] = "loaded"
  /\ second' = [second EXCEPT ![r] = "reopen"]
  /\ holder' = Close(r)
  /\ UNCHANGED <<plan, initial, first, kill, log, installed, temp, sweeping, fate, faults>>

\* What is loaded is not looked at again: a log that is empty by now will do.
ReopenLog(r) ==
  /\ second[r] = "reopen"
  /\ \/ /\ CanOpen(r)
        /\ second' = [second EXCEPT ![r] = "sweep"]
        /\ holder' = [holder EXCEPT ![app[r]] = r]
        /\ todo' = [todo EXCEPT ![r] = {d \in Runs \ {r} : temp[d].there}]
        /\ raced' = raced \union {q \in Runs \ {r} : app[q] = app[r] /\ second[q] = "reopen"}
     \/ /\ second' = [second EXCEPT ![r] = "ended"]
        /\ UNCHANGED <<holder, todo, raced>>
  /\ UNCHANGED <<plan, initial, first, kill, log, installed, temp, handle, sweep,
                 killed, left, faults>>

\* DeleteResidualTempUninstallDirs is over.
EndSweep(r) ==
  /\ second[r] = "sweep" /\ sweep[r].at = "next" /\ todo[r] = {}
  /\ second' = [second EXCEPT ![r] = "perform"]
  /\ UNCHANGED <<plan, initial, first, kill, files, temp, sweeping, fate, faults>>

\* PerformUninstall up to DeleteUninstallDataFiles.
Perform(r) ==
  /\ second[r] = "perform"
  /\ second' = [second EXCEPT ![r] = "truncate"]
  /\ UNCHANGED <<plan, initial, first, kill, files, temp, sweeping, fate, faults>>

\* DeleteUninstallDataFiles, step by step. What fails is passed over.
TruncateLog(r) ==
  /\ second[r] = "truncate"
  /\ second' = [second EXCEPT ![r] = "close"]
  /\ \/ NoFault /\ log' = [log EXCEPT ![app[r]] = "empty"]
     \/ Fault /\ UNCHANGED log
  /\ UNCHANGED <<plan, initial, first, kill, holder, installed, temp, sweeping, fate>>

ReleaseLog(r) ==
  /\ second[r] = "close"
  /\ second' = [second EXCEPT ![r] = "data"]
  /\ holder' = Close(r)
  /\ UNCHANGED <<plan, initial, first, kill, log, installed, temp, sweeping, fate, faults>>

\* DeleteFile does nothing to a file another process has open, and may fail
\* for any other.
DeleteLog(r) ==
  /\ second[r] = "data"
  /\ second' = [second EXCEPT ![r] = "done"]
  /\ IF holder[app[r]] = None
     THEN \/ NoFault /\ log' = [log EXCEPT ![app[r]] = "gone"]
          \/ Fault /\ UNCHANGED log
     ELSE NoFault /\ UNCHANGED log
  /\ UNCHANGED <<plan, initial, first, kill, holder, installed, temp, sweeping, fate>>

\* CreateUninstallDoneFile: the file stays open as long as the process runs.
\* When it cannot be created, that is logged and no more.
MarkDone(r) ==
  /\ second[r] = "done"
  /\ second' = [second EXCEPT ![r] = "tell"]
  /\ \/ /\ temp[r].there
        /\ temp' = [temp EXCEPT ![r].done = TRUE, ![r].recent = TRUE]
        /\ NoFault /\ UNCHANGED copyLeft
     \/ /\ Fault /\ copyLeft' = copyLeft \union {r}
        /\ UNCHANGED temp
  /\ UNCHANGED <<plan, initial, first, kill, files, sweeping, raced, killed, markLeft>>

\* Mutant: a first phase that was respawned is not told.
TellInitialProcess(r) ==
  /\ second[r] = "tell"
  /\ second' = [second EXCEPT ![r] = "wait"]
  /\ kill' = IF first[r] = "ended" \/ r \in elevates THEN kill ELSE kill \union {r}
  /\ UNCHANGED <<plan, initial, first, files, temp, sweeping, fate, faults>>

\* SendNotifyMessage to the window of the first phase, if there is one. The
\* second disjunct is a process that cannot be opened to be waited for, or a
\* window that could not be created and is told nothing.
TellFirstPhase(r) ==
  /\ second[r] = "tell"
  /\ \/ /\ second' = [second EXCEPT ![r] = "wait"]
        /\ kill' = IF first[r] = "ended" THEN kill ELSE kill \union {r}
        /\ NoFault /\ UNCHANGED markLeft
     \/ /\ first[r] # "ended" /\ Fault
        /\ second' = [second EXCEPT ![r] = "exe"]
        /\ kill' \in {kill, kill \union {r}}
        /\ markLeft' = markLeft \union {r}
  /\ UNCHANGED <<plan, initial, first, files, temp, sweeping, raced, killed, copyLeft>>

\* WaitForSingleObject on the initial process, or on the first phase if that
\* is the one that was started; one that is no more is not waited for.
WaitedFor(r) == IF r \in elevates THEN initial[r] ELSE first[r]

WaitForFirst(r) ==
  /\ second[r] = "wait" /\ WaitedFor(r) = "ended"
  /\ second' = [second EXCEPT ![r] = "exe"]
  /\ UNCHANGED <<plan, initial, first, kill, files, temp, sweeping, fate, faults>>

\* DelayDeleteFile gives up after 13 tries on a file that is still being run,
\* and may do so on any other.
IsBeingRun(a) == \E q \in Runs : app[q] = a /\ {first[q], initial[q]} \ Gone # {}

DeleteUninstaller(r) ==
  /\ second[r] = "exe"
  /\ second' = [second EXCEPT ![r] = "ended"]
  /\ IF ~IsBeingRun(app[r])
     THEN \/ NoFault /\ installed' = installed \ {app[r]}
          \/ Fault /\ UNCHANGED installed
     ELSE NoFault /\ UNCHANGED installed
  /\ UNCHANGED <<plan, initial, first, kill, log, holder, temp, sweeping, fate>>
--------------------------------------------------------------------------------
(* TryDeleteUninstallDir, for each directory the sweep has found.           *)

\* The handle keeps others from deleting the directory or sweeping it, too. One
\* that cannot be opened is passed over, and so is the rest when time is up.
OpenDir(r) ==
  /\ second[r] = "sweep" /\ sweep[r].at = "next"
  /\ \E d \in todo[r] :
       /\ todo' = [todo EXCEPT ![r] = @ \ {d}]
       /\ IF temp[d].there /\ handle[d] = None
          THEN \/ /\ NoFault
                  /\ handle' = [handle EXCEPT ![d] = r]
                  /\ sweep' = [sweep EXCEPT ![r] = [dir |-> d, at |-> "exe",
                                                    deleted |-> FALSE,
                                                    old |-> ~temp[d].recent]]
               \/ Fault /\ UNCHANGED <<handle, sweep>>
          ELSE NoFault /\ UNCHANGED <<handle, sweep>>
  /\ UNCHANGED <<plan, process, files, temp, fate>>

\* The mark can be opened when the process that made it has ended.
DoneCanBeOpened(d) == temp[d].done /\ second[d] = "ended"

SweepExe(r) ==
  LET d == sweep[r].dir IN
  /\ sweep[r].at = "exe"
  /\ \/ /\ DoneCanBeOpened(d) /\ temp[d].exe /\ NoFault
        /\ temp' = [temp EXCEPT ![d].exe = FALSE, ![d].recent = TRUE]
        /\ sweep' = [sweep EXCEPT ![r].deleted = TRUE, ![r].at = "done"]
     \/ /\ IF DoneCanBeOpened(d) /\ temp[d].exe THEN Fault ELSE NoFault
        /\ sweep' = [sweep EXCEPT ![r].deleted = FALSE, ![r].at = "dir"]
        /\ UNCHANGED temp
  /\ UNCHANGED <<plan, process, files, handle, todo, fate>>

\* Only with the copy gone is the mark deleted, and a failure is logged and no
\* more: no later sweep gets as far as to try it again.
SweepDone(r) ==
  LET d == sweep[r].dir IN
  /\ sweep[r].at = "done"
  /\ \/ /\ temp' = [temp EXCEPT ![d].done = FALSE]
        /\ NoFault /\ UNCHANGED markLeft
     \/ /\ Fault /\ markLeft' = markLeft \union {d}
        /\ UNCHANGED temp
  /\ sweep' = [sweep EXCEPT ![r].at = "dir"]
  /\ UNCHANGED <<plan, process, files, handle, todo, raced, killed, copyLeft>>

\* Mutant: an empty directory goes whatever its age.
MayRemoveAny(s) == TRUE

\* An empty directory goes if it was swept just now or is not recent; it stays
\* when that fails.
MayRemove(s) == s.old \/ s.deleted

SweepDir(r) ==
  LET d == sweep[r].dir IN
  /\ sweep[r].at = "dir"
  /\ IF MayRemove(sweep[r]) /\ IsEmpty(d)
     THEN \/ NoFault /\ temp' = [temp EXCEPT ![d] = NoDir]
          \/ Fault /\ UNCHANGED temp
     ELSE NoFault /\ UNCHANGED temp
  /\ handle' = [handle EXCEPT ![d] = None]
  /\ sweep' = [sweep EXCEPT ![r] = NoSweep]
  /\ UNCHANGED <<plan, process, files, todo, fate>>
--------------------------------------------------------------------------------
(* The environment.                                                         *)

\* Five minutes go by. A first phase does not take as long to begin copying.
Age(d) ==
  /\ temp[d].recent /\ first[d] # "copy"
  /\ temp' = [temp EXCEPT ![d].recent = FALSE]
  /\ UNCHANGED <<plan, process, files, sweeping, fate, faults>>

\* A process is killed; Windows closes what it had open.
KillSecond(r) ==
  /\ second[r] \notin Gone
  /\ second' = [second EXCEPT ![r] = "ended"]
  /\ holder' = Close(r)
  /\ handle' = [d \in Runs |-> IF handle[d] = r THEN None ELSE handle[d]]
  /\ todo' = [todo EXCEPT ![r] = {}]
  /\ sweep' = [sweep EXCEPT ![r] = NoSweep]
  /\ killed' = killed \union {r} \union {d \in Runs : handle[d] = r}
  /\ UNCHANGED <<initial, first, kill>>

KillFirst(r) ==
  /\ first[r] \notin Gone
  /\ first' = [first EXCEPT ![r] = "ended"]
  /\ kill' = kill \ {r}
  /\ killed' = killed \union {r}
  /\ UNCHANGED <<initial, second, holder, sweeping>>

KillInitial(r) ==
  /\ initial[r] = "waiting"
  /\ initial' = [initial EXCEPT ![r] = "ended"]
  /\ killed' = killed \union {r}
  /\ UNCHANGED <<first, second, kill, holder, sweeping>>

Kill(r) ==
  /\ Fault
  /\ KillSecond(r) \/ KillFirst(r) \/ KillInitial(r)
  /\ UNCHANGED <<plan, log, installed, temp, raced, left>>
--------------------------------------------------------------------------------
InitialStep(r) == Start(r) \/ InitialEnds(r)

FirstStep(r) == \/ CreateTemp(r) \/ CopySelf(r) \/ Exec(r)
                \/ FirstPhaseQuits(r) \/ SecondPhaseDied(r)
                \/ DeleteCopy(r) \/ RemoveTemp(r)

SecondStep(r) == \/ OpenLog(r) \/ CloseLog(r) \/ ReopenLog(r) \/ Abort(r)
                 \/ OpenDir(r) \/ SweepExe(r) \/ SweepDone(r) \/ SweepDir(r) \/ EndSweep(r)
                 \/ Perform(r) \/ TruncateLog(r) \/ ReleaseLog(r) \/ DeleteLog(r)
                 \/ MarkDone(r) \/ TellFirstPhase(r) \/ WaitForFirst(r)
                 \/ DeleteUninstaller(r)

Next == \E r \in Runs : \/ InitialStep(r) \/ FirstStep(r) \/ SecondStep(r)
                        \/ WaitFails(r) \/ Age(r) \/ Kill(r)

Spec == Init /\ [][Next]_vars

\* Every process is scheduled; the user answers the questions.
FairSpec == Spec /\ \A r \in Runs : /\ WF_vars(InitialStep(r))
                                    /\ WF_vars(FirstStep(r))
                                    /\ WF_vars(SecondStep(r))
--------------------------------------------------------------------------------
\* The directory of a run is there from its creation until the second phase
\* has ended, and so is the copy from the moment it was made: no sweep of
\* another run takes it away (TryDeleteUninstallDir).
CopyKept ==
  \A r \in Runs :
    /\ first[r] \in {"copy", "exec"} => temp[r].there
    /\ first[r] = "exec" \/ second[r] \notin Gone => temp[r].there /\ temp[r].exe

\* Of two runs for one application at most one uninstalls at a time, and none
\* on a log that was used up, with one exception: a run that had loaded it and
\* was about to open it again when the other one did (RunSecondPhase).
Uninstalling(r) == second[r] \in {"sweep", "perform", "truncate", "close"}

OneUninstall ==
  /\ \A r, q \in Runs : Uninstalling(r) /\ Uninstalling(q) /\ app[r] = app[q] => r = q
  /\ \A r \in Runs : second[r] \in {"sweep", "perform", "truncate"} /\ log[app[r]] # "full"
                       => r \in raced

\* What the processes of a run that ended by themselves leave behind, a later
\* sweep can remove: an empty directory, or the copy with its mark. A copy
\* without a mark, which no sweep touches, stays only if the mark could not be
\* created, the first phase could not wait, or gave up deleting the copy; a mark
\* without a copy, which no sweep can remove either, only if a sweep could not
\* delete the mark or the second phase could not wait for the first. Whatever
\* else fails (to copy, to run or to delete the copy in a sweep, to remove the
\* directory) costs nothing (RunFirstPhase, CreateUninstallDoneFile,
\* TryDeleteUninstallDir).
Over(r) == initial[r] \in Gone /\ first[r] = "ended" /\ second[r] \in Gone

NothingLost ==
  \A r \in Runs : Over(r) /\ r \notin killed /\ handle[r] = None /\ temp[r].there =>
    /\ temp[r].exe /\ ~temp[r].done => r \in copyLeft
    /\ temp[r].done /\ ~temp[r].exe => r \in markLeft

\* Every run comes to its end, whichever of its processes is killed: the phases
\* never wait for each other.
RunsEnd == \A r \in Runs : first[r] = "create" ~> Over(r)
================================================================================
