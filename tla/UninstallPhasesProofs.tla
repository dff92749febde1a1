------------------------- MODULE UninstallPhasesProofs -------------------------
(***************************************************************************)
(* Proofs about UninstallPhases, for any number of uninstallers of any     *)
(* applications and any number of killed processes and failed calls: the   *)
(* copy of a running uninstaller is not swept away, no two of one          *)
(* application uninstall at once, and a directory that later sweeps cannot *)
(* remove is left behind by the failures named in NothingLost only.        *)
(***************************************************************************)
EXTENDS UninstallPhases, TLAPS

USE RunsAssumption DEF RunsAssumption

(* The inductive invariant.                                                *)

\* Which phase is there when
PhaseInv ==
  \A r \in Runs :
    /\ initial[r] = "new" => first[r] = "none"
    /\ first[r] \in {"none", "new", "create", "copy", "exec"} => second[r] = "none"
    /\ first[r] \in {"delete", "remove"} => second[r] \in Gone

\* The directory and what is in it
TempInv ==
  \A r \in Runs :
    /\ temp[r].exe \/ temp[r].done => temp[r].there
    /\ temp[r].there => first[r] \notin {"none", "new", "create"}
    /\ first[r] = "copy" => temp[r].recent

\* A sweep holds the directory it looks at, and knows what it may do to it
SweepOf(q) ==
  /\ sweep[q].dir \in Runs
  /\ temp[sweep[q].dir].there \/ first[sweep[q].dir] \notin {"none", "new", "create", "copy"}
  /\ first[sweep[q].dir] = "copy" => ~sweep[q].old
  /\ sweep[q].deleted => second[sweep[q].dir] = "ended"
  /\ sweep[q].at = "done" => sweep[q].deleted /\ ~temp[sweep[q].dir].exe

SweepInv ==
  \A q \in Runs :
    /\ \A d \in Runs : handle[d] = q <=> sweep[q].at # "next" /\ sweep[q].dir = d
    /\ sweep[q].at # "next" => SweepOf(q)

\* Who has a log open, and what is in it
LogInv ==
  /\ \A r \in Runs :
       /\ second[r] = "loaded" \/ Uninstalling(r) => holder[app[r]] = r
       /\ second[r] = "loaded" => log[app[r]] = "full"
       /\ second[r] = "reopen" /\ log[app[r]] = "empty" => r \in raced
       /\ second[r] \in {"sweep", "perform", "truncate"} /\ log[app[r]] # "full" => r \in raced
  /\ \A r, q \in Runs :
       second[r] = "reopen" /\ Uninstalling(q) /\ app[r] = app[q] => r \in raced

\* What has become of the directory of a run nobody interfered with
Swept(r) == \E q \in Runs : sweep[q].at = "done" /\ sweep[q].dir = r

FateOf(r) ==
  /\ second[r] \notin Gone \union {"wait", "exe"} =>
       /\ r \notin kill
       /\ first[r] = "waiting" \/ (first[r] = "ended" /\ r \in copyLeft)
  /\ second[r] = "wait" => first[r] = "ended" \/ r \in kill
  /\ second[r] = "exe" => first[r] = "ended" \/ r \in markLeft
  /\ r \in kill => /\ first[r] = "waiting"
                   /\ second[r] = "wait" \/ r \in markLeft
                   /\ temp[r].exe => temp[r].done \/ r \in copyLeft
  /\ initial[r] = "ended" => first[r] = "ended"
  /\ second[r] \in {"tell", "wait", "exe"} => temp[r].done \/ r \in copyLeft
  /\ first[r] # "ended" /\ temp[r].done => second[r] \in {"tell", "wait"} \/ r \in markLeft
  /\ first[r] = "remove" => ~temp[r].exe \/ r \in copyLeft
  /\ first[r] = "ended" /\ temp[r].there =>
       /\ temp[r].exe /\ ~temp[r].done => r \in copyLeft
       /\ temp[r].done /\ ~temp[r].exe => r \in markLeft \/ Swept(r)

FateInv == \A r \in Runs \ killed : FateOf(r)

PhasesInv == TypeOK /\ PhaseInv /\ TempInv /\ SweepInv /\ CopyKept /\ LogInv /\ FateInv
--------------------------------------------------------------------------------
TempDir    == [there : BOOLEAN, exe : BOOLEAN, done : BOOLEAN, recent : BOOLEAN]
SweepState == [dir : Runs \union {None}, at : {"next", "exe", "done", "dir"},
               old : BOOLEAN, deleted : BOOLEAN]

\* What the steps need of the types: the application of a run, and the
\* records of the directories and of the sweeps
LEMMA Types ==
    ASSUME TypeOK
    PROVE  /\ app \in [Runs -> Apps]
           /\ temp \in [Runs -> TempDir]
           /\ sweep \in [Runs -> SweepState]
  BY DEF TypeOK, TempDir, SweepState

\* A step counts at most one fault more, and only below the bound.
LEMMA FaultsBounded ==
    ASSUME TypeOK, Fault \/ NoFault
    PROVE  faults' \in 0 .. MaxFaults
  BY DEF TypeOK, Fault, NoFault

\* Start keeps the invariant.
LEMMA StartInv ==
    ASSUME PhasesInv, NEW r \in Runs, Start(r)
    PROVE  PhasesInv'
<1>. USE DEF PhasesInv, Start, CanOpen, plan, process, files, sweeping, fate, left
<1>1. TypeOK'
  <2>1. \E a \in {"none", "waiting", "ended"}, b \in {"create", "ended"} :
          initial' = [initial EXCEPT ![r] = a] /\ first' = [first EXCEPT ![r] = b]
    OBVIOUS
  <2>. QED
    BY <2>1 DEF TypeOK
<1>2. PhaseInv'
  BY DEF TypeOK, PhaseInv
<1>3. TempInv'
  BY DEF TypeOK, PhaseInv, TempInv
<1>4. SweepInv'
  BY DEF TypeOK, PhaseInv, SweepInv, SweepOf
<1>5. CopyKept'
  BY DEF TypeOK, CopyKept
<1>6. LogInv'
  BY DEF LogInv, Uninstalling
<1>7. FateInv'
  BY DEF TypeOK, PhaseInv, TempInv, FateInv, FateOf, Swept
<1>. QED
  BY <1>1, <1>2, <1>3, <1>4, <1>5, <1>6, <1>7

\* InitialEnds keeps the invariant.
LEMMA InitialEndsInv ==
    ASSUME PhasesInv, NEW r \in Runs, InitialEnds(r)
    PROVE  PhasesInv'
<1>. USE DEF PhasesInv, InitialEnds, plan, process, files, sweeping, fate, left
<1>1. TypeOK'
  BY DEF TypeOK
<1>2. PhaseInv'
  BY DEF PhaseInv
<1>3. TempInv'
  BY DEF TempInv
<1>4. SweepInv'
  BY DEF SweepInv, SweepOf
<1>5. CopyKept'
  BY DEF CopyKept
<1>6. LogInv'
  BY DEF LogInv, Uninstalling
<1>7. FateInv'
  BY DEF FateInv, FateOf, Swept
<1>. QED
  BY <1>1, <1>2, <1>3, <1>4, <1>5, <1>6, <1>7

\* CreateTemp keeps the invariant.
LEMMA CreateTempInv ==
    ASSUME PhasesInv, NEW r \in Runs, CreateTemp(r)
    PROVE  PhasesInv'
<1>. USE DEF PhasesInv, plan, process, files, sweeping, fate, left
<1>a. /\ first[r] = "create"
      /\ UNCHANGED <<plan, initial, second, kill, files, sweeping, fate, faults>>
  BY DEF CreateTemp
<1>1. CASE /\ temp' = [temp EXCEPT ![r] = [NoDir EXCEPT !.there = TRUE, !.recent = TRUE]]
           /\ first' = [first EXCEPT ![r] = "copy"]
  <2>a. /\ temp' \in [Runs -> TempDir]
        /\ \A q \in Runs \ {r} : temp'[q] = temp[q]
        /\ temp'[r].there /\ ~temp'[r].exe /\ ~temp'[r].done /\ temp'[r].recent
    BY <1>1, Types DEF NoDir, TempDir
  <2>1. TypeOK'
    BY <1>a, <1>1, <2>a DEF TypeOK, TempDir
  <2>2. PhaseInv'
    BY <1>a, <1>1 DEF PhaseInv
  <2>3. TempInv'
    BY <1>a, <1>1, <2>a DEF TypeOK, TempInv
  <2>4. SweepInv'
    BY <1>a, <1>1, <2>a DEF TempInv, SweepInv, SweepOf
  <2>5. CopyKept'
    BY <1>a, <1>1, <2>a DEF TypeOK, PhaseInv, CopyKept, Gone
  <2>6. LogInv'
    BY <1>a DEF LogInv, Uninstalling
  <2>7. FateInv'
    <3>1. ASSUME NEW q \in Runs \ killed, q # r
          PROVE  FateOf(q)'
      BY <1>a, <1>1, <2>a, <3>1 DEF FateInv, FateOf, Swept
    <3>2. r \notin killed => FateOf(r)'
      BY <1>a, <1>1, <2>a DEF TypeOK, PhaseInv, TempInv, FateInv, FateOf, Swept, Gone
    <3>. QED
      BY <1>a, <3>1, <3>2 DEF FateInv
  <2>. QED
    BY <2>1, <2>2, <2>3, <2>4, <2>5, <2>6, <2>7
<1>2. CASE first' = [first EXCEPT ![r] = "ended"] /\ UNCHANGED temp
  <2>1. TypeOK'
    BY <1>a, <1>2 DEF TypeOK
  <2>2. PhaseInv'
    BY <1>a, <1>2 DEF PhaseInv
  <2>3. TempInv'
    BY <1>a, <1>2 DEF TempInv
  <2>4. SweepInv'
    BY <1>a, <1>2 DEF SweepInv, SweepOf
  <2>5. CopyKept'
    BY <1>a, <1>2 DEF CopyKept
  <2>6. LogInv'
    BY <1>a DEF LogInv, Uninstalling
  <2>7. FateInv'
    BY <1>a, <1>2 DEF PhaseInv, TempInv, FateInv, FateOf, Swept, Gone
  <2>. QED
    BY <2>1, <2>2, <2>3, <2>4, <2>5, <2>6, <2>7
<1>. QED
  BY <1>1, <1>2 DEF CreateTemp

\* CopySelf keeps the invariant.
LEMMA CopySelfInv ==
    ASSUME PhasesInv, NEW r \in Runs, CopySelf(r)
    PROVE  PhasesInv'
<1>. USE DEF PhasesInv, plan, process, files, sweeping, fate, left
<1>1. CASE /\ temp[r].there
           /\ temp' = [temp EXCEPT ![r].exe = TRUE, ![r].recent = TRUE]
           /\ first' = [first EXCEPT ![r] = "exec"]
           /\ UNCHANGED <<plan, initial, second, kill, files, sweeping, fate, faults>>
  <2>a. /\ temp' \in [Runs -> TempDir]
        /\ \A q \in Runs \ {r} : temp'[q] = temp[q]
        /\ temp'[r].there /\ temp'[r].exe /\ temp'[r].recent /\ temp'[r].done = temp[r].done
    BY <1>1, Types DEF TempDir
  <2>b. /\ first[r] = "copy" /\ first' = [first EXCEPT ![r] = "exec"]
        /\ UNCHANGED <<plan, initial, second, kill, files, sweeping, fate, faults>>
    BY <1>1 DEF CopySelf
  <2>1. TypeOK'
    BY <2>a, <2>b DEF TypeOK, TempDir
  <2>2. PhaseInv'
    BY <2>b DEF PhaseInv
  <2>3. TempInv'
    BY <2>a, <2>b DEF TempInv
  <2>4. SweepInv'
    BY <2>a, <2>b DEF PhaseInv, SweepInv, SweepOf
  <2>5. CopyKept'
    BY <2>a, <2>b DEF CopyKept
  <2>6. LogInv'
    BY <2>b DEF LogInv, Uninstalling
  <2>7. FateInv'
    BY <2>a, <2>b DEF FateInv, FateOf, Swept
  <2>. QED
    BY <2>1, <2>2, <2>3, <2>4, <2>5, <2>6, <2>7
<1>2. CASE /\ UNCHANGED temp
           /\ first' = [first EXCEPT ![r] = "delete"]
           /\ UNCHANGED <<plan, initial, second, kill, files, sweeping, fate, faults>>
  <2>a. first[r] = "copy"
    BY DEF CopySelf
  <2>1. TypeOK'
    BY <1>2 DEF TypeOK
  <2>2. PhaseInv'
    BY <2>a, <1>2 DEF PhaseInv, Gone
  <2>3. TempInv'
    BY <1>2 DEF TempInv
  <2>4. SweepInv'
    BY <1>2 DEF SweepInv, SweepOf
  <2>5. CopyKept'
    BY <1>2 DEF CopyKept
  <2>6. LogInv'
    BY <1>2 DEF LogInv, Uninstalling
  <2>7. FateInv'
    BY <2>a, <1>2 DEF FateInv, FateOf, Swept
  <2>. QED
    BY <2>1, <2>2, <2>3, <2>4, <2>5, <2>6, <2>7
<1>. QED
  BY <1>1, <1>2 DEF CopySelf

\* Exec keeps the invariant.
LEMMA ExecInv ==
    ASSUME PhasesInv, NEW r \in Runs, Exec(r)
    PROVE  PhasesInv'
<1>. USE DEF PhasesInv, Exec, plan, process, files, sweeping, fate, left
<1>1. TypeOK'
  BY SMTT(20) DEF TypeOK
<1>2. PhaseInv'
  BY DEF TypeOK, PhaseInv, Gone
<1>3. TempInv'
  BY DEF TypeOK, TempInv
<1>4. SweepInv'
  BY DEF TypeOK, PhaseInv, SweepInv, SweepOf
<1>5. CopyKept'
  BY DEF TypeOK, CopyKept
<1>6. LogInv'
  <2>1. /\ UNCHANGED <<app, holder, log, raced>>
        /\ \A q \in Runs : second'[q] = second[q] \/ second'[q] = "open"
    BY DEF TypeOK
  <2>. QED
    BY <2>1 DEF LogInv, Uninstalling
<1>7. FateInv'
  BY DEF TypeOK, FateInv, FateOf, Swept, Gone
<1>. QED
  BY <1>1, <1>2, <1>3, <1>4, <1>5, <1>6, <1>7

\* FirstPhaseQuits keeps the invariant.
LEMMA FirstPhaseQuitsInv ==
    ASSUME PhasesInv, NEW r \in Runs, FirstPhaseQuits(r)
    PROVE  PhasesInv'
<1>. USE DEF PhasesInv, FirstPhaseQuits, plan, process, files, sweeping, fate, left
<1>1. TypeOK'
  BY DEF TypeOK
<1>2. PhaseInv'
  BY DEF PhaseInv
<1>3. TempInv'
  BY DEF TempInv
<1>4. SweepInv'
  BY DEF SweepInv, SweepOf
<1>5. CopyKept'
  BY DEF CopyKept
<1>6. LogInv'
  BY DEF LogInv, Uninstalling
<1>7. FateInv'
  BY DEF TypeOK, CopyKept, FateInv, FateOf, Swept, Gone
<1>. QED
  BY <1>1, <1>2, <1>3, <1>4, <1>5, <1>6, <1>7

\* SecondPhaseDied keeps the invariant.
LEMMA SecondPhaseDiedInv ==
    ASSUME PhasesInv, NEW r \in Runs, SecondPhaseDied(r)
    PROVE  PhasesInv'
<1>. USE DEF PhasesInv, SecondPhaseDied, plan, process, files, sweeping, fate, left
<1>1. TypeOK'
  BY DEF TypeOK
<1>2. PhaseInv'
  BY DEF PhaseInv, Gone
<1>3. TempInv'
  BY DEF TempInv
<1>4. SweepInv'
  BY DEF SweepInv, SweepOf
<1>5. CopyKept'
  BY DEF CopyKept
<1>6. LogInv'
  BY DEF LogInv, Uninstalling
<1>7. FateInv'
  BY DEF FateInv, FateOf, Swept, Gone
<1>. QED
  BY <1>1, <1>2, <1>3, <1>4, <1>5, <1>6, <1>7


\* WaitFails keeps the invariant.
LEMMA WaitFailsInv ==
    ASSUME PhasesInv, NEW r \in Runs, WaitFails(r)
    PROVE  PhasesInv'
<1>. USE DEF PhasesInv, Fault, WaitFails, plan, process, files, sweeping, fate, left
<1>1. TypeOK'
  BY DEF TypeOK
<1>2. PhaseInv'
  BY DEF PhaseInv
<1>3. TempInv'
  BY DEF TempInv
<1>4. SweepInv'
  BY DEF SweepInv, SweepOf
<1>5. CopyKept'
  BY DEF CopyKept
<1>6. LogInv'
  BY DEF LogInv, Uninstalling
<1>7. FateInv'
  BY DEF TypeOK, CopyKept, FateInv, FateOf, Swept, Gone
<1>. QED
  BY <1>1, <1>2, <1>3, <1>4, <1>5, <1>6, <1>7

\* DeleteCopy keeps the invariant.
LEMMA DeleteCopyInv ==
    ASSUME PhasesInv, NEW r \in Runs, DeleteCopy(r)
    PROVE  PhasesInv'
<1>. USE DEF PhasesInv, plan, process, files, sweeping, fate, left
<1>a. /\ first[r] = "delete" /\ first' = [first EXCEPT ![r] = "remove"]
      /\ UNCHANGED <<plan, initial, second, kill, files, sweeping, raced, killed, markLeft>>
      /\ Fault \/ NoFault
  BY DEF DeleteCopy
<1>1. CASE /\ temp' = [temp EXCEPT ![r].exe = FALSE, ![r].recent = @ \/ temp[r].exe]
           /\ UNCHANGED copyLeft
  <2>a. temp' \in [Runs -> TempDir]
    BY <1>1, Types, ZenonT(30) DEF TempDir
  <2>b. /\ \A q \in Runs \ {r} : temp'[q] = temp[q]
        /\ temp'[r].there = temp[r].there /\ temp'[r].done = temp[r].done /\ ~temp'[r].exe
    BY <1>1, Types DEF TempDir
  <2>1. TypeOK'
    BY <1>a, <1>1, <2>a, FaultsBounded DEF TypeOK, TempDir
  <2>2. PhaseInv'
    BY <1>a DEF PhaseInv
  <2>3. TempInv'
    BY <1>a, <2>b DEF TempInv
  <2>4. SweepInv'
    BY <1>a, <2>b DEF SweepInv, SweepOf
  <2>5. CopyKept'
    BY <1>a, <2>b DEF PhaseInv, CopyKept
  <2>6. LogInv'
    BY <1>a DEF LogInv, Uninstalling
  <2>7. FateInv'
    <3>1. ASSUME NEW q \in Runs \ killed, q # r
          PROVE  FateOf(q)'
      <4>1. FateOf(q)
        BY <3>1 DEF FateInv
      <4>2. temp'[q] = temp[q] /\ first'[q] = first[q]
        BY <1>a, <2>b, <3>1
      <4>. QED
        BY <1>a, <1>1, <4>1, <4>2 DEF FateOf, Swept
    <3>2. r \notin killed => FateOf(r)'
      BY <1>a, <1>1, <2>b DEF TypeOK, FateInv, FateOf, Swept
    <3>. QED
      BY <1>a, <3>1, <3>2 DEF FateInv
  <2>. QED
    BY <2>1, <2>2, <2>3, <2>4, <2>5, <2>6, <2>7
<1>2. CASE copyLeft' = copyLeft \union {r} /\ UNCHANGED temp
  <2>1. TypeOK'
    BY <1>a, <1>2, FaultsBounded DEF TypeOK
  <2>2. PhaseInv'
    BY <1>a DEF PhaseInv
  <2>3. TempInv'
    BY <1>a, <1>2 DEF TempInv
  <2>4. SweepInv'
    BY <1>a, <1>2 DEF SweepInv, SweepOf
  <2>5. CopyKept'
    BY <1>a, <1>2 DEF CopyKept
  <2>6. LogInv'
    BY <1>a DEF LogInv, Uninstalling
  <2>7. FateInv'
    BY <1>a, <1>2 DEF FateInv, FateOf, Swept
  <2>. QED
    BY <2>1, <2>2, <2>3, <2>4, <2>5, <2>6, <2>7
<1>. QED
  BY <1>1, <1>2 DEF DeleteCopy

\* RemoveTemp keeps the invariant.
LEMMA RemoveTempInv ==
    ASSUME PhasesInv, NEW r \in Runs, RemoveTemp(r)
    PROVE  PhasesInv'
<1>. USE DEF PhasesInv, plan, process, files, sweeping, fate, left
<1>a. /\ first[r] = "remove" /\ first' = [first EXCEPT ![r] = "ended"]
      /\ UNCHANGED <<plan, initial, second, kill, files, sweeping, fate>>
      /\ Fault \/ NoFault
  BY DEF RemoveTemp
<1>b. \/ UNCHANGED temp
      \/ temp' = [temp EXCEPT ![r] = NoDir] /\ handle[r] = None
  BY DEF RemoveTemp
<1>c. /\ temp' \in [Runs -> TempDir]
      /\ \A q \in Runs \ {r} : temp'[q] = temp[q]
      /\ \/ temp'[r] = temp[r]
         \/ ~temp'[r].there /\ ~temp'[r].exe /\ ~temp'[r].done /\ handle[r] = None
  <2>1. /\ NoDir \in TempDir
        /\ ~NoDir.there /\ ~NoDir.exe /\ ~NoDir.done
    BY DEF NoDir, TempDir
  <2>. QED
    BY <1>b, <2>1, Types
<1>1. TypeOK'
  BY <1>a, <1>c, FaultsBounded DEF TypeOK, TempDir
<1>2. PhaseInv'
  BY <1>a DEF PhaseInv
<1>3. TempInv'
  BY <1>a, <1>c DEF TempInv
<1>4. SweepInv'
  BY <1>a, <1>c DEF SweepInv, SweepOf
<1>5. CopyKept'
  BY <1>a, <1>c DEF PhaseInv, CopyKept
<1>6. LogInv'
  BY <1>a DEF LogInv, Uninstalling
<1>7. FateInv'
  BY <1>a, <1>c DEF PhaseInv, FateInv, FateOf, Swept, Gone
<1>. QED
  BY <1>1, <1>2, <1>3, <1>4, <1>5, <1>6, <1>7

\* OpenLog keeps the invariant.
LEMMA OpenLogInv ==
    ASSUME PhasesInv, NEW r \in Runs, OpenLog(r)
    PROVE  PhasesInv'
<1>. USE DEF PhasesInv, OpenLog, CanOpen, plan, process, files, sweeping, fate, left
<1>1. TypeOK'
  <2>2. holder' \in [Apps -> Runs \union {None}]
    BY DEF TypeOK
  <2>. QED
    BY <2>2 DEF TypeOK
<1>2. PhaseInv'
  BY DEF TypeOK, PhaseInv, Gone
<1>3. TempInv'
  BY DEF TempInv
<1>4. SweepInv'
  BY DEF TypeOK, SweepInv, SweepOf
<1>5. CopyKept'
  BY DEF TypeOK, CopyKept, Gone
<1>6. LogInv'
  <2>1. app[r] \in Apps
    BY Types
  <2>2. CASE second' = [second EXCEPT ![r] = "ended"] /\ UNCHANGED holder
    BY <2>2 DEF LogInv, Uninstalling
  <2>3. CASE /\ CanOpen(r) /\ log[app[r]] = "full"
             /\ second' = [second EXCEPT ![r] = "loaded"]
             /\ holder' = [holder EXCEPT ![app[r]] = r]
    BY <2>3 DEF TypeOK, LogInv, Uninstalling
  <2>. QED
    BY <2>2, <2>3
<1>7. FateInv'
  BY DEF TypeOK, FateInv, FateOf, Swept, Gone
<1>. QED
  BY <1>1, <1>2, <1>3, <1>4, <1>5, <1>6, <1>7

\* CloseLog keeps the invariant.
LEMMA CloseLogInv ==
    ASSUME PhasesInv, NEW r \in Runs, CloseLog(r)
    PROVE  PhasesInv'
<1>. USE DEF PhasesInv, CloseLog, Close, plan, process, files, sweeping, fate, left
<1>1. TypeOK'
  BY DEF TypeOK
<1>2. PhaseInv'
  BY DEF PhaseInv, Gone
<1>3. TempInv'
  BY DEF TempInv
<1>4. SweepInv'
  BY DEF SweepInv, SweepOf
<1>5. CopyKept'
  BY DEF CopyKept, Gone
<1>6. LogInv'
  BY DEF TypeOK, LogInv, Uninstalling
<1>7. FateInv'
  BY DEF FateInv, FateOf, Swept, Gone
<1>. QED
  BY <1>1, <1>2, <1>3, <1>4, <1>5, <1>6, <1>7

\* ReopenLog keeps the invariant.
LEMMA ReopenLogInv ==
    ASSUME PhasesInv, NEW r \in Runs, ReopenLog(r)
    PROVE  PhasesInv'
<1>. USE DEF PhasesInv, plan, process, files, sweeping, fate, left
<1>1. CASE /\ CanOpen(r)
           /\ second' = [second EXCEPT ![r] = "sweep"]
           /\ holder' = [holder EXCEPT ![app[r]] = r]
           /\ todo' = [todo EXCEPT ![r] = {d \in Runs \ {r} : temp[d].there}]
           /\ raced' = raced \union {q \in Runs \ {r} : app[q] = app[r] /\ second[q] = "reopen"}
           /\ UNCHANGED <<plan, initial, first, kill, log, installed, temp, handle, sweep,
                          killed, left, faults>>
  <2>a. second[r] = "reopen" /\ app[r] \in Apps
    BY Types DEF ReopenLog
  <2>1. TypeOK'
    <3>1. todo' \in [Runs -> SUBSET Runs]
      BY <1>1 DEF TypeOK
    <3>2. holder' \in [Apps -> Runs \union {None}] /\ raced' \subseteq Runs
      BY <1>1 DEF TypeOK
    <3>. QED
      BY <1>1 DEF TypeOK
  <2>2. PhaseInv'
    BY <2>a, <1>1 DEF PhaseInv, Gone
  <2>3. TempInv'
    BY <1>1 DEF TempInv
  <2>4. SweepInv'
    BY <2>a, <1>1 DEF SweepInv, SweepOf
  <2>5. CopyKept'
    BY <2>a, <1>1 DEF CopyKept, Gone
  <2>6. LogInv'
    <3>1. \A q \in Runs \ {r} : app[q] = app[r] => second[q] # "loaded" /\ ~Uninstalling(q)
      BY <1>1 DEF LogInv, CanOpen
    <3>2. /\ \A q \in Runs \ {r} : second'[q] = second[q]
          /\ \A q \in Runs \ {r} : app[q] # app[r] => holder'[app[q]] = holder[app[q]]
          /\ second'[r] = "sweep" /\ holder'[app[r]] = r
          /\ UNCHANGED <<app, log>>
          /\ raced \subseteq raced'
          /\ \A q \in Runs \ {r} : app[q] = app[r] /\ second[q] = "reopen" => q \in raced'
      BY <1>1 DEF TypeOK
    <3>3. log[app[r]] # "full" => r \in raced
      BY <2>a, <1>1 DEF TypeOK, LogInv, CanOpen
    <3>. QED
      BY <2>a, <3>1, <3>2, <3>3 DEF LogInv, Uninstalling
  <2>7. FateInv'
    BY <2>a, <1>1 DEF FateInv, FateOf, Swept, Gone
  <2>. QED
    BY <2>1, <2>2, <2>3, <2>4, <2>5, <2>6, <2>7
<1>2. CASE /\ second' = [second EXCEPT ![r] = "ended"]
           /\ UNCHANGED <<plan, initial, first, kill, files, temp, sweeping, fate, faults>>
  <2>a. second[r] = "reopen" /\ app[r] \in Apps
    BY Types DEF ReopenLog
  <2>1. TypeOK'
    BY <1>2 DEF TypeOK
  <2>2. PhaseInv'
    BY <2>a, <1>2 DEF PhaseInv, Gone
  <2>3. TempInv'
    BY <1>2 DEF TempInv
  <2>4. SweepInv'
    BY <1>2 DEF SweepInv, SweepOf
  <2>5. CopyKept'
    BY <1>2 DEF CopyKept, Gone
  <2>6. LogInv'
    BY <1>2 DEF LogInv, Uninstalling
  <2>7. FateInv'
    BY <2>a, <1>2 DEF FateInv, FateOf, Swept, Gone
  <2>. QED
    BY <2>1, <2>2, <2>3, <2>4, <2>5, <2>6, <2>7
<1>. QED
  BY <1>1, <1>2 DEF ReopenLog

\* Abort keeps the invariant.
LEMMA AbortInv ==
    ASSUME PhasesInv, NEW r \in Runs, Abort(r)
    PROVE  PhasesInv'
<1>. USE DEF PhasesInv, Abort, Close, plan, process, files, sweeping, fate, left
<1>1. TypeOK'
  BY DEF TypeOK
<1>2. PhaseInv'
  BY DEF PhaseInv, Gone
<1>3. TempInv'
  BY DEF TempInv
<1>4. SweepInv'
  BY DEF SweepInv, SweepOf
<1>5. CopyKept'
  BY DEF CopyKept, Gone
<1>6. LogInv'
  BY DEF TypeOK, LogInv, Uninstalling
<1>7. FateInv'
  BY DEF FateInv, FateOf, Swept, Gone
<1>. QED
  BY <1>1, <1>2, <1>3, <1>4, <1>5, <1>6, <1>7

\* OpenDir keeps the invariant.
LEMMA OpenDirInv ==
    ASSUME PhasesInv, NEW r \in Runs, OpenDir(r)
    PROVE  PhasesInv'
<1>. USE DEF PhasesInv, Fault, NoFault, plan, process, files, sweeping, fate, left
<1>1. CASE \E d \in todo[r] :
             /\ second[r] = "sweep" /\ sweep[r].at = "next"
             /\ todo' = [todo EXCEPT ![r] = @ \ {d}]
             /\ UNCHANGED <<plan, process, files, temp, handle, sweep, fate>>
             /\ Fault \/ NoFault
  <2>1. TypeOK'
    <3>1. todo' \in [Runs -> SUBSET Runs]
      BY <1>1 DEF TypeOK
    <3>. QED
      BY <1>1 DEF TypeOK
  <2>2. PhaseInv'
    BY <1>1 DEF PhaseInv
  <2>3. TempInv'
    BY <1>1 DEF TempInv
  <2>4. SweepInv'
    BY <1>1 DEF SweepInv, SweepOf
  <2>5. CopyKept'
    BY <1>1 DEF CopyKept
  <2>6. LogInv'
    BY <1>1 DEF LogInv, Uninstalling
  <2>7. FateInv'
    BY <1>1 DEF FateInv, FateOf, Swept
  <2>. QED
    BY <2>1, <2>2, <2>3, <2>4, <2>5, <2>6, <2>7
<1>2. CASE \E d \in todo[r] :
             /\ second[r] = "sweep" /\ sweep[r].at = "next"
             /\ temp[d].there /\ handle[d] = None
             /\ todo' = [todo EXCEPT ![r] = @ \ {d}] /\ NoFault
             /\ handle' = [handle EXCEPT ![d] = r]
             /\ sweep' = [sweep EXCEPT ![r] = [dir |-> d, at |-> "exe", deleted |-> FALSE,
                                               old |-> ~temp[d].recent]]
             /\ UNCHANGED <<plan, process, files, temp, fate>>
  <2>a. PICK d \in todo[r] :
             /\ second[r] = "sweep" /\ sweep[r].at = "next"
             /\ temp[d].there /\ handle[d] = None
             /\ todo' = [todo EXCEPT ![r] = @ \ {d}] /\ NoFault
             /\ handle' = [handle EXCEPT ![d] = r]
             /\ sweep' = [sweep EXCEPT ![r] = [dir |-> d, at |-> "exe", deleted |-> FALSE,
                                               old |-> ~temp[d].recent]]
             /\ UNCHANGED <<plan, process, files, temp, fate>>
    BY <1>2
  <2>b. d \in Runs /\ temp[d] \in TempDir
    BY Types DEF TypeOK
  <2>c. /\ sweep' \in [Runs -> SweepState]
        /\ \A q \in Runs \ {r} : sweep'[q] = sweep[q]
        /\ sweep'[r] = [dir |-> d, at |-> "exe", deleted |-> FALSE, old |-> ~temp[d].recent]
    BY <2>a, <2>b, Types DEF SweepState
  <2>d. /\ sweep'[r].dir = d /\ sweep'[r].at = "exe" /\ ~sweep'[r].deleted
        /\ sweep'[r].old = ~temp[d].recent
    BY <2>c
  <2>e. /\ second[r] = "sweep" /\ sweep[r].at = "next" /\ NoFault
        /\ temp[d].there /\ handle[d] = None
        /\ todo' = [todo EXCEPT ![r] = @ \ {d}]
        /\ handle' = [handle EXCEPT ![d] = r]
        /\ UNCHANGED <<plan, process, files, temp, fate>>
    BY <2>a
  <2>1. TypeOK'
    <3>1. todo' \in [Runs -> SUBSET Runs] /\ handle' \in [Runs -> Runs \union {None}]
      BY <2>a DEF TypeOK
    <3>. QED
      BY <2>e, <2>c, <3>1 DEF TypeOK, SweepState
  <2>2. PhaseInv'
    BY <2>e DEF PhaseInv
  <2>3. TempInv'
    BY <2>e DEF TempInv
  <2>4. SweepInv'
    <3>1. \A q \in Runs \ {r} : sweep[q].at # "next" => sweep[q].dir # d
      BY <2>b, <2>e DEF SweepInv
    <3>2. ASSUME NEW q \in Runs, NEW x \in Runs
          PROVE  handle'[x] = q <=> sweep'[q].at # "next" /\ sweep'[q].dir = x
      <4>1. CASE q = r
        BY <2>d, <2>e, <4>1 DEF TypeOK, SweepInv
      <4>2. CASE q # r /\ x = d
        <5>1. handle'[x] = r /\ sweep'[q] = sweep[q]
          BY <2>c, <2>e, <4>2 DEF TypeOK
        <5>. QED
          BY <3>1, <4>2, <5>1
      <4>3. CASE q # r /\ x # d
        <5>1. handle'[x] = handle[x] /\ sweep'[q] = sweep[q]
          BY <2>c, <2>e, <4>3
        <5>. QED
          BY <5>1 DEF SweepInv
      <4>. QED
        BY <4>1, <4>2, <4>3
    <3>3. ASSUME NEW q \in Runs \ {r}, sweep'[q].at # "next"
          PROVE  SweepOf(q)'
      BY <2>c, <2>e, <3>3 DEF SweepInv, SweepOf
    <3>4. SweepOf(r)'
      BY <2>b, <2>c, <2>d, <2>e DEF PhaseInv, TempInv, SweepOf
    <3>. QED
      BY <3>2, <3>3, <3>4 DEF SweepInv
  <2>5. CopyKept'
    BY <2>e DEF CopyKept
  <2>6. LogInv'
    BY <2>e DEF LogInv, Uninstalling
  <2>7. FateInv'
    BY <2>c, <2>e DEF FateInv, FateOf, Swept
  <2>. QED
    BY <2>1, <2>2, <2>3, <2>4, <2>5, <2>6, <2>7
<1>. QED
  BY <1>1, <1>2 DEF OpenDir

\* SweepExe keeps the invariant.
LEMMA SweepExeInv ==
    ASSUME PhasesInv, NEW r \in Runs, SweepExe(r)
    PROVE  PhasesInv'
<1>. USE DEF PhasesInv, Fault, NoFault, plan, process, files, sweeping, fate, left
<1>1. CASE /\ DoneCanBeOpened(sweep[r].dir) /\ temp[sweep[r].dir].exe /\ NoFault
           /\ temp' = [temp EXCEPT ![sweep[r].dir].exe = FALSE, ![sweep[r].dir].recent = TRUE]
           /\ sweep' = [sweep EXCEPT ![r].deleted = TRUE, ![r].at = "done"]
  <2> DEFINE d == sweep[r].dir
  <2>a. /\ d \in Runs /\ sweep[r].dir = d /\ sweep[r].at = "exe" /\ handle[d] = r
        /\ temp[d].exe /\ temp[d].done /\ second[d] = "ended"
        /\ UNCHANGED <<plan, process, files, handle, todo, fate>> /\ NoFault
    BY <1>1, Types DEF SweepExe, DoneCanBeOpened, SweepInv, SweepOf, SweepState
  <2>b. /\ temp' \in [Runs -> TempDir]
        /\ \A q \in Runs \ {d} : temp'[q] = temp[q]
        /\ ~temp'[d].exe /\ temp'[d].recent /\ temp'[d].there = temp[d].there
        /\ temp'[d].done = temp[d].done
    BY <1>1, <2>a, Types DEF TempDir
  <2>c. /\ sweep' \in [Runs -> SweepState]
        /\ \A q \in Runs \ {r} : sweep'[q] = sweep[q]
        /\ sweep'[r].deleted /\ sweep'[r].at = "done" /\ sweep'[r].dir = d
        /\ sweep'[r].old = sweep[r].old
    BY <1>1, <2>a, Types DEF SweepState
  <2> HIDE DEF d
  <2>1. TypeOK'
    BY <2>a, <2>b, <2>c DEF TypeOK, TempDir, SweepState
  <2>2. PhaseInv'
    BY <2>a DEF PhaseInv
  <2>3. TempInv'
    BY <2>a, <2>b DEF TempInv
  <2>4. SweepInv'
    <3>1. \A q \in Runs \ {r} : sweep[q].at # "next" => sweep[q].dir # d
      BY <2>a DEF SweepInv
    <3>2. ASSUME NEW q \in Runs, NEW x \in Runs
          PROVE  handle'[x] = q <=> sweep'[q].at # "next" /\ sweep'[q].dir = x
      BY <2>a, <2>c DEF SweepInv
    <3>3. ASSUME NEW q \in Runs \ {r}, sweep'[q].at # "next"
          PROVE  SweepOf(q)'
      <4>1. sweep[q].dir \in Runs \ {d} /\ sweep'[q] = sweep[q] /\ sweep[q].at # "next"
        BY <2>c, <3>1, <3>3 DEF SweepInv, SweepOf
      <4>. QED
        BY <2>a, <2>b, <4>1 DEF SweepInv, SweepOf
    <3>4. SweepOf(r)'
      BY <2>a, <2>b, <2>c DEF SweepInv, SweepOf
    <3>. QED
      BY <3>2, <3>3, <3>4 DEF SweepInv
  <2>5. CopyKept'
    BY <2>a, <2>b DEF PhaseInv, CopyKept, Gone
  <2>6. LogInv'
    BY <2>a DEF LogInv, Uninstalling
  <2>7. FateInv'
    BY <2>a, <2>b, <2>c DEF FateInv, FateOf, Swept
  <2>. QED
    BY <2>1, <2>2, <2>3, <2>4, <2>5, <2>6, <2>7
<1>2. CASE /\ Fault \/ NoFault
           /\ UNCHANGED temp
           /\ sweep' = [sweep EXCEPT ![r].deleted = FALSE, ![r].at = "dir"]
  <2> DEFINE d == sweep[r].dir
  <2>a. /\ d \in Runs /\ sweep[r].dir = d /\ sweep[r].at = "exe" /\ handle[d] = r
        /\ UNCHANGED <<plan, process, files, temp, handle, todo, fate>> /\ (Fault \/ NoFault)
    BY <1>2, Types DEF SweepExe, SweepState
  <2>c. /\ sweep' \in [Runs -> SweepState]
        /\ \A q \in Runs \ {r} : sweep'[q] = sweep[q]
        /\ ~sweep'[r].deleted /\ sweep'[r].at = "dir" /\ sweep'[r].dir = d
        /\ sweep'[r].old = sweep[r].old
    BY <1>2, <2>a, Types DEF SweepState
  <2> HIDE DEF d
  <2>1. TypeOK'
    BY <2>a, <2>c DEF TypeOK, SweepState
  <2>2. PhaseInv'
    BY <2>a DEF PhaseInv
  <2>3. TempInv'
    BY <2>a DEF TempInv
  <2>4. SweepInv'
    <3>1. \A q \in Runs \ {r} : sweep[q].at # "next" => sweep[q].dir # d
      BY <2>a DEF SweepInv
    <3>2. ASSUME NEW q \in Runs, NEW x \in Runs
          PROVE  handle'[x] = q <=> sweep'[q].at # "next" /\ sweep'[q].dir = x
      BY <2>a, <2>c DEF SweepInv
    <3>3. ASSUME NEW q \in Runs \ {r}, sweep'[q].at # "next"
          PROVE  SweepOf(q)'
      <4>1. sweep[q].dir \in Runs /\ sweep'[q] = sweep[q] /\ sweep[q].at # "next"
        BY <2>c, <3>3 DEF SweepInv, SweepOf
      <4>. QED
        BY <2>a, <4>1 DEF SweepInv, SweepOf
    <3>4. SweepOf(r)'
      BY <2>a, <2>c DEF SweepInv, SweepOf
    <3>. QED
      BY <3>2, <3>3, <3>4 DEF SweepInv
  <2>5. CopyKept'
    BY <2>a DEF CopyKept
  <2>6. LogInv'
    BY <2>a DEF LogInv, Uninstalling
  <2>7. FateInv'
    BY <2>a, <2>c DEF FateInv, FateOf, Swept
  <2>. QED
    BY <2>1, <2>2, <2>3, <2>4, <2>5, <2>6, <2>7
<1>. QED
  BY <1>1, <1>2 DEF SweepExe

\* SweepDone keeps the invariant.
LEMMA SweepDoneInv ==
    ASSUME PhasesInv, NEW r \in Runs, SweepDone(r)
    PROVE  PhasesInv'
<1>. USE DEF PhasesInv, plan, process, files, sweeping, fate, left
<1> DEFINE d == sweep[r].dir
<1>a. /\ d \in Runs /\ sweep[r].dir = d /\ sweep[r].at = "done" /\ handle[d] = r
      /\ UNCHANGED <<plan, process, files, handle, todo, raced, killed, copyLeft>>
      /\ Fault \/ NoFault
      /\ second[d] = "ended" /\ ~temp[d].exe
  BY DEF SweepDone, SweepInv, SweepOf
<1>b. \/ temp' = [temp EXCEPT ![d].done = FALSE] /\ UNCHANGED markLeft
      \/ markLeft' = markLeft \union {d} /\ UNCHANGED temp
  BY DEF SweepDone
<1>c. temp' \in [Runs -> TempDir]
  BY <1>a, <1>b, Types DEF TempDir
<1>d. /\ \A q \in Runs \ {d} : temp'[q] = temp[q]
      /\ temp'[d].there = temp[d].there /\ ~temp'[d].exe /\ temp'[d].recent = temp[d].recent
      /\ \/ ~temp'[d].done /\ UNCHANGED markLeft
         \/ markLeft' = markLeft \union {d} /\ temp'[d].done = temp[d].done
  BY <1>a, <1>b, Types DEF TempDir
<1>e. /\ sweep' \in [Runs -> SweepState]
      /\ \A q \in Runs \ {r} : sweep'[q] = sweep[q]
      /\ sweep'[r].at = "dir" /\ sweep'[r].dir = d
      /\ sweep'[r].old = sweep[r].old /\ sweep'[r].deleted = sweep[r].deleted
  BY Types DEF SweepDone, SweepState
<1> HIDE DEF d
<1>1. TypeOK'
  BY <1>a, <1>b, <1>c, <1>e, FaultsBounded DEF TypeOK, TempDir, SweepState
<1>2. PhaseInv'
  BY <1>a DEF PhaseInv
<1>3. TempInv'
  BY <1>a, <1>d DEF TempInv
<1>4. SweepInv'
  BY <1>a, <1>d, <1>e DEF SweepInv, SweepOf
<1>5. CopyKept'
  BY <1>a, <1>d DEF PhaseInv, CopyKept, Gone
<1>6. LogInv'
  BY <1>a DEF LogInv, Uninstalling
<1>7. FateInv'
  BY <1>a, <1>d, <1>e DEF FateInv, FateOf, Swept
<1>. QED
  BY <1>1, <1>2, <1>3, <1>4, <1>5, <1>6, <1>7

\* SweepDir keeps the invariant.
LEMMA SweepDirInv ==
    ASSUME PhasesInv, NEW r \in Runs, SweepDir(r)
    PROVE  PhasesInv'
<1>. USE DEF PhasesInv, plan, process, files, sweeping, fate, left
<1> DEFINE d == sweep[r].dir
<1>a. /\ d \in Runs /\ sweep[r].dir = d /\ sweep[r].at = "dir" /\ handle[d] = r
      /\ UNCHANGED <<plan, process, files, todo, fate>>
      /\ Fault \/ NoFault
      /\ handle' = [handle EXCEPT ![d] = None] /\ sweep' = [sweep EXCEPT ![r] = NoSweep]
  BY DEF SweepDir, SweepInv, SweepOf
<1>b. \/ UNCHANGED temp
      \/ temp' = [temp EXCEPT ![d] = NoDir] /\ MayRemove(sweep[r]) /\ IsEmpty(d)
  BY DEF SweepDir
<1>c. /\ temp' \in [Runs -> TempDir]
      /\ \A q \in Runs \ {d} : temp'[q] = temp[q]
  <2>1. NoDir \in TempDir
    BY DEF NoDir, TempDir
  <2>. QED
    BY <1>a, <1>b, <2>1, Types
<1>d. \/ temp'[d] = temp[d]
      \/ /\ ~temp'[d].there /\ ~temp'[d].exe /\ ~temp'[d].done
         /\ ~temp[d].exe
         /\ sweep[r].old \/ sweep[r].deleted
  BY <1>a, <1>b, Types DEF NoDir, TempDir, MayRemove, IsEmpty
<1>e. /\ first[d] \notin {"none", "new", "create"}
      /\ temp'[d] # temp[d] => first[d] # "copy"
  BY <1>a, <1>d DEF PhaseInv, TempInv, SweepInv, SweepOf
<1> HIDE DEF d
<1>1. TypeOK'
  BY <1>a, <1>c, FaultsBounded DEF TypeOK, TempDir, NoSweep
<1>2. PhaseInv'
  BY <1>a DEF PhaseInv
<1>3. TempInv'
  <2>1. \A q \in Runs : \/ temp'[q] = temp[q]
                        \/ /\ ~temp'[q].there /\ ~temp'[q].exe /\ ~temp'[q].done
                           /\ first[q] # "copy"
    BY <1>c, <1>d, <1>e
  <2>. QED
    BY <1>a, <2>1 DEF TempInv
<1>4. SweepInv'
  <2>1. \A q \in Runs \ {r} : sweep[q].at # "next" => sweep[q].dir # d
    BY <1>a DEF SweepInv
  <2>2. \A q \in Runs \ {r} : sweep'[q] = sweep[q]
    BY <1>a
  <2>3. sweep'[r].at = "next" /\ \A x \in Runs : handle'[x] # r
    BY <1>a, Types DEF TypeOK, SweepInv, SweepState, NoSweep
  <2>4. \A q \in Runs \ {r}, x \in Runs :
          handle'[x] = q <=> sweep'[q].at # "next" /\ sweep'[q].dir = x
    BY <1>a, <2>1, <2>2 DEF TypeOK, SweepInv
  <2>5. \A q \in Runs \ {r} : sweep'[q].at # "next" => SweepOf(q)'
    BY <1>a, <1>c, <2>1, <2>2 DEF SweepInv, SweepOf
  <2>. QED
    BY <2>3, <2>4, <2>5 DEF SweepInv
<1>5. CopyKept'
  <2>1. (first[d] # "exec" /\ second[d] \in Gone) \/ temp'[d] = temp[d]
    BY <1>a, <1>d DEF CopyKept
  <2>. QED
    BY <1>a, <1>c, <1>d, <1>e, <2>1 DEF CopyKept
<1>6. LogInv'
  BY <1>a DEF LogInv, Uninstalling
<1>7. FateInv'
  <2>1. \A q \in Runs : sweep'[q].at = "done" <=> sweep[q].at = "done"
    BY <1>a, Types DEF SweepState, NoSweep
  <2>2. \A q \in Runs : sweep[q].at = "done" => sweep'[q] = sweep[q]
    BY <1>a, Types DEF SweepState
  <2>3. \A q \in Runs : Swept(q)' <=> Swept(q)
    BY <2>1, <2>2 DEF Swept
  <2>4. \A q \in Runs : \/ temp'[q] = temp[q]
                        \/ ~temp'[q].there /\ ~temp'[q].exe /\ ~temp'[q].done
                           /\ second[q] \in Gone
    BY <1>c, <1>d DEF CopyKept
  <2>5. ASSUME NEW q \in Runs \ killed
        PROVE  FateOf(q)'
    <3>1. FateOf(q)
      BY <2>5 DEF FateInv
    <3>. QED
      BY <1>a, <2>3, <2>4, <3>1 DEF FateOf, Gone
  <2>. QED
    BY <1>a, <2>5 DEF FateInv
<1>. QED
  BY <1>1, <1>2, <1>3, <1>4, <1>5, <1>6, <1>7

\* EndSweep keeps the invariant.
LEMMA EndSweepInv ==
    ASSUME PhasesInv, NEW r \in Runs, EndSweep(r)
    PROVE  PhasesInv'
<1>. USE DEF PhasesInv, EndSweep, plan, process, files, sweeping, fate, left
<1>1. TypeOK'
  BY DEF TypeOK
<1>2. PhaseInv'
  BY DEF PhaseInv, Gone
<1>3. TempInv'
  BY DEF TempInv
<1>4. SweepInv'
  BY DEF SweepInv, SweepOf
<1>5. CopyKept'
  BY DEF CopyKept, Gone
<1>6. LogInv'
  BY DEF LogInv, Uninstalling
<1>7. FateInv'
  BY DEF FateInv, FateOf, Swept, Gone
<1>. QED
  BY <1>1, <1>2, <1>3, <1>4, <1>5, <1>6, <1>7

\* Perform keeps the invariant.
LEMMA PerformInv ==
    ASSUME PhasesInv, NEW r \in Runs, Perform(r)
    PROVE  PhasesInv'
<1>. USE DEF PhasesInv, Perform, plan, process, files, sweeping, fate, left
<1>1. TypeOK'
  BY DEF TypeOK
<1>2. PhaseInv'
  BY DEF PhaseInv, Gone
<1>3. TempInv'
  BY DEF TempInv
<1>4. SweepInv'
  BY DEF SweepInv, SweepOf
<1>5. CopyKept'
  BY DEF CopyKept, Gone
<1>6. LogInv'
  BY DEF LogInv, Uninstalling
<1>7. FateInv'
  BY DEF FateInv, FateOf, Swept, Gone
<1>. QED
  BY <1>1, <1>2, <1>3, <1>4, <1>5, <1>6, <1>7

\* TruncateLog keeps the invariant.
LEMMA TruncateLogInv ==
    ASSUME PhasesInv, NEW r \in Runs, TruncateLog(r)
    PROVE  PhasesInv'
<1>. USE DEF PhasesInv, Fault, NoFault, TruncateLog, plan, process, files, sweeping, fate, left
<1>1. TypeOK'
  BY DEF TypeOK
<1>2. PhaseInv'
  BY DEF PhaseInv, Gone
<1>3. TempInv'
  BY DEF TempInv
<1>4. SweepInv'
  BY DEF SweepInv, SweepOf
<1>5. CopyKept'
  BY DEF CopyKept, Gone
<1>6. LogInv'
  BY DEF TypeOK, LogInv, Uninstalling
<1>7. FateInv'
  BY DEF FateInv, FateOf, Swept, Gone
<1>. QED
  BY <1>1, <1>2, <1>3, <1>4, <1>5, <1>6, <1>7

\* ReleaseLog keeps the invariant.
LEMMA ReleaseLogInv ==
    ASSUME PhasesInv, NEW r \in Runs, ReleaseLog(r)
    PROVE  PhasesInv'
<1>. USE DEF PhasesInv, ReleaseLog, Close, plan, process, files, sweeping, fate, left
<1>1. TypeOK'
  BY DEF TypeOK
<1>2. PhaseInv'
  BY DEF PhaseInv, Gone
<1>3. TempInv'
  BY DEF TempInv
<1>4. SweepInv'
  BY DEF SweepInv, SweepOf
<1>5. CopyKept'
  BY DEF CopyKept, Gone
<1>6. LogInv'
  BY DEF TypeOK, LogInv, Uninstalling
<1>7. FateInv'
  BY DEF FateInv, FateOf, Swept, Gone
<1>. QED
  BY <1>1, <1>2, <1>3, <1>4, <1>5, <1>6, <1>7

\* DeleteLog keeps the invariant.
LEMMA DeleteLogInv ==
    ASSUME PhasesInv, NEW r \in Runs, DeleteLog(r)
    PROVE  PhasesInv'
<1>. USE DEF PhasesInv, plan, process, files, sweeping, fate, left
<1>a. /\ second[r] = "data" /\ second' = [second EXCEPT ![r] = "done"]
      /\ UNCHANGED <<plan, initial, first, kill, holder, installed, temp, sweeping, fate>>
      /\ Fault \/ NoFault
  BY DEF DeleteLog
<1>b. \/ UNCHANGED log
      \/ log' = [log EXCEPT ![app[r]] = "gone"] /\ holder[app[r]] = None
  BY DEF DeleteLog
<1>c. \A q \in Runs : \/ log'[app[q]] = log[app[q]]
                      \/ log'[app[q]] = "gone" /\ holder[app[q]] # q
  <2>1. log \in [Apps -> {"full", "empty", "gone"}] /\ None \notin Runs
    BY DEF TypeOK
  <2>2. app[r] \in Apps /\ \A q \in Runs : app[q] \in Apps
    BY Types
  <2>3. CASE log' = [log EXCEPT ![app[r]] = "gone"] /\ holder[app[r]] = None
    <3>1. \A x \in Apps : log'[x] = IF x = app[r] THEN "gone" ELSE log[x]
      BY <2>1, <2>3
    <3>2. \A q \in Runs : app[q] = app[r] => holder[app[q]] # q
      BY <2>1, <2>3
    <3>. QED
      BY <2>2, <3>1, <3>2
  <2>. QED
    BY <1>b, <2>3
<1>d. \A q \in Runs \ {r} : second'[q] = second[q]
  BY <1>a
<1>1. TypeOK'
  BY <1>a, <1>b, FaultsBounded DEF TypeOK
<1>2. PhaseInv'
  BY <1>a DEF PhaseInv, Gone
<1>3. TempInv'
  BY <1>a DEF TempInv
<1>4. SweepInv'
  BY <1>a DEF SweepInv, SweepOf
<1>5. CopyKept'
  BY <1>a DEF CopyKept, Gone
<1>6. LogInv'
  BY <1>a, <1>c, <1>d DEF LogInv, Uninstalling
<1>7. FateInv'
  BY <1>a DEF FateInv, FateOf, Swept, Gone
<1>. QED
  BY <1>1, <1>2, <1>3, <1>4, <1>5, <1>6, <1>7

\* MarkDone keeps the invariant.
LEMMA MarkDoneInv ==
    ASSUME PhasesInv, NEW r \in Runs, MarkDone(r)
    PROVE  PhasesInv'
<1>. USE DEF PhasesInv, plan, process, files, sweeping, fate, left
<1>a. /\ second[r] = "done" /\ second' = [second EXCEPT ![r] = "tell"]
      /\ UNCHANGED <<plan, initial, first, kill, files, sweeping, raced, killed, markLeft>>
      /\ Fault \/ NoFault
  BY DEF MarkDone
<1>b. \/ /\ temp[r].there /\ temp' = [temp EXCEPT ![r].done = TRUE, ![r].recent = TRUE]
         /\ UNCHANGED copyLeft
      \/ copyLeft' = copyLeft \union {r} /\ UNCHANGED temp
  BY DEF MarkDone
<1>c. temp' \in [Runs -> TempDir]
  <2>1. CASE temp' = [temp EXCEPT ![r].done = TRUE, ![r].recent = TRUE]
    BY <2>1, Types DEF TempDir
  <2>. QED
    BY <1>b, <2>1, Types
<1>d. /\ \A q \in Runs \ {r} : temp'[q] = temp[q]
      /\ temp'[r].there = temp[r].there /\ temp'[r].exe = temp[r].exe
      /\ temp[r].recent => temp'[r].recent
      /\ \/ temp[r].there /\ temp'[r].done /\ UNCHANGED copyLeft
         \/ copyLeft' = copyLeft \union {r} /\ temp'[r].done = temp[r].done
  BY <1>b, Types DEF TempDir
<1>1. TypeOK'
  BY <1>a, <1>b, <1>c, FaultsBounded DEF TypeOK, TempDir
<1>2. PhaseInv'
  BY <1>a DEF PhaseInv, Gone
<1>3. TempInv'
  BY <1>a, <1>d DEF TempInv
<1>4. SweepInv'
  BY <1>a, <1>d DEF SweepInv, SweepOf
<1>5. CopyKept'
  BY <1>a, <1>d DEF CopyKept, Gone
<1>6. LogInv'
  BY <1>a DEF LogInv, Uninstalling
<1>7. FateInv'
  <2>1. ASSUME NEW q \in Runs \ killed, q # r
        PROVE  FateOf(q)'
    BY <1>a, <1>d, <2>1 DEF FateInv, FateOf, Swept
  <2>2. r \notin killed => FateOf(r)'
    BY <1>a, <1>d DEF TypeOK, CopyKept, FateInv, FateOf, Swept, Gone
  <2>. QED
    BY <1>a, <2>1, <2>2 DEF FateInv
<1>. QED
  BY <1>1, <1>2, <1>3, <1>4, <1>5, <1>6, <1>7

\* TellFirstPhase keeps the invariant.
LEMMA TellFirstPhaseInv ==
    ASSUME PhasesInv, NEW r \in Runs, TellFirstPhase(r)
    PROVE  PhasesInv'
<1>. USE DEF PhasesInv, plan, process, files, sweeping, fate, left
<1>a. /\ second[r] = "tell"
      /\ UNCHANGED <<plan, initial, first, files, temp, sweeping, raced, killed, copyLeft>>
      /\ Fault \/ NoFault
  BY DEF TellFirstPhase
<1>b. \/ /\ second' = [second EXCEPT ![r] = "wait"]
         /\ kill' = IF first[r] = "ended" THEN kill ELSE kill \union {r}
         /\ UNCHANGED markLeft
      \/ /\ first[r] # "ended" /\ second' = [second EXCEPT ![r] = "exe"]
         /\ kill' \in {kill, kill \union {r}}
         /\ markLeft' = markLeft \union {r}
  BY DEF TellFirstPhase
<1>c. /\ second' \in [Runs -> {"none", "open", "loaded", "reopen", "sweep", "perform", "truncate",
                               "close", "data", "done", "tell", "wait", "exe", "ended"}]
      /\ \A q \in Runs \ {r} : second'[q] = second[q]
      /\ second'[r] \in {"wait", "exe"}
      /\ kill' \subseteq Runs /\ markLeft' \subseteq Runs
  BY <1>b DEF TypeOK
<1>1. TypeOK'
  BY <1>a, <1>c, FaultsBounded DEF TypeOK
<1>2. PhaseInv'
  BY <1>a, <1>c DEF PhaseInv, Gone
<1>3. TempInv'
  BY <1>a DEF TempInv
<1>4. SweepInv'
  BY <1>a, <1>c DEF SweepInv, SweepOf
<1>5. CopyKept'
  BY <1>a, <1>c DEF CopyKept, Gone
<1>6. LogInv'
  BY <1>a, <1>c DEF LogInv, Uninstalling
<1>7. FateInv'
  <2>1. r \notin killed /\ first[r] # "ended" => first[r] = "waiting"
    BY <1>a DEF FateInv, FateOf, Gone
  <2>2. r \notin killed => temp[r].done \/ r \in copyLeft
    BY <1>a DEF FateInv, FateOf
  <2>. QED
    BY <1>a, <1>b, <1>c, <2>1, <2>2 DEF TypeOK, CopyKept, FateInv, FateOf, Swept, Gone
<1>. QED
  BY <1>1, <1>2, <1>3, <1>4, <1>5, <1>6, <1>7

\* WaitForFirst keeps the invariant.
LEMMA WaitForFirstInv ==
    ASSUME PhasesInv, NEW r \in Runs, WaitForFirst(r)
    PROVE  PhasesInv'
<1>. USE DEF PhasesInv, WaitForFirst, WaitedFor, plan, process, files, sweeping, fate, left
<1>1. TypeOK'
  BY DEF TypeOK
<1>2. PhaseInv'
  BY DEF PhaseInv, Gone
<1>3. TempInv'
  BY DEF TempInv
<1>4. SweepInv'
  BY DEF SweepInv, SweepOf
<1>5. CopyKept'
  BY DEF CopyKept, Gone
<1>6. LogInv'
  BY DEF LogInv, Uninstalling
<1>7. FateInv'
  BY DEF FateInv, FateOf, Swept
<1>. QED
  BY <1>1, <1>2, <1>3, <1>4, <1>5, <1>6, <1>7

\* DeleteUninstaller keeps the invariant.
LEMMA DeleteUninstallerInv ==
    ASSUME PhasesInv, NEW r \in Runs, DeleteUninstaller(r)
    PROVE  PhasesInv'
<1>. USE DEF PhasesInv, Fault, NoFault, DeleteUninstaller, plan, process,
          files, sweeping, fate, left
<1>1. TypeOK'
  BY DEF TypeOK
<1>2. PhaseInv'
  BY DEF PhaseInv, Gone
<1>3. TempInv'
  BY DEF TempInv
<1>4. SweepInv'
  BY DEF SweepInv, SweepOf
<1>5. CopyKept'
  BY DEF CopyKept, Gone
<1>6. LogInv'
  BY DEF LogInv, Uninstalling
<1>7. FateInv'
  BY DEF FateInv, FateOf, Swept, Gone
<1>. QED
  BY <1>1, <1>2, <1>3, <1>4, <1>5, <1>6, <1>7

\* Age keeps the invariant.
LEMMA AgeInv ==
    ASSUME PhasesInv, NEW r \in Runs, Age(r)
    PROVE  PhasesInv'
<1>. USE DEF PhasesInv, Age, plan, process, files, sweeping, fate, left
<1>1. TypeOK'
  <2>1. temp' \in [Runs -> TempDir]
    BY Types DEF TempDir
  <2>. QED
    BY <2>1 DEF TypeOK, TempDir
<1>2. PhaseInv'
  BY DEF PhaseInv
<1>3. TempInv'
  BY DEF TempInv
<1>4. SweepInv'
  BY DEF SweepInv, SweepOf
<1>5. CopyKept'
  BY DEF CopyKept
<1>6. LogInv'
  BY DEF LogInv, Uninstalling
<1>7. FateInv'
  BY DEF FateInv, FateOf, Swept
<1>. QED
  BY <1>1, <1>2, <1>3, <1>4, <1>5, <1>6, <1>7

\* KillSecond keeps the invariant.
LEMMA KillSecondInv ==
    ASSUME PhasesInv, NEW r \in Runs, KillSecond(r), Fault,
           UNCHANGED <<plan, log, installed, temp, raced, left>>
    PROVE  PhasesInv'
<1>. USE DEF PhasesInv, Fault, KillSecond, Close, NoSweep, plan, process,
          files, sweeping, fate, left
<1>1. TypeOK'
  BY DEF TypeOK
<1>2. PhaseInv'
  BY DEF PhaseInv, Gone
<1>3. TempInv'
  BY DEF TempInv
<1>4. SweepInv'
  BY DEF TypeOK, SweepInv, SweepOf
<1>5. CopyKept'
  BY DEF CopyKept
<1>6. LogInv'
  BY DEF TypeOK, LogInv, Uninstalling
<1>7. FateInv'
  BY DEF SweepInv, FateInv, FateOf, Swept
<1>. QED
  BY <1>1, <1>2, <1>3, <1>4, <1>5, <1>6, <1>7

\* KillFirst keeps the invariant.
LEMMA KillFirstInv ==
    ASSUME PhasesInv, NEW r \in Runs, KillFirst(r), Fault,
           UNCHANGED <<plan, log, installed, temp, raced, left>>
    PROVE  PhasesInv'
<1>. USE DEF PhasesInv, Fault, KillFirst, plan, process, files, sweeping, fate, left
<1>1. TypeOK'
  BY DEF TypeOK
<1>2. PhaseInv'
  BY DEF PhaseInv, Gone
<1>3. TempInv'
  BY DEF TempInv
<1>4. SweepInv'
  BY DEF SweepInv, SweepOf
<1>5. CopyKept'
  BY DEF CopyKept
<1>6. LogInv'
  BY DEF LogInv, Uninstalling
<1>7. FateInv'
  BY DEF FateInv, FateOf, Swept
<1>. QED
  BY <1>1, <1>2, <1>3, <1>4, <1>5, <1>6, <1>7

\* KillInitial keeps the invariant.
LEMMA KillInitialInv ==
    ASSUME PhasesInv, NEW r \in Runs, KillInitial(r), Fault,
           UNCHANGED <<plan, log, installed, temp, raced, left>>
    PROVE  PhasesInv'
<1>. USE DEF PhasesInv, Fault, KillInitial, plan, process, files, sweeping, fate, left
<1>1. TypeOK'
  BY DEF TypeOK
<1>2. PhaseInv'
  BY DEF PhaseInv
<1>3. TempInv'
  BY DEF TempInv
<1>4. SweepInv'
  BY DEF SweepInv, SweepOf
<1>5. CopyKept'
  BY DEF CopyKept
<1>6. LogInv'
  BY DEF LogInv, Uninstalling
<1>7. FateInv'
  BY DEF FateInv, FateOf, Swept
<1>. QED
  BY <1>1, <1>2, <1>3, <1>4, <1>5, <1>6, <1>7

--------------------------------------------------------------------------------
(* The initial states, the steps together, and the theorems.               *)

\* The invariant holds at first.
LEMMA InitInv == Init => PhasesInv
<1> SUFFICES ASSUME Init PROVE PhasesInv
  OBVIOUS
<1>. USE DEF Init
<1>1. TypeOK
  <2>1. app \in Plans /\ elevates \subseteq Runs
    OBVIOUS
  <2>2. /\ initial \in [Runs -> {"none", "new", "waiting", "ended"}]
        /\ first \in [Runs -> {"none", "new", "create", "copy", "exec", "waiting", "delete",
                               "remove", "ended"}]
    OBVIOUS
  <2>3. /\ temp \in [Runs -> TempDir]
        /\ sweep \in [Runs -> SweepState]
    BY DEF NoDir, TempDir, NoSweep, SweepState
  <2>. QED
    BY <2>3 DEF TypeOK, TempDir, SweepState
<1>2. PhaseInv /\ TempInv /\ CopyKept
  BY DEF PhaseInv, TempInv, CopyKept, NoDir, Gone
<1>3. SweepInv
  BY DEF SweepInv, NoSweep
<1>4. LogInv
  BY DEF LogInv, Uninstalling
<1>5. FateInv
  BY DEF FateInv, FateOf, Gone, NoDir
<1>. QED
  BY <1>1, <1>2, <1>3, <1>4, <1>5 DEF PhasesInv

\* A step that changes nothing keeps the invariant.
LEMMA StutterInv == PhasesInv /\ UNCHANGED vars => PhasesInv'
<1> SUFFICES ASSUME PhasesInv, UNCHANGED vars PROVE PhasesInv'
  OBVIOUS
<1>. USE DEF vars, plan, process, files, sweeping, fate, left
<1>1. TypeOK'
  BY DEF PhasesInv, TypeOK
<1>2. PhaseInv' /\ TempInv' /\ SweepInv' /\ CopyKept'
  BY DEF PhasesInv, PhaseInv, TempInv, SweepInv, SweepOf, CopyKept
<1>3. LogInv' /\ FateInv'
  BY DEF PhasesInv, LogInv, Uninstalling, FateInv, FateOf, Swept
<1>. QED
  BY <1>1, <1>2, <1>3 DEF PhasesInv

\* Every step keeps the invariant.
LEMMA NextInv == PhasesInv /\ [Next]_vars => PhasesInv'
<1>1. ASSUME PhasesInv, NEW r \in Runs, InitialStep(r) \/ FirstStep(r) PROVE PhasesInv'
  BY <1>1, StartInv, InitialEndsInv, CreateTempInv, CopySelfInv, ExecInv,
     FirstPhaseQuitsInv,
     SecondPhaseDiedInv, DeleteCopyInv, RemoveTempInv DEF InitialStep, FirstStep
<1>2. ASSUME PhasesInv, NEW r \in Runs, SecondStep(r) PROVE PhasesInv'
  BY <1>2, OpenLogInv, CloseLogInv, ReopenLogInv, AbortInv, OpenDirInv, SweepExeInv,
     SweepDoneInv, SweepDirInv, EndSweepInv, PerformInv, TruncateLogInv, ReleaseLogInv,
     DeleteLogInv, MarkDoneInv, TellFirstPhaseInv, WaitForFirstInv, DeleteUninstallerInv
     DEF SecondStep
<1>3. ASSUME PhasesInv, NEW r \in Runs, Kill(r) PROVE PhasesInv'
  BY <1>3, KillSecondInv, KillFirstInv, KillInitialInv DEF Kill
<1>. QED
  BY <1>1, <1>2, <1>3, WaitFailsInv, AgeInv, StutterInv DEF Next

\* The invariant behind the three below: which phase runs when, what is in its
\* directory, what a sweep knows, who has the log (Uninstall.pas).
THEOREM PhasesInvariant == Spec => []PhasesInv
  BY InitInv, NextInv, PTL DEF Spec

\* No sweep takes away the copy of a run whose second phase is there or about
\* to be started, whatever the sweeps and the kills (TryDeleteUninstallDir).
THEOREM CopyIsKept == Spec => []CopyKept
<1>1. PhasesInv => CopyKept
  BY DEF PhasesInv
<1>. QED
  BY <1>1, PhasesInvariant, PTL

\* No two runs of one application uninstall at a time, and none on a log that
\* is used up, unless another reopened it first (RunSecondPhase).
THEOREM OneAtATime == Spec => []OneUninstall
<1>1. PhasesInv => OneUninstall
  BY DEF PhasesInv, LogInv, OneUninstall
<1>. QED
  BY <1>1, PhasesInvariant, PTL

\* What a run leaves behind a later sweep can remove, but for a copy without a
\* mark and a mark without a copy, which only the failures named leave
\* (RunFirstPhase, CreateUninstallDoneFile, TryDeleteUninstallDir).
THEOREM NothingIsLost == Spec => []NothingLost
<1>1. ASSUME PhasesInv, NEW r \in Runs, Over(r), r \notin killed, handle[r] = None,
             temp[r].there
      PROVE  /\ temp[r].exe /\ ~temp[r].done => r \in copyLeft
             /\ temp[r].done /\ ~temp[r].exe => r \in markLeft
  <2>1. ~Swept(r)
    BY <1>1 DEF PhasesInv, SweepInv, Swept
  <2>. QED
    BY <1>1, <2>1 DEF PhasesInv, FateInv, FateOf, Over
<1>2. PhasesInv => NothingLost
  BY <1>1 DEF NothingLost
<1>. QED
  BY <1>2, PhasesInvariant, PTL
===============================================================================
