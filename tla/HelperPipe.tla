------------------------------ MODULE HelperPipe ------------------------------
(***************************************************************************)
(* The 64-bit helper: Setup (THelper in Setup.Helper.pas) has commands     *)
(* executed by a process of its own (Helper.c), one request and one        *)
(* response at a time through a message pipe.  The helper may die at any   *)
(* moment, and one of the commands, the registration of a type library,    *)
(* runs foreign code in it.                                                *)
(*                                                                         *)
(* FProcessMessagesProc is assigned nowhere, so that InternalCall waits    *)
(* without processing messages and no call is made during another.         *)
(***************************************************************************)
EXTENDS Naturals, Sequences

CONSTANTS MaxCalls,   \* bound: calls made by Setup
          MaxFaults,  \* bound: deaths and failing system calls
          SeqMod,     \* sequence numbers are taken modulo this (2^32)
          Errors,     \* error codes a command may answer
          Success,    \* the error code of a ping and of a success
          None        \* no message, no answer

ASSUME PipeAssumption ==
    /\ MaxCalls \in Nat
    /\ MaxFaults \in Nat
    /\ SeqMod \in Nat \ {0, 1}
    /\ Success \in Errors
    /\ None \notin Errors

Calls == 1..MaxCalls
Kinds == {"grant", "typelib"}

VARIABLES
    pc,         \* where Setup is in Call, InternalCall and Stop
    after,      \* where Stop returns to
    running,    \* FRunning
    needsRestarting,  \* FNeedsRestarting
    seq,        \* FCommandSequenceNumber
    request,    \* FRequest: header, and the call whose parameters Data holds
    response,   \* FResponse
    n, kind,    \* the last call made, and which function made it
    pipeOpen,   \* Setup's end of the pipe
    toHelper, toSetup,  \* the message on its way in each direction
    proc,       \* the helper's process
    work,       \* its request, then its response
    ran,        \* history: the commands this process has executed
    outcome, runs, answer, given,  \* history: the calls, see RemoteCall
    excused,    \* history: calls that met a fault of their own
    faults      \* faults so far

setupVars == <<pc, after, running, needsRestarting, seq, request, response, n, kind>>
pipeVars == <<pipeOpen, toHelper, toSetup>>
procVars == <<proc, work, ran>>
callVars == <<outcome, runs, answer, given>>
vars == <<setupVars, pipeVars, procVars, callVars, excused, faults>>

Requests == [seq : 0..SeqMod-1, cmd : {"ping", "command"}, call : Calls, kind : Kinds]
Responses == [seq : 0..SeqMod-1, status : {0, 1}, error : Errors]

Alive == proc \notin {"none", "ended"}
\* The helper's end of the pipe is closed
HelperHungUp == proc \in {"none", "exiting", "ended"}

TypeOK ==
    /\ pc \in {"idle", "call", "send", "wait", "stopping", "start", "return",
               "failed", "dead"}
    /\ after \in {"idle", "call", "start", "return", "failed"}
    /\ running \in BOOLEAN /\ needsRestarting \in BOOLEAN /\ pipeOpen \in BOOLEAN
    /\ seq \in 0..SeqMod-1
    /\ request \in Requests \cup {None}
    /\ response \in Responses \cup {None}
    /\ n \in 0..MaxCalls /\ kind \in Kinds
    /\ toHelper \in Requests \cup {None}
    /\ toSetup \in Responses \cup {None}
    /\ proc \in {"none", "reading", "executing", "answering", "exiting", "ended"}
    /\ work \in Requests \cup Responses \cup {None}
    /\ ran \in Seq(Kinds)
    /\ outcome \in [Calls -> {"unmade", "made", "returned", "failed"}]
    /\ runs \in [Calls -> Nat]
    /\ answer \in [Calls -> Errors \cup {None}]
    /\ given \in [Calls -> Errors \cup {None}]
    /\ excused \subseteq Calls
    /\ faults \in 0..MaxFaults

Init ==
    /\ pc = "idle" /\ after = "idle"
    /\ running = FALSE /\ needsRestarting = FALSE
    /\ seq = 0 /\ request = None /\ response = None
    /\ n = 0 /\ kind = "grant"
    /\ pipeOpen = FALSE /\ toHelper = None /\ toSetup = None
    /\ proc = "none" /\ work = None /\ ran = <<>>
    /\ outcome = [c \in Calls |-> "unmade"]
    /\ runs = [c \in Calls |-> 0]
    /\ answer = [c \in Calls |-> None]
    /\ given = [c \in Calls |-> None]
    /\ excused = {}
    /\ faults = 0

Fault ==
    /\ faults < MaxFaults
    /\ faults' = faults + 1

-------------------------------------------------------------------------------
(* Setup *)

\* Stop(...) called where "next" follows: nothing to do if not running
StopThen(next) ==
    IF running
    THEN /\ needsRestarting' = TRUE
         /\ pipeOpen' = FALSE
         /\ pc' = "stopping"
         /\ after' = next
    ELSE /\ pc' = next
         /\ UNCHANGED <<needsRestarting, pipeOpen, after>>

\* GrantPermission fills FRequest.Data and calls; RegisterTypeLibrary stops the
\* helper first
CallHelper(k) ==
    /\ pc = "idle"
    /\ n < MaxCalls
    /\ n' = n + 1
    /\ kind' = k
    /\ outcome' = [outcome EXCEPT ![n + 1] = "made"]
    /\ IF k = "typelib"
       THEN StopThen("call")
       ELSE /\ pc' = "call"
            /\ UNCHANGED <<needsRestarting, pipeOpen, after>>
    /\ UNCHANGED <<running, seq, request, response, toHelper, toSetup, procVars,
                   runs, answer, given, excused, faults>>

\* Up to TransactNamedPipe: the request's header
Prepare(cmd) ==
    /\ seq' = (seq + 1) % SeqMod
    /\ request' = [seq |-> seq', cmd |-> cmd, call |-> n, kind |-> kind]
    /\ pc' = "send"

\* Mutant: a running helper is taken to be alive
TrustHelper == Prepare("command")

\* A running helper is pinged first
VerifyHelper == Prepare("ping")

\* Call: restart a helper that is not running or not to be trusted, else verify it
Call ==
    /\ pc = "call"
    /\ IF ~running \/ needsRestarting
       THEN StopThen("start") /\ UNCHANGED <<seq, request>>
       ELSE VerifyHelper /\ UNCHANGED <<needsRestarting, pipeOpen, after>>
    /\ UNCHANGED <<running, response, n, kind, toHelper, toSetup, procVars, callVars,
                   excused, faults>>

\* Start, and the command's InternalCall up to TransactNamedPipe
Start ==
    /\ pc = "start"
    /\ running' = TRUE
    /\ needsRestarting' = FALSE
    /\ pipeOpen' = TRUE /\ toHelper' = None /\ toSetup' = None
    /\ proc' = "reading" /\ work' = None /\ ran' = <<>>
    /\ \E tick \in 0..SeqMod-1 :
           /\ seq' = (tick + 1) % SeqMod
           /\ request' = [seq |-> seq', cmd |-> "command", call |-> n, kind |-> kind]
    /\ pc' = "send"
    /\ UNCHANGED <<after, response, n, kind, callVars, excused, faults>>

\* The pipe or the process cannot be created
StartFails ==
    /\ pc = "start"
    /\ Fault
    /\ pc' = "failed"
    /\ excused' = excused \cup {n}
    /\ UNCHANGED <<after, running, needsRestarting, seq, request, response, n, kind,
                   pipeVars, procVars, callVars>>

\* TransactNamedPipe with the pipe in order
Transact ==
    /\ pc = "send"
    /\ ~HelperHungUp
    /\ toHelper' = request
    /\ pc' = "wait"
    /\ UNCHANGED <<after, running, needsRestarting, seq, request, response, n, kind,
                   pipeOpen, toSetup, procVars, callVars, excused, faults>>

\* Mutant: Call repeats a command that failed, too
RetryAlways == "start"

\* Where an exception is handled that InternalCall has raised again: in Call if
\* it was the ping, which then restarts the helper
HandledAt == IF request.cmd = "ping" THEN "start" ELSE "failed"

\* The except section of InternalCall
Raise ==
    /\ running
    /\ StopThen(HandledAt)

\* CreateEvent fails
CreateEventFails ==
    /\ pc = "send"
    /\ Fault
    /\ Raise
    /\ excused' = IF request.cmd = "command" THEN excused \cup {n} ELSE excused
    /\ UNCHANGED <<running, seq, request, response, n, kind, toHelper, toSetup,
                   procVars, callVars>>

\* Mutant: an exception ends the wait while the operation is pending
MayGiveUp == HelperHungUp \/ pc = "wait"

\* The system fails an operation only when the other end is closed
OperationFails == HelperHungUp

\* The helper's end of the pipe is closed: before the request, or with no
\* response written
PipeBroken ==
    /\ pc \in {"send", "wait"}
    /\ OperationFails
    /\ toSetup = None
    /\ Raise
    /\ UNCHANGED <<running, seq, request, response, n, kind, toHelper, toSetup,
                   procVars, callVars, excused, faults>>

\* Mutant: RegisterTypeLibrary leaves the helper running
CommandDoneNoStop ==
    /\ pc' = "return"
    /\ UNCHANGED <<needsRestarting, pipeOpen, after>>

\* What follows Call in GrantPermission and RegisterTypeLibrary
CommandDone ==
    IF kind = "typelib"
    THEN StopThen("return")
    ELSE /\ pc' = "return"
         /\ UNCHANGED <<needsRestarting, pipeOpen, after>>

\* GetOverlappedResult returns a response, which InternalCall checks
GotResponse ==
    /\ pc = "wait"
    /\ toSetup # None
    /\ response' = toSetup
    /\ toSetup' = None
    /\ IF toSetup.seq # request.seq \/ toSetup.status = 0
       THEN Raise /\ UNCHANGED <<seq, request>>
       ELSE \/ /\ request.cmd = "ping"
               /\ Prepare("command")
               /\ UNCHANGED <<needsRestarting, pipeOpen, after>>
            \/ /\ request.cmd = "command"
               /\ CommandDone
               /\ UNCHANGED <<seq, request>>
    /\ UNCHANGED <<running, n, kind, toHelper, procVars, callVars, excused, faults>>

\* The process has ended: the rest of Stop
Stopped ==
    /\ pc = "stopping"
    /\ ~Alive
    /\ running' = FALSE
    /\ pc' = after
    /\ UNCHANGED <<after, needsRestarting, seq, request, response, n, kind, pipeVars,
                   procVars, callVars, excused, faults>>

\* Mutant: Stop waits as long as it takes
NeverTerminate == FALSE /\ UNCHANGED vars

\* The wait for the process has timed out
Terminate ==
    /\ pc = "stopping"
    /\ Alive
    /\ proc' = "ended"
    /\ UNCHANGED <<setupVars, pipeVars, work, ran, callVars, excused, faults>>

Return ==
    /\ pc = "return"
    /\ pc' = "idle"
    /\ outcome' = [outcome EXCEPT ![n] = "returned"]
    /\ given' = [given EXCEPT ![n] = response.error]
    /\ UNCHANGED <<after, running, needsRestarting, seq, request, response, n, kind,
                   pipeVars, procVars, runs, answer, excused, faults>>

\* The exception reaches the caller
CallRaises ==
    /\ pc = "failed"
    /\ pc' = "idle"
    /\ outcome' = [outcome EXCEPT ![n] = "failed"]
    /\ UNCHANGED <<after, running, needsRestarting, seq, request, response, n, kind,
                   pipeVars, procVars, runs, answer, given, excused, faults>>

\* StopHelper, called before HELPER.EXE is deleted
StopHelper ==
    /\ pc = "idle"
    /\ running
    /\ StopThen("idle")
    /\ UNCHANGED <<running, seq, request, response, n, kind, toHelper, toSetup,
                   procVars, callVars, excused, faults>>

\* Setup is killed
SetupDies ==
    /\ pc # "dead"
    /\ Fault
    /\ pc' = "dead"
    /\ pipeOpen' = FALSE
    /\ UNCHANGED <<after, running, needsRestarting, seq, request, response, n, kind,
                   toHelper, toSetup, procVars, callVars, excused>>

-------------------------------------------------------------------------------
(* The helper: the loop of Main *)

ReadRequest ==
    /\ proc = "reading"
    /\ toHelper # None
    /\ work' = toHelper
    /\ toHelper' = None
    /\ proc' = "executing"
    /\ UNCHANGED <<setupVars, pipeOpen, toSetup, ran, callVars, excused, faults>>

\* ReadFile fails with ERROR_BROKEN_PIPE
ReadFails ==
    /\ proc = "reading"
    /\ toHelper = None
    /\ ~pipeOpen
    /\ proc' = "exiting"
    /\ UNCHANGED <<setupVars, pipeVars, work, ran, callVars, excused, faults>>

ProcessRequest ==
    /\ proc = "executing"
    /\ \/ /\ work.cmd = "ping"
          /\ work' = [seq |-> work.seq, status |-> 1, error |-> Success]
          /\ UNCHANGED <<ran, runs, answer>>
       \/ /\ work.cmd = "command"
          /\ \E e \in Errors :
                 /\ work' = [seq |-> work.seq, status |-> 1, error |-> e]
                 /\ answer' = [answer EXCEPT ![work.call] = e]
          /\ runs' = [runs EXCEPT ![work.call] = @ + 1]
          /\ ran' = Append(ran, work.kind)
    /\ proc' = "answering"
    /\ UNCHANGED <<setupVars, pipeVars, outcome, given, excused, faults>>

\* WriteFile; it fails when the client has gone
WriteResponse ==
    /\ proc = "answering"
    /\ IF pipeOpen
       THEN toSetup' = work /\ proc' = "reading"
       ELSE proc' = "exiting" /\ UNCHANGED toSetup
    /\ work' = None
    /\ UNCHANGED <<setupVars, pipeOpen, toHelper, ran, callVars, excused, faults>>

ExitProcess ==
    /\ proc = "exiting"
    /\ proc' = "ended"
    /\ UNCHANGED <<setupVars, pipeVars, work, ran, callVars, excused, faults>>

\* The ping was answered or not needed: from here on the call depends on the
\* helper
PingDone ==
    \/ pc \in {"send", "wait"} /\ request.cmd = "command"
    \/ pc = "wait" /\ toSetup # None

\* The helper is killed, or foreign code brings it down
HelperDies ==
    /\ Alive
    /\ Fault
    /\ proc' = "ended"
    /\ excused' = IF PingDone THEN excused \cup {n} ELSE excused
    /\ UNCHANGED <<setupVars, pipeVars, work, ran, callVars>>

-------------------------------------------------------------------------------
SetupStep ==
    \/ Call \/ Start \/ Transact \/ PipeBroken \/ GotResponse \/ Stopped \/ Terminate
    \/ Return \/ CallRaises

HelperStep == ReadRequest \/ ReadFails \/ ProcessRequest \/ WriteResponse

Next ==
    \/ \E k \in Kinds : CallHelper(k)
    \/ StopHelper
    \/ SetupStep
    \/ StartFails \/ CreateEventFails \/ SetupDies
    \/ HelperStep
    \/ ExitProcess
    \/ HelperDies

Spec == Init /\ [][Next]_vars

\* Setup's thread and the helper's are scheduled, the ten seconds of a wait
\* pass, and the commands return.  That the helper's process ends by itself is
\* not assumed: foreign code in it may hold it.
FairSpec == Spec /\ WF_vars(SetupStep) /\ WF_vars(HelperStep)

-------------------------------------------------------------------------------
(* Properties *)

\* "Waiting is never optional": while Setup is not waiting for a response, no
\* request and no response is in the pipe or in the helper's hands.  So the
\* response of a call that was given up is never taken for that of another,
\* and a helper that Stop kills "isn't doing anything other than waiting for a
\* request".
Synchronous ==
    pc \notin {"wait", "dead"} =>
        /\ Alive => toHelper = None /\ toSetup = None
        /\ proc \notin {"executing", "answering"}

\* A type library is registered in a helper that has executed nothing before,
\* and that executes nothing afterwards ("Can't trust foreign code").
ForeignCodeIsolated ==
    \A i \in DOMAIN ran : ran[i] = "typelib" => Len(ran) = 1

\* A call fails only for a fault of its own, one the ping could not have told:
\* a helper that died before is replaced without the caller's knowing.
FailsForOwnFault == \A c \in Calls : outcome[c] = "failed" => c \in excused

\* The calls are those of the abstract remote call.
Remote == INSTANCE RemoteCall WITH Results <- Errors
CallSpec == Remote!Spec

\* A call ends, whatever dies.
CallsReturn ==
    \A c \in Calls : outcome[c] = "made" ~> (outcome[c] # "made" \/ pc = "dead")
===============================================================================
