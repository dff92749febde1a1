----------------------------- MODULE SpawnProtocol -----------------------------
(***************************************************************************)
(* Programs are run for the user who started Setup by the process that is  *)
(* not elevated (the spawn server, in RespawnSelfElevated), at the request *)
(* of the elevated one (the client), which is its child.  They talk by     *)
(* window messages.  A call is several of them: the server answers the     *)
(* request before it executes it, and the client asks for the status until *)
(* it has changed.  Both process messages while they wait, so that the     *)
(* client may call again from within a call, and the server is asked       *)
(* things while it waits for a program.                                    *)
(***************************************************************************)
EXTENDS Naturals, Sequences

CONSTANTS MaxCalls,   \* bound: calls made by the client
          MaxDepth,   \* bound: calls within calls
          MaxFaults,  \* bound: killed processes, exceptions in the server
          SeqMod,     \* sequence numbers are taken modulo this (2^16)
          Answers,    \* results of an execution: [ok, lo, hi], the result of
                      \* InstExec and the two words of its ResultCode
          None        \* no message, no answer

ASSUME SpawnAssumption ==
    /\ MaxCalls \in Nat
    /\ MaxDepth \in Nat
    /\ MaxFaults \in Nat
    \* No more calls in a row within one call than there are sequence numbers
    /\ SeqMod \in Nat /\ SeqMod > MaxCalls
    /\ \A a \in Answers : a = [ok |-> a.ok, lo |-> a.lo, hi |-> a.hi] /\ a.ok \in BOOLEAN
    /\ None \notin Answers /\ None \notin 1..MaxCalls

Calls == 1..MaxCalls

VARIABLES
    client,    \* the elevated Setup: "running", "stopping" (StopNonElevatedSetup-
               \* Processes), "ended"
    stack,     \* its calls of CallSpawnServer, the innermost last
    n,         \* the last call made
    sent,      \* the message it is waiting in SendMessage for
    reply,     \* what SendMessage returns
    posted,    \* a WM_SpawnServer_ExitNow is in the server's queue
    fresh,     \* messages arrived since the server last looked at its queue
    srv,       \* where the server is
    seqNo, callStatus, result,  \* FSequenceNumber, FCallStatus, FResultCode
    exitNow,   \* FExitNowRequested
    job,       \* the program the server waits for: "none", "running", "ended"
    serving,   \* history: the call being executed
    outcome, runs, answer, given,  \* history: the calls, see RemoteCall
    excused,   \* history: calls that met a fault, or another call
    faults     \* faults so far

clientVars == <<client, stack, n>>
queueVars == <<sent, reply, posted, fresh>>
serverVars == <<srv, seqNo, callStatus, result, exitNow, job, serving>>
callVars == <<outcome, runs, answer, given>>
vars == <<clientVars, queueVars, serverVars, callVars, excused, faults>>

Top == stack[Len(stack)]
Pop == SubSeq(stack, 1, Len(stack) - 1)
SetTop(frame) == [stack EXCEPT ![Len(stack)] = frame]

\* The server is in Application.ProcessMessages: that of the loop of
\* RespawnSelfElevated, or one of HandleProcessWait
Pumping == srv \in {"pump", "lastpump", "jobpump", "joblast"}

QueueEmpty == sent = None /\ ~posted

Frames == [call : Calls, pc : {"call", "pump", "status", "lo", "hi"},
           seq : 0..SeqMod-1, ok : BOOLEAN, lo : {a.lo : a \in Answers} \cup {None}]

TypeOK ==
    /\ client \in {"running", "stopping", "ended"}
    /\ stack \in Seq(Frames)
    /\ n \in 0..MaxCalls
    /\ posted \in BOOLEAN /\ fresh \in BOOLEAN /\ exitNow \in BOOLEAN
    /\ srv \in {"pump", "check", "wait", "lastpump", "exec", "jobpump", "jobwait",
                "joblast", "ended"}
    /\ seqNo \in 0..SeqMod-1
    /\ callStatus \in {"none", "running", "true", "false", "exception"}
    /\ result \in Answers \cup {None}
    /\ job \in {"none", "running", "ended"}
    /\ serving \in Calls \cup {None}
    /\ outcome \in [Calls -> {"unmade", "made", "returned", "failed"}]
    /\ runs \in [Calls -> Nat]
    /\ answer \in [Calls -> Answers \cup {None}]
    /\ given \in [Calls -> Answers \cup {None}]
    /\ excused \subseteq Calls
    /\ faults \in 0..MaxFaults

\* The server's constructor, RespawnSelfElevated up to its loop, and the start
\* of the child
Init ==
    /\ client = "running" /\ stack = <<>> /\ n = 0
    /\ sent = None /\ reply = None /\ posted = FALSE /\ fresh = FALSE
    /\ srv = "pump" /\ seqNo = 0 /\ callStatus = "none" /\ result = None
    /\ exitNow = FALSE /\ job = "none" /\ serving = None
    /\ outcome = [c \in Calls |-> "unmade"]
    /\ runs = [c \in Calls |-> 0]
    /\ answer = [c \in Calls |-> None]
    /\ given = [c \in Calls |-> None]
    /\ excused = {}
    /\ faults = 0

Fault ==
    /\ faults < MaxFaults
    /\ faults' = faults + 1

-------------------------------------------------------------------------------
(* The client *)

\* SendMessage begins
Send(msg) ==
    /\ sent' = msg
    /\ reply' = None
    /\ fresh' = TRUE

\* CallSpawnServer, up to the request; from within another call if that is
\* processing messages
CallSpawnServer ==
    /\ client = "running"
    /\ n < MaxCalls
    /\ stack # <<>> => Top.pc = "pump" /\ Len(stack) < MaxDepth
    /\ n' = n + 1
    /\ stack' = Append(stack, [call |-> n + 1, pc |-> "call", seq |-> 0,
                               ok |-> FALSE, lo |-> None])
    /\ outcome' = [outcome EXCEPT ![n + 1] = "made"]
    /\ Send([op |-> "exec", call |-> n + 1])
    /\ UNCHANGED <<client, posted, serverVars, runs, answer, given, excused, faults>>

\* ProcessMessagesProc has returned and 10 ms have passed
QueryStatus ==
    /\ client = "running"
    /\ stack # <<>>
    /\ Top.pc = "pump"
    /\ stack' = SetTop([Top EXCEPT !.pc = "status"])
    /\ Send([op |-> "status", seq |-> Top.seq])
    /\ UNCHANGED <<client, n, posted, serverVars, callVars, excused, faults>>

\* An exception leaves CallSpawnServer
RaiseInternalError ==
    /\ outcome' = [outcome EXCEPT ![Top.call] = "failed"]
    /\ stack' = Pop
    /\ UNCHANGED <<sent, fresh, given>>

\* Mutant: every other status means that the answer is still to come
RunningUnlessReturned(status) == status \notin {"true", "false"}

StillRunning(status) == status = "running"

\* SendMessage has returned: the next statements of CallSpawnServer
GotReply ==
    /\ client = "running"
    /\ reply # None
    /\ \/ /\ Top.pc = "call"
          /\ IF reply.ok
             THEN /\ stack' = SetTop([Top EXCEPT !.pc = "pump", !.seq = reply.value])
                  /\ UNCHANGED <<sent, fresh, outcome, given>>
             ELSE RaiseInternalError
          /\ reply' = None
       \/ /\ Top.pc = "status"
          /\ IF reply.ok /\ reply.value \in {"true", "false"}
             THEN /\ stack' = SetTop([Top EXCEPT !.pc = "lo",
                                                 !.ok = (reply.value = "true")])
                  /\ Send([op |-> "lo", seq |-> Top.seq])
                  /\ UNCHANGED <<outcome, given>>
             ELSE /\ IF reply.ok /\ StillRunning(reply.value)
                     THEN /\ stack' = SetTop([Top EXCEPT !.pc = "pump"])
                          /\ UNCHANGED <<sent, fresh, outcome, given>>
                     ELSE RaiseInternalError
                  /\ reply' = None
       \/ /\ Top.pc = "lo"
          /\ IF reply.ok
             THEN /\ stack' = SetTop([Top EXCEPT !.pc = "hi", !.lo = reply.value])
                  /\ Send([op |-> "hi", seq |-> Top.seq])
                  /\ UNCHANGED <<outcome, given>>
             ELSE RaiseInternalError /\ reply' = None
       \/ /\ Top.pc = "hi"
          /\ IF reply.ok
             THEN /\ outcome' = [outcome EXCEPT ![Top.call] = "returned"]
                  /\ given' = [given EXCEPT ![Top.call] =
                                   [ok |-> Top.ok, lo |-> Top.lo, hi |-> reply.value]]
                  /\ stack' = Pop
                  /\ UNCHANGED <<sent, fresh>>
             ELSE RaiseInternalError
          /\ reply' = None
    /\ UNCHANGED <<client, n, posted, serverVars, runs, answer, excused, faults>>

\* StopNonElevatedSetupProcesses posts WM_SpawnServer_ExitNow ...
StopSpawnServerProcess ==
    /\ client = "running"
    /\ stack = <<>>
    /\ srv # "ended"
    /\ client' = "stopping"
    /\ posted' = TRUE
    /\ fresh' = TRUE
    /\ UNCHANGED <<stack, n, sent, reply, serverVars, callVars, excused, faults>>

\* ... and waits, for some seconds at most; or Setup ends without
ClientEnds ==
    /\ client # "ended"
    /\ stack = <<>>
    /\ client' = "ended"
    /\ UNCHANGED <<stack, n, queueVars, serverVars, callVars, excused, faults>>

\* The client is killed; a message it has sent is gone if not yet received
ClientDies ==
    /\ client # "ended"
    /\ Fault
    /\ client' = "ended"
    /\ sent' = None
    /\ UNCHANGED <<stack, n, reply, posted, fresh, serverVars, callVars, excused>>

-------------------------------------------------------------------------------
(* The server *)

Reply(ok, value) ==
    /\ sent' = None
    /\ reply' = [ok |-> ok, value |-> value]

\* "Recursive calls aren't supported"
AlreadyInCall == callStatus = "running"

\* The calls on the client's stack that wait for a call within them
Outer(c) == {stack[i].call : i \in 1..Len(stack)} \ {c}

\* Mutant: a call that is refused takes a sequence number
RefuseCounted ==
    /\ Reply(FALSE, "already in call")
    /\ excused' = excused \cup {sent.call}
    /\ seqNo' = (seqNo + 1) % SeqMod
    /\ UNCHANGED <<srv, callStatus, result, serving>>

Refuse ==
    /\ Reply(FALSE, "already in call")
    /\ excused' = excused \cup {sent.call}
    /\ UNCHANGED <<srv, seqNo, callStatus, result, serving>>

\* ReplyMessage unblocks the client
Accept ==
    /\ seqNo' = (seqNo + 1) % SeqMod
    /\ result' = None
    /\ callStatus' = "running"
    /\ Reply(TRUE, seqNo')
    /\ srv' = "exec"
    /\ serving' = sent.call
    /\ excused' = excused \cup Outer(sent.call)

\* HandleExec, up to ReplyMessage
HandleExec ==
    /\ Pumping
    /\ sent # None
    /\ sent.op = "exec"
    /\ IF AlreadyInCall THEN Refuse ELSE Accept
    /\ UNCHANGED <<clientVars, posted, fresh, exitNow, job, callVars, faults>>

\* Mutant: the sequence number is not looked at
AnySequence(q) == TRUE

RightSequence(q) == q.seq = seqNo

\* WM_SpawnServer_Query
HandleQuery ==
    /\ Pumping
    /\ sent # None
    /\ sent.op # "exec"
    /\ IF RightSequence(sent)
       THEN Reply(TRUE, CASE sent.op = "status" -> callStatus
                          [] sent.op = "lo" -> IF result = None THEN None ELSE result.lo
                          [] sent.op = "hi" -> IF result = None THEN None ELSE result.hi)
       ELSE Reply(FALSE, "invalid sequence number")
    /\ UNCHANGED <<clientVars, posted, fresh, serverVars, callVars, excused, faults>>

\* WM_SpawnServer_ExitNow
HandleExitNow ==
    /\ Pumping
    /\ posted
    /\ posted' = FALSE
    /\ exitNow' = TRUE
    /\ UNCHANGED <<clientVars, sent, reply, fresh, srv, seqNo, callStatus, result, job,
                   serving, callVars, excused, faults>>

\* InstExec and InstShellExec up to the wait: the program is started or not,
\* and waited for or not.  What it will answer is chosen here.
Exec ==
    /\ srv = "exec"
    /\ runs' = [runs EXCEPT ![serving] = @ + 1]
    /\ \E a \in Answers :
           /\ answer' = [answer EXCEPT ![serving] = a]
           /\ \/ /\ result' = a
                 /\ callStatus' = IF a.ok THEN "true" ELSE "false"
                 /\ srv' = "pump"
                 /\ UNCHANGED job
              \/ /\ a.ok
                 /\ job' = "running"
                 /\ srv' = "jobpump"
                 /\ UNCHANGED <<result, callStatus>>
    /\ UNCHANGED <<clientVars, queueVars, seqNo, exitNow, serving, outcome, given,
                   excused, faults>>

\* An exception before the program is started
ExecRaises ==
    /\ srv = "exec"
    /\ Fault
    /\ callStatus' = "exception"
    /\ srv' = "pump"
    /\ excused' = excused \cup {serving}
    /\ UNCHANGED <<clientVars, queueVars, seqNo, result, exitNow, job, serving, callVars>>

JobEnds ==
    /\ job = "running"
    /\ job' = "ended"
    /\ UNCHANGED <<clientVars, queueVars, srv, seqNo, callStatus, result, exitNow,
                   serving, callVars, excused, faults>>

\* The queue is empty: Application.ProcessMessages returns in HandleProcessWait
JobPumped ==
    /\ srv = "jobpump"
    /\ QueueEmpty
    /\ srv' = "jobwait"
    /\ fresh' = FALSE
    /\ UNCHANGED <<clientVars, sent, reply, posted, seqNo, callStatus, result, exitNow,
                   job, serving, callVars, excused, faults>>

\* MsgWaitForMultipleObjects: the end of the program, else new messages.  Messages
\* that arrive with the former may no longer count as new afterwards.
JobWaited ==
    /\ srv = "jobwait"
    /\ \/ job # "ended" /\ fresh /\ srv' = "jobpump" /\ fresh' = FALSE
       \/ job = "ended" /\ srv' = "joblast" /\ fresh' \in {fresh, FALSE}
    /\ UNCHANGED <<clientVars, sent, reply, posted, seqNo, callStatus, result, exitNow,
                   job, serving, callVars, excused, faults>>

\* The rest of HandleProcessWait and HandleExec, back to the pump whose message
\* HandleExec was
ExecReturns ==
    /\ srv = "joblast"
    /\ QueueEmpty
    /\ result' = answer[serving]
    /\ callStatus' = "true"
    /\ job' = "none"
    /\ srv' = "pump"
    /\ UNCHANGED <<clientVars, queueVars, seqNo, exitNow, serving, callVars, excused,
                   faults>>

\* The loop of RespawnSelfElevated: ProcessMessagesProc returns ...
Pumped ==
    /\ srv = "pump"
    /\ QueueEmpty
    /\ srv' = "check"
    /\ fresh' = FALSE
    /\ UNCHANGED <<clientVars, sent, reply, posted, seqNo, callStatus, result, exitNow,
                   job, serving, callVars, excused, faults>>

\* Mutant: only the end of the child is waited for
IgnoreExitNow ==
    /\ srv = "check"
    /\ srv' = "wait"
    /\ UNCHANGED <<clientVars, queueVars, seqNo, callStatus, result, exitNow, job,
                   serving, callVars, excused, faults>>

\* ... FExitNowRequested ...
CheckExitNow ==
    /\ srv = "check"
    /\ srv' = IF exitNow THEN "ended" ELSE "wait"
    /\ UNCHANGED <<clientVars, queueVars, seqNo, callStatus, result, exitNow, job,
                   serving, callVars, excused, faults>>

\* ... MsgWaitForMultipleObjects
Waited ==
    /\ srv = "wait"
    /\ \/ client # "ended" /\ fresh /\ srv' = "pump" /\ fresh' = FALSE
       \/ client = "ended" /\ srv' = "lastpump" /\ fresh' \in {fresh, FALSE}
    /\ UNCHANGED <<clientVars, sent, reply, posted, seqNo, callStatus, result, exitNow,
                   job, serving, callVars, excused, faults>>

\* The child has ended and the remaining messages are processed
ServerEnds ==
    /\ srv = "lastpump"
    /\ QueueEmpty
    /\ srv' = "ended"
    /\ UNCHANGED <<clientVars, queueVars, seqNo, callStatus, result, exitNow, job,
                   serving, callVars, excused, faults>>

ServerDies ==
    /\ srv # "ended"
    /\ Fault
    /\ srv' = "ended"
    /\ excused' = excused \cup {stack[i].call : i \in 1..Len(stack)}
    /\ UNCHANGED <<clientVars, queueVars, seqNo, callStatus, result, exitNow, job,
                   serving, callVars>>

\* SendMessage to a window that has gone, or goes, returns 0
WindowGone ==
    /\ srv = "ended"
    /\ client = "running"
    /\ sent # None
    /\ Reply(FALSE, "no window")
    /\ excused' = excused \cup {Top.call}
    /\ UNCHANGED <<clientVars, posted, fresh, serverVars, callVars, faults>>

-------------------------------------------------------------------------------
ClientStep == GotReply \/ QueryStatus

ServerStep ==
    \/ HandleExec \/ HandleQuery \/ HandleExitNow
    \/ Exec \/ JobPumped \/ JobWaited \/ ExecReturns
    \/ Pumped \/ CheckExitNow \/ Waited \/ ServerEnds

Next ==
    \/ CallSpawnServer \/ StopSpawnServerProcess \/ ClientEnds \/ ClientDies
    \/ ClientStep
    \/ ServerStep \/ ExecRaises \/ ServerDies \/ WindowGone
    \/ JobEnds

Spec == Init /\ [][Next]_vars

\* The threads of both are scheduled, and the programs that are waited for end.
\* The client leaves ten milliseconds between two queries, so that the server
\* finds its queue empty in between: strong fairness of the steps that need it.
\* That Setup ever ends is not assumed.
FairSpec ==
    /\ Spec
    /\ WF_vars(ClientStep)
    /\ WF_vars(ServerStep)
    /\ SF_vars(Pumped \/ JobPumped \/ ExecReturns \/ ServerEnds)
    /\ WF_vars(JobEnds)
    /\ WF_vars(WindowGone)

-------------------------------------------------------------------------------
(* Properties *)

\* The calls are those of the abstract remote call: executed at most once, and
\* never given the result of another, although the server keeps one result only
\* and calls are made within calls.
Remote == INSTANCE RemoteCall WITH Results <- Answers
CallSpec == Remote!Spec

\* A call fails only if it was made while another was being executed, if another
\* was executed before it had asked for its result, or if the server failed.  A
\* call that is refused does no harm to the one in whose way it came.
FailsForACause == \A c \in Calls : outcome[c] = "failed" => c \in excused

\* A call ends, whether the server executes it, refuses it or is killed.
CallsReturn ==
    \A c \in Calls : outcome[c] = "made" ~> (outcome[c] # "made" \/ client = "ended")

\* A server that is told to exit does, without waiting for its child to end; and
\* one whose child has ended, too.
ServerStops == client # "running" ~> srv = "ended"
===============================================================================
