--------------------------- MODULE HelperPipeProofs ---------------------------
(***************************************************************************)
(* Proofs about HelperPipe, for any number of calls and faults and any     *)
(* modulus of the sequence numbers: responses meet their own requests,     *)
(* foreign code has a helper for itself, and the pipe implements           *)
(* RemoteCall.                                                             *)
(***************************************************************************)
EXTENDS HelperPipe, TLAPS

USE PipeAssumption DEF PipeAssumption

(* The inductive invariant.                                                *)

\* Where Setup is now or will be when Stop returns
At(where) == pc = where \/ (pc = "stopping" /\ after = where)

\* The helper has a request before it that it has not executed
Serving == (Alive /\ toHelper # None) \/ proc = "executing"

\* A request is under way, or was when Setup died
InExchange == pc \in {"send", "wait"} \/ Serving \/ proc = "answering"

\* A response to the request; to a command, that of its only execution
Answers(r) ==
    /\ r \in Responses
    /\ r.seq = request.seq
    /\ r.status = 1
    /\ request.cmd = "command" => runs[n] = 1 /\ r.error = answer[n]

\* The helper and Setup's end of its pipe
LinkInv ==
    /\ running /\ pc # "dead" => proc # "none"
    /\ running /\ ~needsRestarting /\ pc # "dead" => pipeOpen
    /\ pipeOpen => proc # "exiting"
    /\ pc \in {"send", "wait"} => running /\ pipeOpen /\ proc # "none"

\* One message at a time: the request, then its response
ExchangeInv ==
    /\ InExchange => n \in Calls /\ request \in Requests /\ request.call = n
                     /\ request.kind = kind
    /\ pc \notin {"wait", "dead"} => ~Serving /\ proc # "answering" /\ toSetup = None
    /\ Alive /\ toHelper # None => proc = "reading" /\ toSetup = None /\ toHelper = request
    /\ proc = "executing" => toHelper = None /\ toSetup = None /\ work = request
    /\ proc = "answering" => toHelper = None /\ toSetup = None /\ Answers(work)
    /\ pc = "wait" /\ toSetup # None => Answers(toSetup)

\* What has become of the calls
BooksInv ==
    /\ \A c \in Calls : c > n => outcome[c] = "unmade" /\ runs[c] = 0
    /\ Serving \/ pc \in {"send", "wait"}
         \/ At("call") \/ At("start") \/ At("return") \/ At("failed")
       => n \in Calls /\ outcome[n] = "made"
    /\ Serving \/ At("call") \/ At("start") \/ pc = "send"
         \/ (pc = "wait" /\ request.cmd = "ping")
       => runs[n] = 0
    /\ At("return") => response \in Responses /\ runs[n] = 1 /\ response.error = answer[n]

\* A helper for a type library is new, and is used for nothing else
ForeignInv ==
    /\ pc = "call" /\ kind = "typelib" => ~running
    /\ pc \in {"send", "wait"} /\ request.cmd = "ping" => kind = "grant"
    /\ (pc = "send" \/ Serving) /\ request.cmd = "command" /\ kind = "typelib" => ran = <<>>
    /\ \A i \in DOMAIN ran : ran[i] = "typelib" =>
          /\ Len(ran) = 1
          /\ ~(Serving /\ request.cmd = "command")
          /\ \/ ~running
             \/ pc \in {"stopping", "dead"}
             \/ pc = "wait" /\ kind = "typelib" /\ request.cmd = "command"

\* Why a call fails
FaultsInv ==
    /\ At("failed") => n \in excused
    /\ pc \in {"send", "wait"} /\ request.cmd = "command" /\ proc = "ended" => n \in excused
    /\ pc = "wait" /\ toSetup # None /\ proc = "ended" => n \in excused
    /\ FailsForOwnFault

PipeInv == TypeOK /\ LinkInv /\ ExchangeInv /\ BooksInv /\ ForeignInv /\ FaultsInv
-------------------------------------------------------------------------------
\* A sequence number stays one
LEMMA SeqRange == \A x \in Nat : (x + 1) % SeqMod \in 0..SeqMod-1
  OBVIOUS

\* The header of a request, and the parameters of the call it is for
LEMMA Prepared ==
    ASSUME TypeOK, n \in Calls, NEW cmd \in {"ping", "command"}, Prepare(cmd)
    PROVE  /\ pc' = "send"
           /\ request' \in Requests /\ request'.cmd = cmd /\ request'.call = n
           /\ request'.kind = kind
  BY SeqRange DEF TypeOK, Prepare, Requests

\* The invariant holds at first, and each action preserves it
LEMMA InitPipeInv == Init => PipeInv
<1> SUFFICES ASSUME Init PROVE PipeInv
  OBVIOUS
<1> USE DEF Init
<1>1. TypeOK
  <2>1. seq \in 0..SeqMod-1 /\ n \in 0..MaxCalls /\ faults \in 0..MaxFaults
    OBVIOUS
  <2>2. ran \in Seq(Kinds) /\ excused \subseteq Calls
    OBVIOUS
  <2>3. /\ outcome \in [Calls -> {"unmade", "made", "returned", "failed"}]
        /\ runs \in [Calls -> Nat]
        /\ answer \in [Calls -> Errors \cup {None}]
        /\ given \in [Calls -> Errors \cup {None}]
    OBVIOUS
  <2>. QED
    BY <2>1, <2>2, <2>3 DEF TypeOK, Kinds
<1>2. LinkInv /\ ForeignInv
  BY DEF LinkInv, ForeignInv, Serving, Alive
<1>3. ExchangeInv
  BY DEF ExchangeInv, InExchange, Serving, Alive
<1>4. BooksInv
  BY DEF BooksInv, Serving, Alive, At
<1>5. FaultsInv
  BY DEF FaultsInv, FailsForOwnFault, At, Calls
<1>. QED
  BY <1>1, <1>2, <1>3, <1>4, <1>5 DEF PipeInv

\* A call begins
LEMMA CallHelperInv == ASSUME PipeInv, NEW k \in Kinds, CallHelper(k) PROVE PipeInv'
<1> USE DEF PipeInv, CallHelper, StopThen, setupVars, pipeVars, procVars, callVars
<1>0. n + 1 \in Calls
  BY DEF TypeOK, Calls
<1>1. TypeOK'
  <2>1. seq' \in 0..SeqMod-1 /\ n' \in 0..MaxCalls /\ kind' \in Kinds /\ faults' \in 0..MaxFaults
    BY DEF TypeOK
  <2>2. /\ request' \in Requests \cup {None} /\ response' \in Responses \cup {None}
        /\ toHelper' \in Requests \cup {None} /\ toSetup' \in Responses \cup {None}
        /\ work' \in Requests \cup Responses \cup {None}
    BY DEF TypeOK
  <2>3. /\ ran' \in Seq(Kinds) /\ excused' \subseteq Calls
        /\ outcome' \in [Calls -> {"unmade", "made", "returned", "failed"}]
        /\ runs' \in [Calls -> Nat]
        /\ answer' \in [Calls -> Errors \cup {None}]
        /\ given' \in [Calls -> Errors \cup {None}]
    BY <1>0 DEF TypeOK
  <2>. QED
    BY <2>1, <2>2, <2>3 DEF TypeOK
<1>2. LinkInv'
  BY DEF LinkInv
<1>3. ExchangeInv'
  BY DEF ExchangeInv, InExchange, Serving, Alive
<1>4. BooksInv'
  BY <1>0 DEF TypeOK, BooksInv, At
<1>5. ForeignInv'
  BY DEF ExchangeInv, ForeignInv, Serving, Alive
<1>6. FaultsInv'
  BY DEF FaultsInv, FailsForOwnFault, At
<1>. QED
  BY <1>1, <1>2, <1>3, <1>4, <1>5, <1>6

\* Call restarts the helper or pings it
LEMMA CallInv == ASSUME PipeInv, Call PROVE PipeInv'
<1> USE DEF PipeInv, Call, StopThen, VerifyHelper, Prepare, setupVars, pipeVars,
         procVars, callVars
<1>0. n \in Calls
  BY DEF BooksInv, At
<1>1. TypeOK'
  <2>1. seq' \in 0..SeqMod-1 /\ n' \in 0..MaxCalls /\ kind' \in Kinds /\ faults' \in 0..MaxFaults
    BY DEF TypeOK
  <2>2. /\ request' \in Requests \cup {None} /\ response' \in Responses \cup {None}
        /\ toHelper' \in Requests \cup {None} /\ toSetup' \in Responses \cup {None}
        /\ work' \in Requests \cup Responses \cup {None}
    BY <1>0, Prepared DEF TypeOK
  <2>3. /\ ran' \in Seq(Kinds) /\ excused' \subseteq Calls
        /\ outcome' \in [Calls -> {"unmade", "made", "returned", "failed"}]
        /\ runs' \in [Calls -> Nat]
        /\ answer' \in [Calls -> Errors \cup {None}]
        /\ given' \in [Calls -> Errors \cup {None}]
    BY DEF TypeOK
  <2>. QED
    BY <2>1, <2>2, <2>3 DEF TypeOK
<1>2. LinkInv'
  BY DEF LinkInv
<1>3. ExchangeInv'
  BY <1>0 DEF TypeOK, ExchangeInv, InExchange, Serving, Alive, Requests
<1>4. BooksInv'
  BY DEF BooksInv, At
<1>5. ForeignInv'
  BY DEF TypeOK, ForeignInv, Serving, Alive, Kinds
<1>6. FaultsInv'
  BY DEF FaultsInv, FailsForOwnFault, At
<1>. QED
  BY <1>1, <1>2, <1>3, <1>4, <1>5, <1>6

\* A new helper, with an empty pipe
LEMMA StartInv == ASSUME PipeInv, Start PROVE PipeInv'
<1> USE DEF PipeInv, Start, setupVars, pipeVars, procVars, callVars
<1>0. n \in Calls
  BY DEF BooksInv, At
<1>1. TypeOK'
  <2>1. seq' \in 0..SeqMod-1 /\ n' \in 0..MaxCalls /\ kind' \in Kinds /\ faults' \in 0..MaxFaults
    BY DEF TypeOK
  <2>2. /\ request' \in Requests \cup {None} /\ response' \in Responses \cup {None}
        /\ toHelper' \in Requests \cup {None} /\ toSetup' \in Responses \cup {None}
        /\ work' \in Requests \cup Responses \cup {None}
    BY <1>0 DEF TypeOK, Requests
  <2>3. /\ ran' \in Seq(Kinds) /\ excused' \subseteq Calls
        /\ outcome' \in [Calls -> {"unmade", "made", "returned", "failed"}]
        /\ runs' \in [Calls -> Nat]
        /\ answer' \in [Calls -> Errors \cup {None}]
        /\ given' \in [Calls -> Errors \cup {None}]
    BY DEF TypeOK
  <2>. QED
    BY <2>1, <2>2, <2>3 DEF TypeOK
<1>2. LinkInv'
  BY DEF LinkInv
<1>3. ExchangeInv'
  BY <1>0 DEF TypeOK, ExchangeInv, Serving, Requests
<1>4. BooksInv'
  BY DEF BooksInv, At
<1>5. ForeignInv'
  BY DEF ForeignInv
<1>6. FaultsInv'
  BY DEF FaultsInv, FailsForOwnFault, At
<1>. QED
  BY <1>1, <1>2, <1>3, <1>4, <1>5, <1>6

\* No helper can be started
LEMMA StartFailsInv == ASSUME PipeInv, StartFails PROVE PipeInv'
<1> USE DEF PipeInv, StartFails, Fault, setupVars, pipeVars, procVars, callVars
<1>0. n \in Calls
  BY DEF BooksInv, At
<1>1. TypeOK'
  BY <1>0 DEF TypeOK
<1>2. LinkInv'
  BY DEF LinkInv
<1>3. ExchangeInv'
  BY DEF ExchangeInv, InExchange, Serving, Alive
<1>4. BooksInv'
  BY DEF BooksInv, At
<1>5. ForeignInv'
  BY DEF ForeignInv, Serving, Alive
<1>6. FaultsInv'
  BY DEF FaultsInv, FailsForOwnFault
<1>. QED
  BY <1>1, <1>2, <1>3, <1>4, <1>5, <1>6

\* The request enters the empty pipe
LEMMA TransactInv == ASSUME PipeInv, Transact PROVE PipeInv'
<1> USE DEF PipeInv, Transact, HelperHungUp, setupVars, pipeVars, procVars, callVars
<1>1. TypeOK'
  BY DEF TypeOK
<1>2. LinkInv'
  BY DEF LinkInv
<1>3. ExchangeInv'
  BY DEF TypeOK, ExchangeInv, InExchange, Serving
<1>4. BooksInv'
  BY DEF BooksInv, At
<1>5. ForeignInv'
  BY DEF LinkInv, ForeignInv
<1>6. FaultsInv'
  BY DEF FaultsInv, FailsForOwnFault, At
<1>. QED
  BY <1>1, <1>2, <1>3, <1>4, <1>5, <1>6

\* Setup gives up before it has sent anything
LEMMA CreateEventFailsInv == ASSUME PipeInv, CreateEventFails PROVE PipeInv'
<1> USE DEF PipeInv, CreateEventFails, Fault, Raise, StopThen, HandledAt, setupVars,
         pipeVars, procVars, callVars
<1>0. n \in Calls
  BY DEF BooksInv
<1>1. TypeOK'
  <2>1. seq' \in 0..SeqMod-1 /\ n' \in 0..MaxCalls /\ kind' \in Kinds /\ faults' \in 0..MaxFaults
    BY DEF TypeOK
  <2>2. /\ request' \in Requests \cup {None} /\ response' \in Responses \cup {None}
        /\ toHelper' \in Requests \cup {None} /\ toSetup' \in Responses \cup {None}
        /\ work' \in Requests \cup Responses \cup {None}
    BY DEF TypeOK
  <2>3. /\ ran' \in Seq(Kinds) /\ excused' \subseteq Calls
        /\ outcome' \in [Calls -> {"unmade", "made", "returned", "failed"}]
        /\ runs' \in [Calls -> Nat]
        /\ answer' \in [Calls -> Errors \cup {None}]
        /\ given' \in [Calls -> Errors \cup {None}]
    BY <1>0 DEF TypeOK
  <2>. QED
    BY <2>1, <2>2, <2>3 DEF TypeOK
<1>2. LinkInv'
  BY DEF LinkInv
<1>3. ExchangeInv'
  BY DEF ExchangeInv, InExchange, Serving, Alive
<1>4. BooksInv'
  BY DEF BooksInv, At
<1>5. ForeignInv'
  BY DEF ForeignInv
<1>6. FaultsInv'
  BY DEF ExchangeInv, FaultsInv, FailsForOwnFault, InExchange, At, Requests
<1>. QED
  BY <1>1, <1>2, <1>3, <1>4, <1>5, <1>6

\* Only a dead helper, or one that has not answered, breaks the pipe
LEMMA PipeBrokenInv == ASSUME PipeInv, PipeBroken PROVE PipeInv'
<1> USE DEF PipeInv, PipeBroken, OperationFails, HelperHungUp, Raise, StopThen,
         HandledAt, setupVars, pipeVars, procVars, callVars
<1>1. TypeOK'
  BY SeqRange, Prepared DEF TypeOK
<1>2. LinkInv'
  BY DEF LinkInv
<1>3. ExchangeInv'
  BY DEF ExchangeInv, InExchange, Serving, Alive
<1>4. BooksInv'
  BY DEF BooksInv, Serving, Alive, At
<1>5. ForeignInv'
  BY DEF ForeignInv, Serving, Alive
<1>6. FaultsInv'
  BY DEF LinkInv, ExchangeInv, FaultsInv, FailsForOwnFault, InExchange, At, Requests
<1>. QED
  BY <1>1, <1>2, <1>3, <1>4, <1>5, <1>6

\* The response is the one to the request, so that its check passes
LEMMA GotResponseInv == ASSUME PipeInv, GotResponse PROVE PipeInv'
<1>0. n \in Calls /\ request \in Requests /\ Answers(toSetup) /\ proc # "answering"
      /\ pc = "wait" /\ ~Serving /\ running /\ pipeOpen /\ proc # "none"
      /\ toSetup # None
  BY DEF PipeInv, GotResponse, LinkInv, ExchangeInv, InExchange, Serving
<1>1. /\ response' = toSetup /\ response' \in Responses
      /\ toSetup' = None
      /\ UNCHANGED <<running, n, kind, toHelper, procVars, callVars, excused, faults>>
  BY <1>0 DEF GotResponse, Answers
<1>2. \/ /\ request.cmd = "ping"
         /\ Prepare("command")
         /\ UNCHANGED <<needsRestarting, pipeOpen, after>>
      \/ /\ request.cmd = "command"
         /\ CommandDone
         /\ UNCHANGED <<seq, request>>
  <2>1. toSetup.seq = request.seq /\ toSetup.status # 0
    BY <1>0 DEF Answers
  <2>. QED
    BY <2>1 DEF GotResponse
<1>3. ~Serving' /\ proc' # "answering"
  BY <1>0, <1>1 DEF Serving, Alive, procVars
<1> USE DEF PipeInv, procVars, callVars
<1>4. CASE request.cmd = "ping" /\ Prepare("command")
           /\ UNCHANGED <<needsRestarting, pipeOpen, after>>
  <2>1. /\ pc' = "send"
        /\ request' \in Requests /\ request'.cmd = "command" /\ request'.call = n
        /\ request'.kind = kind
    BY <1>0, <1>4, Prepared
  <2>2. seq' \in 0..SeqMod-1
    BY <1>4 DEF Prepare, TypeOK
  <2>3. TypeOK'
    BY <1>1, <1>4, <2>1, <2>2 DEF TypeOK
  <2>4. LinkInv'
    BY <1>0, <1>1, <1>4 DEF LinkInv
  <2>5. ExchangeInv'
    BY <1>0, <1>1, <1>3, <2>1 DEF ExchangeInv, Serving
  <2>6. BooksInv'
    BY <1>0, <1>1, <1>4, <2>1 DEF BooksInv, At
  <2>7. ForeignInv'
    BY <1>0, <1>1, <1>4 DEF ForeignInv
  <2>8. FaultsInv'
    BY <1>0, <1>1, <2>1 DEF FaultsInv, FailsForOwnFault, At
  <2>. QED
    BY <2>3, <2>4, <2>5, <2>6, <2>7, <2>8
<1>5. CASE request.cmd = "command" /\ CommandDone /\ UNCHANGED <<seq, request>>
  <2>1. \/ pc' = "return" /\ kind # "typelib" /\ UNCHANGED <<needsRestarting, pipeOpen, after>>
        \/ pc' = "stopping" /\ after' = "return" /\ needsRestarting' = TRUE /\ pipeOpen' = FALSE
    BY <1>0, <1>5 DEF CommandDone, StopThen
  <2>2. response'.error = answer[n] /\ runs[n] = 1
    BY <1>0, <1>1, <1>5 DEF Answers
  <2>3. TypeOK'
    <3>1. /\ pc' \in {"return", "stopping"}
          /\ after' \in {"idle", "call", "start", "return", "failed"}
      BY <2>1 DEF TypeOK
    <3>2. needsRestarting' \in BOOLEAN /\ pipeOpen' \in BOOLEAN
      BY <2>1 DEF TypeOK
    <3>. QED
      BY <1>1, <1>5, <3>1, <3>2 DEF TypeOK
  <2>4. LinkInv'
    BY <1>0, <1>1, <2>1 DEF LinkInv
  <2>5. ExchangeInv'
    BY <1>1, <1>3, <2>1 DEF ExchangeInv, InExchange, Serving
  <2>6. BooksInv'
    BY <1>0, <1>1, <1>3, <1>5, <2>1, <2>2 DEF BooksInv, At, Serving
  <2>7. ForeignInv'
    BY <1>0, <1>1, <1>3, <1>5, <2>1 DEF ForeignInv
  <2>8. FaultsInv'
    BY <1>0, <1>1, <1>3, <1>5, <2>1 DEF FaultsInv, FailsForOwnFault, At
  <2>. QED
    BY <2>3, <2>4, <2>5, <2>6, <2>7, <2>8
<1>. QED
  BY <1>2, <1>4, <1>5

\* Stop has waited for the helper
LEMMA StoppedInv == ASSUME PipeInv, Stopped PROVE PipeInv'
<1> USE DEF PipeInv, Stopped, setupVars, pipeVars, procVars, callVars
<1>1. TypeOK'
  <2>1. seq' \in 0..SeqMod-1 /\ n' \in 0..MaxCalls /\ kind' \in Kinds /\ faults' \in 0..MaxFaults
    BY DEF TypeOK
  <2>2. /\ request' \in Requests \cup {None} /\ response' \in Responses \cup {None}
        /\ toHelper' \in Requests \cup {None} /\ toSetup' \in Responses \cup {None}
        /\ work' \in Requests \cup Responses \cup {None}
    BY DEF TypeOK
  <2>3. /\ ran' \in Seq(Kinds) /\ excused' \subseteq Calls
        /\ outcome' \in [Calls -> {"unmade", "made", "returned", "failed"}]
        /\ runs' \in [Calls -> Nat]
        /\ answer' \in [Calls -> Errors \cup {None}]
        /\ given' \in [Calls -> Errors \cup {None}]
    BY DEF TypeOK
  <2>. QED
    BY <2>1, <2>2, <2>3 DEF TypeOK
<1>2. LinkInv'
  BY DEF TypeOK, LinkInv
<1>3. ExchangeInv'
  BY DEF TypeOK, ExchangeInv, InExchange, Serving, Alive
<1>4. BooksInv'
  BY DEF TypeOK, BooksInv, Serving, Alive, At
<1>5. ForeignInv'
  BY DEF TypeOK, ForeignInv, Serving, Alive
<1>6. FaultsInv'
  BY DEF TypeOK, FaultsInv, FailsForOwnFault, At
<1>. QED
  BY <1>1, <1>2, <1>3, <1>4, <1>5, <1>6

\* A helper that is stopped is idle
LEMMA TerminateInv == ASSUME PipeInv, Terminate PROVE PipeInv'
<1> USE DEF PipeInv, Terminate, setupVars, pipeVars, procVars, callVars
<1>1. TypeOK'
  BY DEF TypeOK
<1>2. LinkInv'
  BY DEF LinkInv
<1>3. ExchangeInv'
  BY DEF ExchangeInv, InExchange, Serving
<1>4. BooksInv'
  BY DEF BooksInv, Serving, At
<1>5. ForeignInv'
  BY DEF ForeignInv, Serving
<1>6. FaultsInv'
  BY DEF FaultsInv, FailsForOwnFault, At
<1>. QED
  BY <1>1, <1>2, <1>3, <1>4, <1>5, <1>6

\* A call ends
LEMMA ReturnInv == ASSUME PipeInv, Return PROVE PipeInv'
<1> USE DEF PipeInv, Return, setupVars, pipeVars, procVars, callVars
<1>0. n \in Calls /\ response \in Responses
  BY DEF BooksInv, At
<1>1. TypeOK'
  BY <1>0 DEF TypeOK, Responses
<1>2. LinkInv'
  BY DEF LinkInv
<1>3. ExchangeInv'
  BY DEF ExchangeInv, InExchange, Serving, Alive
<1>4. BooksInv'
  BY DEF BooksInv, Serving, Alive, At
<1>5. ForeignInv'
  BY DEF ForeignInv, Serving, Alive
<1>6. FaultsInv'
  BY DEF FaultsInv, FailsForOwnFault, At
<1>. QED
  BY <1>1, <1>2, <1>3, <1>4, <1>5, <1>6

\* A call fails
LEMMA CallRaisesInv == ASSUME PipeInv, CallRaises PROVE PipeInv'
<1> USE DEF PipeInv, CallRaises, setupVars, pipeVars, procVars, callVars
<1>0. n \in Calls
  BY DEF BooksInv, At
<1>1. TypeOK'
  BY <1>0 DEF TypeOK
<1>2. LinkInv'
  BY DEF LinkInv
<1>3. ExchangeInv'
  BY DEF ExchangeInv, InExchange, Serving, Alive
<1>4. BooksInv'
  BY DEF ExchangeInv, BooksInv, Serving, Alive, At
<1>5. ForeignInv'
  BY DEF ForeignInv, Serving, Alive
<1>6. FaultsInv'
  BY DEF FaultsInv, FailsForOwnFault, At
<1>. QED
  BY <1>1, <1>2, <1>3, <1>4, <1>5, <1>6

\* The helper is stopped between calls
LEMMA StopHelperInv == ASSUME PipeInv, StopHelper PROVE PipeInv'
<1> USE DEF PipeInv, StopHelper, StopThen, setupVars, pipeVars, procVars, callVars
<1>1. TypeOK'
  BY SeqRange, Prepared DEF TypeOK
<1>2. LinkInv'
  BY DEF LinkInv
<1>3. ExchangeInv'
  BY DEF ExchangeInv, InExchange, Serving, Alive
<1>4. BooksInv'
  BY DEF BooksInv, Serving, Alive, At
<1>5. ForeignInv'
  BY DEF ForeignInv, Serving, Alive
<1>6. FaultsInv'
  BY DEF FaultsInv, FailsForOwnFault, At
<1>. QED
  BY <1>1, <1>2, <1>3, <1>4, <1>5, <1>6

\* Setup dies with what is under way in the pipe
LEMMA SetupDiesInv == ASSUME PipeInv, SetupDies PROVE PipeInv'
<1> USE DEF PipeInv, SetupDies, Fault, setupVars, pipeVars, procVars, callVars
<1>1. TypeOK'
  <2>1. seq' \in 0..SeqMod-1 /\ n' \in 0..MaxCalls /\ kind' \in Kinds /\ faults' \in 0..MaxFaults
    BY DEF TypeOK
  <2>2. /\ request' \in Requests \cup {None} /\ response' \in Responses \cup {None}
        /\ toHelper' \in Requests \cup {None} /\ toSetup' \in Responses \cup {None}
        /\ work' \in Requests \cup Responses \cup {None}
    BY DEF TypeOK
  <2>3. /\ ran' \in Seq(Kinds) /\ excused' \subseteq Calls
        /\ outcome' \in [Calls -> {"unmade", "made", "returned", "failed"}]
        /\ runs' \in [Calls -> Nat]
        /\ answer' \in [Calls -> Errors \cup {None}]
        /\ given' \in [Calls -> Errors \cup {None}]
    BY DEF TypeOK
  <2>. QED
    BY <2>1, <2>2, <2>3 DEF TypeOK
<1>2. LinkInv'
  BY DEF LinkInv
<1>3. ExchangeInv'
  BY DEF ExchangeInv, InExchange, Serving, Answers, Alive
<1>4. BooksInv'
  BY DEF BooksInv, Serving, Alive, At
<1>5. ForeignInv'
  BY DEF ForeignInv, Serving, Alive
<1>6. FaultsInv'
  BY DEF FaultsInv, FailsForOwnFault, At
<1>. QED
  BY <1>1, <1>2, <1>3, <1>4, <1>5, <1>6

\* The request passes to the helper
LEMMA ReadRequestInv == ASSUME PipeInv, ReadRequest PROVE PipeInv'
<1> USE DEF PipeInv, ReadRequest, setupVars, pipeVars, procVars, callVars
<1>1. TypeOK'
  BY DEF TypeOK
<1>2. LinkInv'
  BY DEF LinkInv
<1>3. ExchangeInv'
  BY DEF ExchangeInv, InExchange, Serving, Alive
<1>4. BooksInv'
  BY DEF BooksInv, Serving, Alive, At
<1>5. ForeignInv'
  BY DEF ForeignInv, Serving, Alive
<1>6. FaultsInv'
  BY DEF FaultsInv, FailsForOwnFault, At
<1>. QED
  BY <1>1, <1>2, <1>3, <1>4, <1>5, <1>6

\* The helper finds its pipe closed
LEMMA ReadFailsInv == ASSUME PipeInv, ReadFails PROVE PipeInv'
<1> USE DEF PipeInv, ReadFails, setupVars, pipeVars, procVars, callVars
<1>1. TypeOK'
  BY DEF TypeOK
<1>2. LinkInv'
  BY DEF LinkInv
<1>3. ExchangeInv'
  BY DEF ExchangeInv, InExchange, Serving, Answers
<1>4. BooksInv'
  BY DEF BooksInv, Serving, At
<1>5. ForeignInv'
  BY DEF ForeignInv, Serving
<1>6. FaultsInv'
  BY DEF FaultsInv, FailsForOwnFault, At
<1>. QED
  BY <1>1, <1>2, <1>3, <1>4, <1>5, <1>6

\* The only execution of a command
LEMMA ProcessRequestInv == ASSUME PipeInv, ProcessRequest PROVE PipeInv'
<1>0. /\ work = request /\ work \in Requests /\ work.call = n /\ n \in Calls
      /\ work.kind = kind /\ kind \in Kinds
  BY DEF PipeInv, ProcessRequest, TypeOK, ExchangeInv, InExchange, Serving
<1>1. /\ proc = "executing" /\ proc' = "answering"
      /\ UNCHANGED <<setupVars, pipeVars, outcome, given, excused, faults>>
  BY DEF ProcessRequest
<1>2. /\ work' \in Responses /\ work'.seq = request.seq /\ work'.status = 1
  <2>1. work.seq \in 0..SeqMod-1
    BY <1>0 DEF Requests
  <2>2. CASE work' = [seq |-> work.seq, status |-> 1, error |-> Success]
    BY <1>0, <2>1, <2>2 DEF Responses
  <2>3. CASE \E e \in Errors : work' = [seq |-> work.seq, status |-> 1, error |-> e]
    BY <1>0, <2>1, <2>3 DEF Responses
  <2>. QED
    BY <2>3 DEF ProcessRequest
<1>3. request.cmd = "ping" => UNCHANGED <<ran, runs, answer>>
  BY <1>0 DEF ProcessRequest
<1>4. request.cmd = "command" =>
          /\ ran' = Append(ran, kind)
          /\ runs' = [runs EXCEPT ![n] = @ + 1]
          /\ work'.error \in Errors
          /\ answer' = [answer EXCEPT ![n] = work'.error]
  BY <1>0 DEF ProcessRequest
<1>5. request.cmd \in {"ping", "command"}
  BY <1>0 DEF Requests
<1> USE DEF PipeInv, setupVars, pipeVars
<1>6. TypeOK'
  <2>1. ran' \in Seq(Kinds)
    <3>1. ran \in Seq(Kinds)
      BY DEF TypeOK
    <3>2. CASE request.cmd = "ping"
      BY <1>3, <3>1, <3>2
    <3>3. CASE request.cmd = "command"
      BY <1>0, <1>4, <3>1, <3>3
    <3>. QED
      BY <1>5, <3>2, <3>3
  <2>2. runs' \in [Calls -> Nat] /\ answer' \in [Calls -> Errors \cup {None}]
    BY <1>0, <1>3, <1>4, <1>5 DEF TypeOK
  <2>. QED
    BY <1>1, <1>2, <2>1, <2>2 DEF TypeOK
<1>7. LinkInv'
  BY <1>1 DEF LinkInv
<1>8. runs[n] = 0
  BY <1>1 DEF BooksInv, Serving
<1>9. Answers(work)'
  BY <1>0, <1>1, <1>2, <1>4, <1>8 DEF TypeOK, Answers
<1>10. ExchangeInv'
  <2>1. pc \in {"wait", "dead"} /\ toHelper = None /\ toSetup = None
    BY <1>1 DEF ExchangeInv, Serving
  <2>. QED
    BY <1>0, <1>1, <1>9, <2>1 DEF ExchangeInv
<1>11. BooksInv'
  <2>1. \A c \in Calls : c > n => runs'[c] = runs[c]
    BY <1>3, <1>4, <1>5 DEF TypeOK
  <2>2. pc \in {"wait", "dead"} /\ toHelper = None
    BY <1>1 DEF ExchangeInv, Serving
  <2>3. ~Serving'
    BY <1>1, <2>2 DEF Serving
  <2>4. pc = "wait" /\ request.cmd = "ping" => runs'[n] = 0
    BY <1>3, <1>8
  <2>. QED
    BY <1>1, <2>1, <2>2, <2>3, <2>4 DEF BooksInv, At
<1>12. ForeignInv'
  <2>1. pc \in {"wait", "dead"} /\ toHelper = None
    BY <1>1 DEF ExchangeInv, Serving
  <2>2. ~Serving'
    BY <1>1, <2>1 DEF Serving
  <2>3. CASE request.cmd = "ping"
    BY <1>1, <1>3, <2>3 DEF ForeignInv
  <2>4. CASE request.cmd = "command" /\ kind = "typelib"
    <3>1. ran = <<>>
      BY <1>1, <2>4 DEF ForeignInv, Serving
    <3>2. Len(ran') = 1
      BY <1>4, <2>4, <3>1
    <3>. QED
      BY <1>1, <2>1, <2>2, <2>4, <3>2 DEF ForeignInv
  <2>5. CASE request.cmd = "command" /\ kind # "typelib"
    <3>1. \A i \in DOMAIN ran : ran[i] # "typelib"
      BY <1>1, <2>5 DEF ForeignInv, Serving
    <3>2. \A i \in DOMAIN ran' : ran'[i] # "typelib"
      <4>1. ran \in Seq(Kinds)
        BY DEF TypeOK
      <4>. QED
        BY <1>4, <2>5, <3>1
    <3>. QED
      BY <1>1, <2>5, <3>2 DEF ForeignInv
  <2>. QED
    BY <1>5, <2>3, <2>4, <2>5
<1>13. FaultsInv'
  BY <1>1 DEF FaultsInv, FailsForOwnFault, At
<1>. QED
  BY <1>6, <1>7, <1>10, <1>11, <1>12, <1>13

\* The response enters the empty pipe
LEMMA WriteResponseInv == ASSUME PipeInv, WriteResponse PROVE PipeInv'
<1> USE DEF PipeInv, WriteResponse, setupVars, pipeVars, procVars, callVars
<1>0. work \in Responses
  BY DEF ExchangeInv, Answers
<1>1. TypeOK'
  BY <1>0 DEF TypeOK
<1>2. LinkInv'
  BY DEF LinkInv
<1>3. ExchangeInv'
  BY DEF ExchangeInv, InExchange, Answers
<1>4. BooksInv'
  BY DEF BooksInv, Serving, Alive, At
<1>5. ForeignInv'
  BY DEF ForeignInv, Serving, Alive
<1>6. FaultsInv'
  BY DEF FaultsInv, FailsForOwnFault, At
<1>. QED
  BY <1>1, <1>2, <1>3, <1>4, <1>5, <1>6

\* The helper ends by itself
LEMMA ExitProcessInv == ASSUME PipeInv, ExitProcess PROVE PipeInv'
<1> USE DEF PipeInv, ExitProcess, setupVars, pipeVars, procVars, callVars
<1>1. TypeOK'
  BY DEF TypeOK
<1>2. LinkInv'
  BY DEF LinkInv
<1>3. ExchangeInv'
  BY DEF ExchangeInv, InExchange, Serving, Answers, Alive
<1>4. BooksInv'
  BY DEF BooksInv, Serving, Alive, At
<1>5. ForeignInv'
  BY DEF ForeignInv, Serving, Alive
<1>6. FaultsInv'
  BY DEF LinkInv, FaultsInv, FailsForOwnFault, At
<1>. QED
  BY <1>1, <1>2, <1>3, <1>4, <1>5, <1>6

\* The helper dies, with a request or a response or without
LEMMA HelperDiesInv == ASSUME PipeInv, HelperDies PROVE PipeInv'
<1> USE DEF PipeInv, HelperDies, Fault, PingDone, setupVars, pipeVars, procVars,
         callVars
<1>0. PingDone => n \in Calls
  BY DEF BooksInv
<1>1. TypeOK'
  BY <1>0 DEF TypeOK
<1>2. LinkInv'
  BY DEF LinkInv
<1>3. ExchangeInv'
  BY DEF ExchangeInv, InExchange, Serving, Answers, Alive
<1>4. BooksInv'
  BY DEF BooksInv, Serving, At
<1>5. ForeignInv'
  BY DEF ForeignInv, Serving
<1>6. FaultsInv'
  BY DEF FaultsInv, FailsForOwnFault, At
<1>. QED
  BY <1>1, <1>2, <1>3, <1>4, <1>5, <1>6

\* Nothing happens
LEMMA StutterInv == ASSUME PipeInv, UNCHANGED vars PROVE PipeInv'
<1> USE DEF PipeInv, vars, setupVars, pipeVars, procVars, callVars
<1>1. TypeOK'
  BY DEF TypeOK
<1>2. LinkInv' /\ ForeignInv' /\ FaultsInv'
  BY DEF LinkInv, ForeignInv, FaultsInv, FailsForOwnFault, At, Serving, Alive
<1>3. ExchangeInv' /\ BooksInv'
  BY DEF ExchangeInv, BooksInv, InExchange, Answers, At, Serving, Alive
<1>. QED
  BY <1>1, <1>2, <1>3

\* The invariant is inductive
LEMMA NextPipeInv == PipeInv /\ [Next]_vars => PipeInv'
<1> SUFFICES ASSUME PipeInv, [Next]_vars PROVE PipeInv'
  OBVIOUS
<1>1. ASSUME NEW k \in Kinds, CallHelper(k) PROVE PipeInv'
  BY <1>1, CallHelperInv
<1>2. CASE Call
  BY <1>2, CallInv
<1>3. CASE Start
  BY <1>3, StartInv
<1>4. CASE StartFails
  BY <1>4, StartFailsInv
<1>5. CASE Transact
  BY <1>5, TransactInv
<1>6. CASE CreateEventFails
  BY <1>6, CreateEventFailsInv
<1>7. CASE PipeBroken
  BY <1>7, PipeBrokenInv
<1>8. CASE GotResponse
  BY <1>8, GotResponseInv
<1>9. CASE Stopped
  BY <1>9, StoppedInv
<1>10. CASE Terminate
  BY <1>10, TerminateInv
<1>11. CASE Return
  BY <1>11, ReturnInv
<1>12. CASE CallRaises
  BY <1>12, CallRaisesInv
<1>13. CASE StopHelper
  BY <1>13, StopHelperInv
<1>14. CASE SetupDies
  BY <1>14, SetupDiesInv
<1>15. CASE ReadRequest
  BY <1>15, ReadRequestInv
<1>16. CASE ReadFails
  BY <1>16, ReadFailsInv
<1>17. CASE ProcessRequest
  BY <1>17, ProcessRequestInv
<1>18. CASE WriteResponse
  BY <1>18, WriteResponseInv
<1>19. CASE ExitProcess
  BY <1>19, ExitProcessInv
<1>20. CASE HelperDies
  BY <1>20, HelperDiesInv
<1>21. CASE UNCHANGED vars
  BY <1>21, StutterInv
<1>. QED
  BY <1>1, <1>2, <1>3, <1>4, <1>5, <1>6, <1>7, <1>8, <1>9, <1>10, <1>11, <1>12,
         <1>13, <1>14, <1>15, <1>16, <1>17, <1>18, <1>19, <1>20, <1>21 DEF Next, SetupStep, HelperStep

\* The inductive invariant holds in every state, and with it the types
THEOREM PipeInvariant == Spec => []PipeInv
  BY InitPipeInv, NextPipeInv, PTL DEF Spec

-------------------------------------------------------------------------------
\* A response is never taken for that of another request: whenever Setup is not
\* waiting in InternalCall, the pipe is empty and the helper, if it lives, has
\* nothing to do.  For any number of calls and faults.
THEOREM WaitingIsNeverOptional == Spec => []Synchronous
<1>1. PipeInv => Synchronous
  BY DEF PipeInv, ExchangeInv, Serving, Synchronous
<1>. QED
  BY <1>1, PipeInvariant, PTL

\* A helper that registered a type library has executed nothing before and
\* executes nothing afterwards (the Stop before and after the call in
\* RegisterTypeLibrary).
THEOREM ForeignCodeAlone == Spec => []ForeignCodeIsolated
<1>1. PipeInv => ForeignCodeIsolated
  BY DEF PipeInv, ForeignInv, ForeignCodeIsolated
<1>. QED
  BY <1>1, PipeInvariant, PTL

\* A call of the helper fails for a fault of its own, never for a death of the
\* helper before it: Call has pinged and restarted it.
THEOREM OwnFaults == Spec => []FailsForOwnFault
<1>1. PipeInv => FailsForOwnFault
  BY DEF PipeInv, FaultsInv
<1>. QED
  BY <1>1, PipeInvariant, PTL

\* A step of the call protocol, seen as one of RemoteCall's
LEMMA RemoteStep == PipeInv /\ [Next]_vars => [Remote!Next]_(Remote!callVars)
<1> SUFFICES ASSUME PipeInv, [Next]_vars PROVE [Remote!Next]_(Remote!callVars)
  OBVIOUS
<1> USE DEF PipeInv, Remote!Next, Remote!callVars
<1>1. ASSUME NEW k \in Kinds, CallHelper(k) PROVE \E c \in Calls : Remote!Make(c)
  <2>1. n + 1 \in Calls
    BY <1>1 DEF CallHelper, TypeOK, Calls
  <2>2. n + 1 > n
    BY DEF TypeOK
  <2>3. outcome[n + 1] = "unmade"
    BY <2>1, <2>2 DEF BooksInv
  <2>. QED
    BY <1>1, <2>1, <2>3 DEF CallHelper, Remote!Make
<1>2. CASE ProcessRequest
  <2>1. /\ work = request /\ work.call = n /\ n \in Calls
        /\ outcome[n] = "made" /\ runs[n] = 0
    BY <1>2 DEF ProcessRequest, ExchangeInv, BooksInv, InExchange, Serving
  <2>2. CASE work.cmd = "ping"
    BY <1>2, <2>2 DEF ProcessRequest
  <2>3. CASE work.cmd = "command"
    BY <1>2, <2>1 DEF ProcessRequest, Remote!Execute
  <2>. QED
    BY <1>2, <2>3 DEF ProcessRequest
<1>3. CASE Return
  <2>1. n \in Calls /\ outcome[n] = "made" /\ runs[n] = 1 /\ response.error = answer[n]
    BY <1>3 DEF Return, BooksInv, At
  <2>. QED
    BY <1>3, <2>1 DEF Return, Remote!Return
<1>4. CASE CallRaises
  <2>1. n \in Calls /\ outcome[n] = "made"
    BY <1>4 DEF CallRaises, BooksInv, At
  <2>. QED
    BY <1>4, <2>1 DEF CallRaises, Remote!Fail
<1>5. CASE UNCHANGED callVars
  BY <1>5 DEF callVars
<1>6. CASE StopHelper \/ StartFails \/ CreateEventFails \/ SetupDies
  BY <1>5, <1>6 DEF StopHelper, StartFails, CreateEventFails, SetupDies
<1>7. CASE Call \/ Start \/ Transact \/ PipeBroken \/ GotResponse \/ Stopped \/ Terminate
  BY <1>5, <1>7 DEF Call, Start, Transact, PipeBroken, GotResponse, Stopped, Terminate
<1>8. CASE ReadRequest \/ ReadFails \/ WriteResponse \/ ExitProcess \/ HelperDies
  BY <1>5, <1>8 DEF ReadRequest, ReadFails, WriteResponse, ExitProcess, HelperDies
<1>9. CASE UNCHANGED vars
  BY <1>5, <1>9 DEF vars
<1>. QED
  BY <1>1, <1>2, <1>3, <1>4, <1>6, <1>7, <1>8, <1>9 DEF Next, SetupStep, HelperStep

\* The calls of the helper are those of the abstract remote call: each is
\* executed at most once and only while Setup waits for it, and what Call
\* returns is the answer of that execution, whichever helpers died before.
THEOREM ImplementsRemoteCall == Spec => CallSpec
<1>1. Init => Remote!Init
  BY DEF Init, Remote!Init
<1>. QED
  BY <1>1, PipeInvariant, RemoteStep, PTL DEF Spec, CallSpec, Remote!Spec

===============================================================================
