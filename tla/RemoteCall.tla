------------------------------ MODULE RemoteCall ------------------------------
(***************************************************************************)
(* What Setup relies on when it has something done by another process: a   *)
(* call is executed at most once, only while the caller waits for it, and  *)
(* what the caller is given is the answer of that execution and no other.  *)
(* A call may fail at any time before it has returned; the caller cannot   *)
(* tell then whether it was executed.                                      *)
(*                                                                         *)
(* HelperPipe (the 64-bit helper) and SpawnProtocol (the spawn server)     *)
(* implement it.                                                           *)
(***************************************************************************)
EXTENDS Naturals

CONSTANTS Calls,    \* the calls that can be made
          Results,  \* what an execution may answer
          None      \* no answer

VARIABLES outcome,  \* per call: "unmade", "made", "returned", "failed"
          runs,     \* per call: how often it was executed
          answer,   \* per call: what its execution answered
          given     \* per call: what the caller was given

callVars == <<outcome, runs, answer, given>>

Init ==
    /\ outcome = [c \in Calls |-> "unmade"]
    /\ runs = [c \in Calls |-> 0]
    /\ answer = [c \in Calls |-> None]
    /\ given = [c \in Calls |-> None]

Make(c) ==
    /\ outcome[c] = "unmade"
    /\ outcome' = [outcome EXCEPT ![c] = "made"]
    /\ UNCHANGED <<runs, answer, given>>

Execute(c) ==
    /\ outcome[c] = "made"
    /\ runs[c] = 0
    /\ runs' = [runs EXCEPT ![c] = 1]
    /\ \E r \in Results : answer' = [answer EXCEPT ![c] = r]
    /\ UNCHANGED <<outcome, given>>

Return(c) ==
    /\ outcome[c] = "made"
    /\ runs[c] = 1
    /\ outcome' = [outcome EXCEPT ![c] = "returned"]
    /\ given' = [given EXCEPT ![c] = answer[c]]
    /\ UNCHANGED <<runs, answer>>

Fail(c) ==
    /\ outcome[c] = "made"
    /\ outcome' = [outcome EXCEPT ![c] = "failed"]
    /\ UNCHANGED <<runs, answer, given>>

Next == \E c \in Calls : Make(c) \/ Execute(c) \/ Return(c) \/ Fail(c)

Spec == Init /\ [][Next]_callVars
===============================================================================
