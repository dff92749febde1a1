-------------------------- MODULE SpawnProtocolProofs --------------------------
(***************************************************************************)
(* Proofs about SpawnProtocol, for any number of calls, any depth of calls *)
(* within calls, any answers and any faults: a call fails only for a cause,*)
(* and the protocol implements RemoteCall.                                 *)
(***************************************************************************)
EXTENDS SpawnProtocol, TLAPS

(* The inductive invariant.                                                *)

\* The calls on the stack: each within the one before, which waits for it
StackInv ==
    /\ \A i \in 1..Len(stack) :
           /\ stack[i].call <= n
           /\ outcome[stack[i].call] = "made"
           /\ i < Len(stack) => stack[i].pc = "pump"
           /\ stack[i].pc = "call" => stack[i].call = n
    /\ \A i, j \in 1..Len(stack) : i < j => stack[i].call < stack[j].call
    /\ \A c \in Calls : c > n => outcome[c] = "unmade" /\ runs[c] = 0
    /\ client = "stopping" => stack = <<>>

\* The message under way is that of the innermost call
MessageInv ==
    /\ sent # None =>
           /\ client = "running" /\ stack # <<>> /\ reply = None
           /\ \/ Top.pc = "call" /\ sent = [op |-> "exec", call |-> Top.call]
              \/ Top.pc \in {"status", "lo", "hi"} /\ sent = [op |-> Top.pc, seq |-> Top.seq]
    /\ reply # None => stack # <<>> /\ Top.pc # "pump" /\ reply.ok \in BOOLEAN

\* A sequence number names the call it was given to, and a call that another
\* has taken the server from knows why it fails
SeqInv ==
    /\ seqNo <= n
    /\ callStatus # "none" => serving \in 1..n /\ seqNo \in 1..n
    /\ callStatus = "none" => seqNo = 0 /\ serving = None
    /\ \A i \in 1..Len(stack) : stack[i].pc # "call" =>
           /\ stack[i].seq \in 1..seqNo
           /\ stack[i].seq = seqNo => stack[i].call = serving
           /\ stack[i].seq # seqNo => stack[i].call \in excused
    /\ sent # None /\ Top.pc = "call" => seqNo < n /\ serving # n /\ runs[n] = 0

\* What the server keeps is about the call it serves
ServerInv ==
    /\ srv = "exec" =>
           /\ callStatus = "running" /\ runs[serving] = 0 /\ outcome[serving] = "made"
           /\ reply # None => Top.pc = "call" /\ reply.ok
    /\ srv \in {"jobpump", "jobwait", "joblast"} =>
           /\ callStatus = "running" /\ runs[serving] = 1
           /\ answer[serving] \in Answers /\ answer[serving].ok
    /\ callStatus \in {"true", "false"} =>
           /\ runs[serving] = 1
           /\ result \in Answers /\ result = answer[serving]
           /\ callStatus = "true" <=> result.ok
    /\ callStatus = "exception" => serving \in excused

\* A reply is still true when it is looked at
ReplyInv ==
    reply # None =>
        /\ ~reply.ok => Top.call \in excused
        /\ reply.ok /\ Top.pc = "call" => reply.value = seqNo /\ serving = Top.call
        /\ reply.ok /\ Top.pc # "call" => Top.seq = seqNo
        /\ reply.ok /\ Top.pc = "status" =>
               /\ reply.value \in {"running", "true", "false", "exception"}
               /\ reply.value \in {"true", "false"} => callStatus = reply.value
               /\ reply.value = "exception" => Top.call \in excused
        /\ reply.ok /\ Top.pc = "lo" => reply.value = result.lo
        /\ reply.ok /\ Top.pc = "hi" => reply.value = result.hi

\* Nothing changes between the answer to the status and the end of the call
ResultInv ==
    stack # <<>> /\ Top.pc \in {"lo", "hi"} =>
        /\ Top.seq = seqNo
        /\ callStatus \in {"true", "false"} /\ (Top.ok <=> callStatus = "true")
        /\ Top.pc = "hi" => Top.lo = result.lo

SpawnInv == TypeOK /\ StackInv /\ MessageInv /\ SeqInv /\ ServerInv /\ ReplyInv /\ ResultInv
                   /\ FailsForACause
-------------------------------------------------------------------------------
\* The numbers
LEMMA Numbers ==
    ASSUME TypeOK
    PROVE  /\ MaxCalls \in Nat /\ n \in Nat /\ n <= MaxCalls
           /\ SeqMod \in Nat /\ SeqMod > MaxCalls /\ seqNo \in Nat /\ seqNo < SeqMod
           /\ stack \in Seq(Frames) /\ Len(stack) \in Nat
           /\ MaxFaults \in Nat /\ None \notin Calls /\ None \notin Answers
  BY SpawnAssumption DEF TypeOK, Calls

\* The innermost call, and the three ways the stack of calls changes
LEMMA TopFrame ==
    ASSUME stack \in Seq(Frames), stack # <<>>
    PROVE  /\ Len(stack) \in Nat \ {0} /\ Top = stack[Len(stack)] /\ Top \in Frames
           /\ Top.call \in Calls /\ Top.seq \in 0..SeqMod-1 /\ Top.ok \in BOOLEAN
           /\ Top.pc \in {"call", "pump", "status", "lo", "hi"}
<1>1. Len(stack) \in Nat \ {0} /\ Top = stack[Len(stack)] /\ Top \in Frames
  BY DEF Top
<1>. QED
  BY <1>1 DEF Frames

\* A call pushed on the stack is its last frame, and the others stay.
LEMMA PushFrame ==
    ASSUME stack \in Seq(Frames), NEW f \in Frames, stack' = Append(stack, f)
    PROVE  /\ stack' \in Seq(Frames) /\ stack' # <<>> /\ Len(stack') = Len(stack) + 1
           /\ \A i \in 1..Len(stack) : stack'[i] = stack[i]
           /\ stack'[Len(stack')] = f /\ Top' = f
  BY DEF Top

\* What a call does to its own frame leaves the other frames alone.
LEMMA ChangeTop ==
    ASSUME stack \in Seq(Frames), stack # <<>>, NEW f \in Frames, stack' = SetTop(f)
    PROVE  /\ stack' \in Seq(Frames) /\ stack' # <<>> /\ Len(stack') = Len(stack)
           /\ \A i \in 1..Len(stack) : i < Len(stack) => stack'[i] = stack[i]
           /\ stack'[Len(stack)] = f /\ Top' = f
  BY DEF Top, SetTop

\* A sequence without its last element.
LEMMA FrontOfSeq ==
    ASSUME NEW S, NEW s \in Seq(S), s # <<>>
    PROVE  /\ SubSeq(s, 1, Len(s) - 1) \in Seq(S)
           /\ Len(SubSeq(s, 1, Len(s) - 1)) = Len(s) - 1
<1>1. Len(s) \in Nat /\ Len(s) >= 1
  OBVIOUS
<1>2. Len(SubSeq(s, 1, Len(s) - 1)) = Len(s) - 1
  BY <1>1
<1>3. \A k \in 1..Len(s) : SubSeq(s, 1, k - 1) \in Seq(S)
  OBVIOUS
<1>. QED
  BY <1>1, <1>2, <1>3

\* After a call returns the frame below it is the last one.
LEMMA PopFrame ==
    ASSUME stack \in Seq(Frames), stack # <<>>, stack' = Pop
    PROVE  /\ stack' \in Seq(Frames) /\ Len(stack') = Len(stack) - 1
           /\ \A i \in 1..Len(stack') : stack'[i] = stack[i]
           /\ stack' # <<>> => Len(stack) > 1 /\ Top' = stack[Len(stack) - 1]
<1>1. Len(stack) \in Nat \ {0}
  OBVIOUS
<1>2. stack' \in Seq(Frames)
  BY FrontOfSeq DEF Pop
<1>3. Len(stack') = Len(stack) - 1
  BY FrontOfSeq DEF Pop
<1>4. \A i \in 1..Len(stack') : stack'[i] = stack[i]
  BY DEF Pop
<1>5. stack' # <<>> => Len(stack') > 0
  BY <1>2
<1>. QED
  BY <1>1, <1>2, <1>3, <1>4, <1>5 DEF Top

\* The calls of the frames
LEMMA FrameCalls ==
    ASSUME stack \in Seq(Frames)
    PROVE  \A i \in 1..Len(stack) : stack[i] \in Frames /\ stack[i].call \in Calls
<1>1. \A i \in 1..Len(stack) : stack[i] \in Frames
  OBVIOUS
<1>. QED
  BY <1>1 DEF Frames

\* A frame keeps what is not assigned
LEMMA PcUpdate ==
    ASSUME NEW f \in Frames, NEW g, NEW p \in {"call", "pump", "status", "lo", "hi"},
           g = [f EXCEPT !.pc = p]
    PROVE  g \in Frames /\ g.pc = p /\ g.call = f.call /\ g.seq = f.seq /\ g.ok = f.ok
           /\ g.lo = f.lo
  BY DEF Frames

\* Where the remainder is the number itself
LEMMA SmallMod ==
    ASSUME NEW k \in Nat, NEW m \in Nat, k < m
    PROVE  k % m = k
  OBVIOUS

\* What the client puts together is what the execution answered
LEMMA ReturnedAnswer ==
    ASSUME SpawnInv, reply # None, reply.ok, Top.pc = "hi"
    PROVE  /\ Top.call = serving /\ runs[Top.call] = 1
           /\ [ok |-> Top.ok, lo |-> Top.lo, hi |-> reply.value] = answer[Top.call]
           /\ answer[Top.call] \in Answers
<1>1. stack # <<>> /\ reply.value = result.hi
  BY DEF SpawnInv, MessageInv, ReplyInv
<1>2. /\ Top.seq = seqNo /\ Top.lo = result.lo /\ (Top.ok <=> callStatus = "true")
      /\ callStatus \in {"true", "false"}
  BY <1>1 DEF SpawnInv, ResultInv
<1>3. /\ result \in Answers /\ result = answer[serving] /\ (callStatus = "true" <=> result.ok)
      /\ runs[serving] = 1
  BY <1>2 DEF SpawnInv, ServerInv
<1>4. Len(stack) \in 1..Len(stack) /\ Top = stack[Len(stack)] /\ Top.ok \in BOOLEAN
  BY <1>1, Numbers, TopFrame DEF SpawnInv
<1>5. Top.call = serving
  BY <1>2, <1>4 DEF SpawnInv, SeqInv
<1>6. result = [ok |-> result.ok, lo |-> result.lo, hi |-> result.hi] /\ result.ok \in BOOLEAN
  BY <1>3, SpawnAssumption
<1>7. Top.ok = result.ok
  BY <1>2, <1>3, <1>4, <1>6
<1>. QED
  BY <1>1, <1>2, <1>3, <1>5, <1>6, <1>7

\* CallSpawnServer keeps the invariant.
LEMMA CallSpawnServerInv ==
    ASSUME SpawnInv, CallSpawnServer
    PROVE  SpawnInv'
<1>. USE DEF SpawnInv, clientVars, queueVars, serverVars, callVars
<1> DEFINE f == [call |-> n + 1, pc |-> "call", seq |-> 0, ok |-> FALSE, lo |-> None]
<1>n. n < MaxCalls /\ n' = n + 1 /\ n' \in Calls /\ n \in Nat /\ n' \in Nat
  BY Numbers DEF CallSpawnServer, Calls
<1>a. /\ client = "running"
      /\ outcome' = [outcome EXCEPT ![n'] = "made"]
      /\ sent' = [op |-> "exec", call |-> n'] /\ reply' = None
      /\ UNCHANGED <<client, posted, serverVars, runs, answer, given, excused, faults>>
      /\ stack # <<>> => Top.pc = "pump"
  BY <1>n DEF CallSpawnServer, Send
<1>b. f \in Frames
  BY <1>n, SpawnAssumption DEF Frames
<1>c. /\ stack' \in Seq(Frames) /\ Len(stack') = Len(stack) + 1 /\ stack' # <<>>
      /\ \A i \in 1..Len(stack) : stack'[i] = stack[i]
      /\ stack'[Len(stack')] = f /\ Top' = f
  BY <1>b, PushFrame DEF TypeOK, CallSpawnServer
<1>d. /\ f.call = n' /\ f.pc = "call" /\ Len(stack) \in Nat
      /\ stack # <<>> => Len(stack) # 0 /\ Top = stack[Len(stack)]
      /\ \A i \in 1..Len(stack) : stack[i].call \in 1..n /\ stack[i].pc = "pump"
  <2>1. Len(stack) \in Nat /\ (stack # <<>> => Len(stack) # 0 /\ Top = stack[Len(stack)])
    BY DEF TypeOK, Top
  <2>2. \A i \in 1..Len(stack) : stack[i].pc = "pump"
    BY <2>1, <1>a DEF StackInv
  <2>. QED
    BY <2>1, <2>2, <1>n, FrameCalls DEF StackInv, TypeOK, Calls
<1> HIDE DEF f
<1>1. TypeOK'
  <2>1. outcome' \in [Calls -> {"unmade", "made", "returned", "failed"}]
    BY <1>n, <1>a DEF TypeOK
  <2>2. n' \in 0..MaxCalls
    BY <1>n, Numbers
  <2>3. stack' \in Seq(Frames)
    BY <1>c
  <2>4. UNCHANGED <<client, posted, serverVars, runs, answer, given, excused, faults>>
        /\ fresh' \in BOOLEAN
    BY DEF CallSpawnServer, Send
  <2>. QED
    BY <2>1, <2>2, <2>3, <2>4 DEF TypeOK
<1>2. StackInv'
  <2>1. ASSUME NEW i \in 1..Len(stack')
        PROVE  \/ i \in 1..Len(stack) /\ stack'[i] = stack[i]
               \/ i = Len(stack') /\ stack'[i] = f /\ i \notin 1..Len(stack)
    BY <1>c, <1>d
  <2>2. \A c \in Calls : c # n' => outcome'[c] = outcome[c]
    BY <1>a, <1>n DEF TypeOK
  <2>3. outcome'[n'] = "made"
    BY <1>a, <1>n DEF TypeOK
  <2>4. ASSUME NEW i \in 1..Len(stack')
        PROVE  /\ stack'[i].call <= n'
               /\ outcome'[stack'[i].call] = "made"
               /\ i < Len(stack') => stack'[i].pc = "pump"
               /\ stack'[i].pc = "call" => stack'[i].call = n'
    <3>1. CASE i \in 1..Len(stack) /\ stack'[i] = stack[i]
      <4>1. stack[i].call \in 1..n /\ stack[i].call \in Calls /\ stack[i].pc = "pump"
        BY <1>d, <3>1, Numbers, FrameCalls
      <4>2. outcome[stack[i].call] = "made"
        BY <3>1 DEF StackInv
      <4>. QED
        BY <3>1, <4>1, <4>2, <2>2, <1>n
    <3>2. CASE i = Len(stack') /\ stack'[i] = f
      BY <3>2, <2>3, <1>d, <1>n
    <3>. QED
      BY <2>1, <3>1, <3>2
  <2>5. ASSUME NEW i \in 1..Len(stack'), NEW j \in 1..Len(stack'), i < j
        PROVE  stack'[i].call < stack'[j].call
    <3>1. i \in 1..Len(stack) /\ stack'[i] = stack[i] /\ stack[i].call \in 1..n
      BY <2>5, <1>c, <1>d
    <3>2. CASE j \in 1..Len(stack) /\ stack'[j] = stack[j]
      BY <3>1, <3>2, <2>5 DEF StackInv
    <3>3. CASE stack'[j] = f
      BY <3>1, <3>3, <1>d, <1>n
    <3>. QED
      BY <2>1, <3>2, <3>3
  <2>6. \A c \in Calls : c > n' => outcome'[c] = "unmade" /\ runs'[c] = 0
    BY <2>2, <1>a, <1>n DEF StackInv, Calls
  <2>7. client' = "stopping" => stack' = <<>>
    BY <1>a
  <2>. QED
    BY <2>4, <2>5, <2>6, <2>7 DEF StackInv
<1>3. MessageInv'
  BY <1>n, <1>a, <1>b, <1>c, <1>d DEF MessageInv
<1>4. SeqInv'
  <2>1. ASSUME NEW i \in 1..Len(stack'), stack'[i].pc # "call"
        PROVE  i \in 1..Len(stack) /\ stack'[i] = stack[i]
    BY <1>c, <1>d, <2>1
  <2>2. /\ seqNo' = seqNo /\ serving' = serving /\ callStatus' = callStatus
        /\ runs' = runs /\ excused' = excused
    BY <1>a
  <2>3. runs[n'] = 0
    BY <1>n DEF StackInv
  <2>4. seqNo <= n /\ (callStatus # "none" => serving \in 1..n)
        /\ (callStatus = "none" => seqNo = 0 /\ serving = None)
    BY DEF SeqInv
  <2>5. seqNo' < n' /\ serving' # n' /\ (callStatus # "none" => serving \in 1..n')
    BY <1>n, <2>2, <2>4, Numbers
  <2>6. \A i \in 1..Len(stack') : stack'[i].pc # "call" =>
           /\ stack'[i].seq \in 1..seqNo
           /\ stack'[i].seq = seqNo => stack'[i].call = serving
           /\ stack'[i].seq # seqNo => stack'[i].call \in excused
    BY <2>1 DEF SeqInv
  <2>. QED
    BY <2>2, <2>3, <2>4, <2>5, <2>6, Numbers, <1>n DEF SeqInv
<1>5. ServerInv'
  BY <1>n, <1>a, <1>b, <1>c, <1>d DEF TypeOK, SeqInv, ServerInv
<1>6. ReplyInv'
  BY <1>n, <1>a, <1>b, <1>c, <1>d DEF MessageInv, ReplyInv
<1>7. ResultInv'
  BY <1>n, <1>a, <1>b, <1>c, <1>d DEF ResultInv
<1>8. FailsForACause'
  BY <1>n, <1>a, <1>b, <1>c, <1>d DEF FailsForACause
<1>. QED
  BY <1>1, <1>2, <1>3, <1>4, <1>5, <1>6, <1>7, <1>8

\* QueryStatus keeps the invariant.
LEMMA QueryStatusInv ==
    ASSUME SpawnInv, QueryStatus
    PROVE  SpawnInv'
<1>. USE DEF SpawnInv, clientVars, queueVars, serverVars, callVars
<1>a. /\ client = "running" /\ stack # <<>> /\ Top.pc = "pump" /\ Top = stack[Len(stack)]
      /\ Top \in Frames /\ Len(stack) \in Nat \ {0} /\ reply = None
  BY TopFrame DEF TypeOK, QueryStatus, MessageInv
<1> DEFINE f == [Top EXCEPT !.pc = "status"]
<1>f. /\ f \in Frames /\ f.pc = "status" /\ f.call = Top.call /\ f.seq = Top.seq
      /\ stack' = SetTop(f)
  BY <1>a, PcUpdate DEF QueryStatus
<1> HIDE DEF f
<1>b. /\ stack' \in Seq(Frames) /\ Len(stack') = Len(stack) /\ stack' # <<>>
      /\ \A i \in 1..Len(stack) : i < Len(stack) => stack'[i] = stack[i]
      /\ stack'[Len(stack)] = Top'
      /\ Top'.pc = "status" /\ Top'.call = Top.call /\ Top'.seq = Top.seq
  BY <1>a, <1>f, ChangeTop DEF TypeOK
<1>c. /\ sent' = [op |-> Top'.pc, seq |-> Top'.seq] /\ reply' = None
      /\ UNCHANGED <<client, n, posted, serverVars, callVars, excused, faults>>
  BY <1>a, <1>b DEF QueryStatus, Send
<1>1. TypeOK'
  <2>1. stack' \in Seq(Frames) /\ fresh' \in BOOLEAN
    BY <1>b DEF QueryStatus, Send
  <2>. QED
    BY <2>1, <1>c DEF TypeOK
<1>2. StackInv'
  BY <1>a, <1>f, <1>b, <1>c DEF StackInv
<1>3. MessageInv'
  BY <1>a, <1>f, <1>b, <1>c DEF MessageInv
<1>4. SeqInv'
  BY <1>a, <1>f, <1>b, <1>c DEF SeqInv
<1>5. ServerInv'
  BY <1>a, <1>f, <1>b, <1>c DEF TypeOK, SeqInv, ServerInv
<1>6. ReplyInv'
  BY <1>a, <1>f, <1>b, <1>c DEF MessageInv, ReplyInv
<1>7. ResultInv'
  BY <1>a, <1>f, <1>b, <1>c DEF ResultInv
<1>8. FailsForACause'
  BY <1>a, <1>f, <1>b, <1>c DEF FailsForACause
<1>. QED
  BY <1>1, <1>2, <1>3, <1>4, <1>5, <1>6, <1>7, <1>8

\* GotReply keeps the invariant.
LEMMA GotReplyInv ==
    ASSUME SpawnInv, GotReply
    PROVE  SpawnInv'
<1>. USE DEF SpawnInv, clientVars, queueVars, serverVars, callVars
<1>a. /\ stack \in Seq(Frames) /\ None \notin Calls
      /\ client = "running" /\ reply # None /\ reply.ok \in BOOLEAN /\ sent = None
      /\ stack # <<>> /\ Top.pc # "pump"
      /\ Len(stack) \in Nat \ {0} /\ Top = stack[Len(stack)] /\ Top \in Frames
      /\ Top.call \in Calls /\ Top.seq \in 0..SeqMod-1
      /\ Top.pc \in {"call", "pump", "status", "lo", "hi"}
      /\ UNCHANGED <<client, n, posted, serverVars, runs, answer, excused, faults>>
  <2>1. client = "running" /\ reply # None
        /\ UNCHANGED <<client, n, posted, serverVars, runs, answer, excused, faults>>
    BY DEF GotReply
  <2>2. stack # <<>> /\ Top.pc # "pump" /\ reply.ok \in BOOLEAN /\ sent = None
    BY <2>1 DEF MessageInv
  <2>. QED
    BY <2>1, <2>2, TopFrame, Numbers
<1>x. Top.pc # "call" \/ ~reply.ok => srv # "exec"
  BY <1>a DEF ServerInv
<1>1. CASE /\ Top.pc = "call" /\ reply.ok
           /\ stack' = SetTop([Top EXCEPT !.pc = "pump", !.seq = reply.value])
           /\ UNCHANGED <<sent, fresh, outcome, given>> /\ reply' = None
  <2>r. reply.value = seqNo /\ serving = Top.call /\ callStatus # "none"
    BY <1>a, <1>1 DEF ReplyInv, SeqInv
  <2> DEFINE f == [Top EXCEPT !.pc = "pump", !.seq = seqNo]
  <2>e. f = [Top EXCEPT !.pc = "pump", !.seq = seqNo]
    OBVIOUS
  <2> HIDE DEF f
  <2>f. /\ f \in Frames /\ f.pc = "pump" /\ f.call = Top.call /\ f.seq = seqNo
        /\ stack' = SetTop(f)
    <3>0. Top \in Frames
      BY <1>a
    <3>1. seqNo \in 0..SeqMod-1
      BY Numbers
    <3>2. f \in Frames /\ f.pc = "pump" /\ f.call = Top.call /\ f.seq = seqNo
      BY <3>0, <2>e, <3>1 DEF Frames
    <3>3. stack' = SetTop(f)
      BY <1>1, <2>e, <2>r
    <3>. QED
      BY <3>2, <3>3
  <2> HIDE DEF f
  <2>b. /\ stack' \in Seq(Frames) /\ Len(stack') = Len(stack) /\ stack' # <<>>
        /\ \A i \in 1..Len(stack) : i < Len(stack) => stack'[i] = stack[i]
        /\ stack'[Len(stack)] = Top'
        /\ Top'.pc = "pump" /\ Top'.call = Top.call /\ Top'.seq = seqNo
    BY <1>a, <2>f, ChangeTop
  <2>1. TypeOK'
    BY <1>a, <1>x, <1>1, <2>r, <2>e, <2>b DEF TypeOK
  <2>2. StackInv'
    <3>1. \A i \in 1..Len(stack) : stack'[i].call = stack[i].call
      BY <1>a, <2>b
    <3>2. Top'.pc # "call" /\ UNCHANGED <<client, n, outcome, runs>>
      BY <1>a, <1>1, <2>b
    <3>. QED
      BY <1>a, <2>b, <3>1, <3>2 DEF StackInv
  <2>3. MessageInv'
    BY <1>a, <1>x, <1>1, <2>r, <2>e, <2>b DEF MessageInv
  <2>4. SeqInv'
    <3>1. seqNo \in 1..seqNo
      BY <1>a, <2>r, Numbers DEF SeqInv, Calls
    <3>2. Top'.seq = seqNo /\ Top'.call = serving /\ Top'.pc = "pump"
      BY <2>r, <2>b
    <3>3. \A i \in 1..Len(stack) : i < Len(stack) \/ stack'[i] = Top'
      BY <1>a, <2>b
    <3>4. sent' = sent /\ UNCHANGED <<n, serverVars, runs, excused>>
      BY <1>a, <1>1
    <3>. QED
      BY <1>a, <2>b, <3>1, <3>2, <3>3, <3>4 DEF SeqInv
  <2>5. ServerInv'
    BY <1>a, <1>x, <1>1, <2>r, <2>e, <2>b DEF TypeOK, SeqInv, ServerInv
  <2>6. ReplyInv'
    BY <1>a, <1>x, <1>1, <2>r, <2>e, <2>b DEF MessageInv, ReplyInv
  <2>7. ResultInv'
    BY <1>a, <1>x, <1>1, <2>r, <2>e, <2>b DEF ResultInv
  <2>8. FailsForACause'
    BY <1>a, <1>x, <1>1, <2>r, <2>e, <2>b DEF FailsForACause
  <2>. QED
    BY <2>1, <2>2, <2>3, <2>4, <2>5, <2>6, <2>7, <2>8
<1>2. CASE RaiseInternalError /\ reply' = None /\ Top.call \in excused
           /\ (Top.pc # "call" \/ ~reply.ok)
  <2>b. /\ stack' \in Seq(Frames) /\ Len(stack') = Len(stack) - 1
        /\ \A i \in 1..Len(stack') : stack'[i] = stack[i] /\ stack'[i].pc = "pump"
        /\ stack' # <<>> => Top'.pc = "pump"
    <3>1. /\ stack' \in Seq(Frames) /\ Len(stack') = Len(stack) - 1
          /\ \A i \in 1..Len(stack') : stack'[i] = stack[i]
          /\ stack' # <<>> => Len(stack) > 1 /\ Top' = stack[Len(stack) - 1]
      BY <1>a, <1>2, PopFrame DEF RaiseInternalError
    <3>. QED
      BY <1>a, <3>1 DEF StackInv
  <2>c. \A i \in 1..Len(stack') : stack'[i].call \in Calls /\ stack'[i].call # Top.call
    BY <1>a, <2>b, Numbers, FrameCalls, SMTT(20) DEF StackInv, Calls
  <2>d. /\ outcome' = [outcome EXCEPT ![Top.call] = "failed"]
        /\ outcome'[Top.call] = "failed"
        /\ \A c \in Calls : c # Top.call => outcome'[c] = outcome[c]
        /\ sent' = None /\ reply' = None /\ fresh' = fresh
    BY <1>a, <1>2 DEF TypeOK, RaiseInternalError
  <2>e. given' = given /\ Top.call \in excused
    BY <1>2 DEF RaiseInternalError
  <2>1. TypeOK'
    BY <1>a, <1>x, <1>2, <2>b, <2>c, <2>d, <2>e DEF TypeOK
  <2>2. StackInv'
    <3>1. \A i \in 1..Len(stack') : i \in 1..Len(stack) /\ stack'[i] = stack[i] /\ stack'[i].pc = "pump"
      BY <1>a, <2>b
    <3>2. n' = n /\ client' = client /\ runs' = runs /\ Top.call <= n /\ n \in Nat
      BY <1>a, Numbers DEF StackInv
    <3>3. \A i \in 1..Len(stack') : outcome'[stack'[i].call] = "made" /\ stack'[i].call <= n
      BY <3>1, <2>c, <2>d DEF StackInv
    <3>4. \A i, j \in 1..Len(stack') : i < j => stack'[i].call < stack'[j].call
      BY <3>1 DEF StackInv
    <3>5. \A c \in Calls : c > n => outcome'[c] = "unmade" /\ runs[c] = 0
      BY <3>2, <2>d, <1>a DEF StackInv, Calls
    <3>. QED
      BY <3>1, <3>2, <3>3, <3>4, <3>5, <1>a, SMTT(20) DEF StackInv
  <2>3. MessageInv'
    BY <1>a, <1>x, <1>2, <2>b, <2>c, <2>d, <2>e DEF MessageInv
  <2>4. SeqInv'
    BY <1>a, <1>x, <1>2, <2>b, <2>c, <2>d, <2>e DEF SeqInv
  <2>5. ServerInv'
    BY <1>a, <1>x, <1>2, <2>b, <2>c, <2>d, <2>e DEF TypeOK, SeqInv, ServerInv
  <2>6. ReplyInv'
    BY <1>a, <1>x, <1>2, <2>b, <2>c, <2>d, <2>e DEF MessageInv, ReplyInv
  <2>7. ResultInv'
    BY <1>a, <1>x, <1>2, <2>b, <2>c, <2>d, <2>e DEF ResultInv
  <2>8. FailsForACause'
    BY <1>a, <1>x, <1>2, <2>b, <2>c, <2>d, <2>e DEF FailsForACause
  <2>. QED
    BY <2>1, <2>2, <2>3, <2>4, <2>5, <2>6, <2>7, <2>8
<1>3. CASE /\ Top.pc = "status"
           /\ stack' = SetTop([Top EXCEPT !.pc = "pump"])
           /\ UNCHANGED <<sent, fresh, outcome, given>> /\ reply' = None
  <2> DEFINE f == [Top EXCEPT !.pc = "pump"]
  <2>f. /\ f \in Frames /\ f.pc = "pump" /\ f.call = Top.call /\ f.seq = Top.seq
        /\ stack' = SetTop(f)
    BY <1>a, <1>3, Numbers, PcUpdate DEF TypeOK
  <2> HIDE DEF f
  <2>b. /\ stack' \in Seq(Frames) /\ Len(stack') = Len(stack) /\ stack' # <<>>
        /\ \A i \in 1..Len(stack) : i < Len(stack) => stack'[i] = stack[i]
        /\ stack'[Len(stack)] = Top'
        /\ Top'.pc = "pump" /\ Top'.call = Top.call /\ Top'.seq = Top.seq
    BY <1>a, <2>f, ChangeTop
  <2>1. TypeOK'
    BY <1>a, <1>x, <1>3, <2>b DEF TypeOK
  <2>2. StackInv'
    <3>1. \A i \in 1..Len(stack) : stack'[i].call = stack[i].call
      BY <1>a, <2>b
    <3>2. Top'.pc # "call" /\ UNCHANGED <<client, n, outcome, runs>>
      BY <1>a, <1>3, <2>b
    <3>. QED
      BY <1>a, <2>b, <3>1, <3>2 DEF StackInv
  <2>3. MessageInv'
    BY <1>a, <1>x, <1>3, <2>b DEF MessageInv
  <2>4. SeqInv'
    BY <1>a, <1>x, <1>3, <2>b DEF SeqInv
  <2>5. ServerInv'
    BY <1>a, <1>x, <1>3, <2>b DEF TypeOK, SeqInv, ServerInv
  <2>6. ReplyInv'
    BY <1>a, <1>x, <1>3, <2>b DEF MessageInv, ReplyInv
  <2>7. ResultInv'
    BY <1>a, <1>x, <1>3, <2>b DEF ResultInv
  <2>8. FailsForACause'
    BY <1>a, <1>x, <1>3, <2>b DEF FailsForACause
  <2>. QED
    BY <2>1, <2>2, <2>3, <2>4, <2>5, <2>6, <2>7, <2>8
<1>4. CASE /\ Top.pc = "status" /\ reply.ok /\ reply.value \in {"true", "false"}
           /\ stack' = SetTop([Top EXCEPT !.pc = "lo", !.ok = (reply.value = "true")])
           /\ Send([op |-> "lo", seq |-> Top.seq])
           /\ UNCHANGED <<outcome, given>>
  <2> DEFINE b == reply.value = "true"
  <2> DEFINE f == [Top EXCEPT !.pc = "lo", !.ok = b]
  <2>e. f = [Top EXCEPT !.pc = "lo", !.ok = b]
    OBVIOUS
  <2>g. stack' = SetTop(f) /\ b \in BOOLEAN
    BY <1>4
  <2> HIDE DEF f
  <2>h. b <=> reply.value = "true"
    OBVIOUS
  <2> HIDE DEF b
  <2>f. /\ f \in Frames /\ f.pc = "lo" /\ f.call = Top.call /\ f.seq = Top.seq
        /\ stack' = SetTop(f) /\ f.ok = b
    <3>0. Top \in Frames
      BY <1>a
    <3>1. b \in BOOLEAN
      BY <2>g
    <3>2. f \in Frames /\ f.pc = "lo" /\ f.call = Top.call /\ f.seq = Top.seq /\ f.ok = b
      BY <3>0, <2>e, <3>1 DEF Frames
    <3>. QED
      BY <2>g, <3>2
  <2> HIDE DEF f
  <2>b. /\ stack' \in Seq(Frames) /\ Len(stack') = Len(stack) /\ stack' # <<>>
        /\ \A i \in 1..Len(stack) : i < Len(stack) => stack'[i] = stack[i]
        /\ stack'[Len(stack)] = Top'
        /\ Top'.pc = "lo" /\ Top'.call = Top.call /\ Top'.seq = Top.seq /\ Top'.ok = b
    BY <1>a, <2>f, ChangeTop
  <2>s. /\ sent' = [op |-> Top'.pc, seq |-> Top'.seq] /\ reply' = None
        /\ UNCHANGED <<outcome, given>>
    BY <1>4, <2>b DEF Send
  <2>t. Top.seq = seqNo /\ callStatus = reply.value /\ callStatus \in {"true", "false"}
    BY <1>a, <1>4 DEF ReplyInv
  <2>1. TypeOK'
    <3>1. stack' \in Seq(Frames) /\ fresh' \in BOOLEAN
      BY <2>b, <1>4 DEF TypeOK, Send
    <3>2. UNCHANGED <<client, n, posted, serverVars, runs, answer, excused, faults,
                      outcome, given>>
      BY <1>a, <1>4
    <3>. QED
      BY <3>1, <3>2 DEF TypeOK
  <2>2. StackInv'
    <3>1. \A i \in 1..Len(stack) : stack'[i].call = stack[i].call
      BY <1>a, <2>b
    <3>2. Top'.pc # "call" /\ UNCHANGED <<client, n, outcome, runs>>
      BY <1>a, <1>4, <2>b
    <3>. QED
      BY <1>a, <2>b, <3>1, <3>2 DEF StackInv
  <2>3. MessageInv'
    BY <1>a, <1>x, <1>4, <2>e, <2>g, <2>h, <2>b, <2>s, <2>t DEF MessageInv
  <2>4. SeqInv'
    BY <1>a, <1>x, <1>4, <2>e, <2>g, <2>h, <2>b, <2>s, <2>t DEF SeqInv
  <2>5. ServerInv'
    BY <1>a, <1>x, <1>4, <2>e, <2>g, <2>h, <2>b, <2>s, <2>t
       DEF TypeOK, SeqInv, ServerInv
  <2>6. ReplyInv'
    BY <1>a, <1>x, <1>4, <2>e, <2>g, <2>h, <2>b, <2>s, <2>t DEF MessageInv, ReplyInv
  <2>7. ResultInv'
    BY <1>a, <1>x, <1>4, <2>e, <2>g, <2>h, <2>b, <2>s, <2>t DEF ResultInv
  <2>8. FailsForACause'
    BY <1>a, <1>x, <1>4, <2>e, <2>g, <2>h, <2>b, <2>s, <2>t DEF FailsForACause
  <2>. QED
    BY <2>1, <2>2, <2>3, <2>4, <2>5, <2>6, <2>7, <2>8
<1>5. CASE /\ Top.pc = "lo" /\ reply.ok
           /\ stack' = SetTop([Top EXCEPT !.pc = "hi", !.lo = reply.value])
           /\ Send([op |-> "hi", seq |-> Top.seq])
           /\ UNCHANGED <<outcome, given>>
  <2>r. reply.value = result.lo /\ result \in Answers /\ result.lo \in {a.lo : a \in Answers}
    BY <1>a, <1>5 DEF ReplyInv, ResultInv, ServerInv
  <2> DEFINE f == [Top EXCEPT !.pc = "hi", !.lo = result.lo]
  <2>e. f = [Top EXCEPT !.pc = "hi", !.lo = result.lo]
    OBVIOUS
  <2> HIDE DEF f
  <2>f. /\ f \in Frames /\ f.pc = "hi" /\ f.call = Top.call /\ f.seq = Top.seq
        /\ stack' = SetTop(f) /\ f.ok = Top.ok /\ f.lo = result.lo
    <3>0. Top \in Frames
      BY <1>a
    <3>1. result.lo \in {a.lo : a \in Answers}
      BY <2>r
    <3>2. f \in Frames /\ f.pc = "hi" /\ f.call = Top.call /\ f.seq = Top.seq /\ f.ok = Top.ok /\ f.lo = result.lo
      BY <3>0, <2>e, <3>1 DEF Frames
    <3>3. stack' = SetTop(f)
      BY <1>5, <2>e, <2>r
    <3>. QED
      BY <3>2, <3>3
  <2> HIDE DEF f
  <2>b. /\ stack' \in Seq(Frames) /\ Len(stack') = Len(stack) /\ stack' # <<>>
        /\ \A i \in 1..Len(stack) : i < Len(stack) => stack'[i] = stack[i]
        /\ stack'[Len(stack)] = Top'
        /\ Top'.pc = "hi" /\ Top'.call = Top.call /\ Top'.seq = Top.seq
        /\ Top'.ok = Top.ok /\ Top'.lo = result.lo
    BY <1>a, <2>f, ChangeTop
  <2>s. /\ sent' = [op |-> Top'.pc, seq |-> Top'.seq] /\ reply' = None
        /\ UNCHANGED <<outcome, given>>
    BY <1>5, <2>b DEF Send
  <2>t. Top.seq = seqNo /\ callStatus \in {"true", "false"} /\ (Top.ok <=> callStatus = "true")
    BY <1>a, <1>5 DEF ResultInv
  <2>1. TypeOK'
    <3>1. stack' \in Seq(Frames) /\ fresh' \in BOOLEAN
      BY <2>b, <1>5 DEF TypeOK, Send
    <3>2. UNCHANGED <<client, n, posted, serverVars, runs, answer, excused, faults,
                      outcome, given>>
      BY <1>a, <1>5
    <3>. QED
      BY <3>1, <3>2 DEF TypeOK
  <2>2. StackInv'
    <3>1. \A i \in 1..Len(stack) : stack'[i].call = stack[i].call
      BY <1>a, <2>b
    <3>2. Top'.pc # "call" /\ UNCHANGED <<client, n, outcome, runs>>
      BY <1>a, <1>5, <2>b
    <3>. QED
      BY <1>a, <2>b, <3>1, <3>2 DEF StackInv
  <2>3. MessageInv'
    BY <1>a, <1>x, <1>5, <2>r, <2>e, <2>b, <2>s, <2>t DEF MessageInv
  <2>4. SeqInv'
    BY <1>a, <1>x, <1>5, <2>r, <2>e, <2>b, <2>s, <2>t DEF SeqInv
  <2>5. ServerInv'
    BY <1>a, <1>x, <1>5, <2>r, <2>e, <2>b, <2>s, <2>t DEF TypeOK, SeqInv, ServerInv
  <2>6. ReplyInv'
    BY <1>a, <1>x, <1>5, <2>r, <2>e, <2>b, <2>s, <2>t DEF MessageInv, ReplyInv
  <2>7. ResultInv'
    BY <1>a, <1>x, <1>5, <2>r, <2>e, <2>b, <2>s, <2>t DEF ResultInv
  <2>8. FailsForACause'
    BY <1>a, <1>x, <1>5, <2>r, <2>e, <2>b, <2>s, <2>t DEF FailsForACause
  <2>. QED
    BY <2>1, <2>2, <2>3, <2>4, <2>5, <2>6, <2>7, <2>8
<1>6. CASE /\ Top.pc = "hi" /\ reply.ok /\ reply' = None
           /\ outcome' = [outcome EXCEPT ![Top.call] = "returned"]
           /\ given' = [given EXCEPT ![Top.call] =
                            [ok |-> Top.ok, lo |-> Top.lo, hi |-> reply.value]]
           /\ stack' = Pop
           /\ UNCHANGED <<sent, fresh>>
  <2>b. /\ stack' \in Seq(Frames) /\ Len(stack') = Len(stack) - 1
        /\ \A i \in 1..Len(stack') : stack'[i] = stack[i] /\ stack'[i].pc = "pump"
        /\ stack' # <<>> => Top'.pc = "pump"
    <3>1. /\ stack' \in Seq(Frames) /\ Len(stack') = Len(stack) - 1
          /\ \A i \in 1..Len(stack') : stack'[i] = stack[i]
          /\ stack' # <<>> => Len(stack) > 1 /\ Top' = stack[Len(stack) - 1]
      BY <1>a, <1>6, PopFrame DEF RaiseInternalError
    <3>. QED
      BY <1>a, <3>1 DEF StackInv
  <2>c. \A i \in 1..Len(stack') : stack'[i].call \in Calls /\ stack'[i].call # Top.call
    BY <1>a, <2>b, Numbers, FrameCalls, SMTT(20) DEF StackInv, Calls
  <2>d. /\ outcome' = [outcome EXCEPT ![Top.call] = "returned"]
        /\ outcome'[Top.call] = "returned"
        /\ \A c \in Calls : c # Top.call => outcome'[c] = outcome[c]
        /\ sent' = None /\ reply' = None /\ fresh' = fresh
    BY <1>a, <1>6 DEF TypeOK, RaiseInternalError
  <2>e. given' \in [Calls -> Answers \cup {None}]
    BY <1>a, <1>6, ReturnedAnswer DEF TypeOK
  <2>1. TypeOK'
    BY <1>a, <1>x, <1>6, <2>b, <2>c, <2>d, <2>e DEF TypeOK
  <2>2. StackInv'
    <3>1. \A i \in 1..Len(stack') : i \in 1..Len(stack) /\ stack'[i] = stack[i] /\ stack'[i].pc = "pump"
      BY <1>a, <2>b
    <3>2. n' = n /\ client' = client /\ runs' = runs /\ Top.call <= n /\ n \in Nat
      BY <1>a, Numbers DEF StackInv
    <3>3. \A i \in 1..Len(stack') : outcome'[stack'[i].call] = "made" /\ stack'[i].call <= n
      BY <3>1, <2>c, <2>d DEF StackInv
    <3>4. \A i, j \in 1..Len(stack') : i < j => stack'[i].call < stack'[j].call
      BY <3>1 DEF StackInv
    <3>5. \A c \in Calls : c > n => outcome'[c] = "unmade" /\ runs[c] = 0
      BY <3>2, <2>d, <1>a DEF StackInv, Calls
    <3>. QED
      BY <3>1, <3>2, <3>3, <3>4, <3>5, <1>a, SMTT(20) DEF StackInv
  <2>3. MessageInv'
    BY <1>a, <1>x, <1>6, <2>b, <2>c, <2>d, <2>e DEF MessageInv
  <2>4. SeqInv'
    BY <1>a, <1>x, <1>6, <2>b, <2>c, <2>d, <2>e DEF SeqInv
  <2>5. ServerInv'
    BY <1>a, <1>x, <1>6, <2>b, <2>c, <2>d, <2>e DEF TypeOK, SeqInv, ServerInv
  <2>6. ReplyInv'
    BY <1>a, <1>x, <1>6, <2>b, <2>c, <2>d, <2>e DEF MessageInv, ReplyInv
  <2>7. ResultInv'
    BY <1>a, <1>x, <1>6, <2>b, <2>c, <2>d, <2>e DEF ResultInv
  <2>8. FailsForACause'
    BY <1>a, <1>x, <1>6, <2>b, <2>c, <2>d, <2>e DEF FailsForACause
  <2>. QED
    BY <2>1, <2>2, <2>3, <2>4, <2>5, <2>6, <2>7, <2>8
<1>7. Top.pc = "status" /\ reply.ok /\ reply.value \notin {"true", "false"}
      /\ ~StillRunning(reply.value) => Top.call \in excused
  BY <1>a DEF ReplyInv, StillRunning
<1>8. ~reply.ok => Top.call \in excused
  BY <1>a DEF ReplyInv
<1>. QED
  BY <1>1, <1>2, <1>3, <1>4, <1>5, <1>6, <1>7, <1>8, <1>a DEF GotReply

\* StopSpawnServerProcess keeps the invariant.
LEMMA StopSpawnServerProcessInv ==
    ASSUME SpawnInv, StopSpawnServerProcess
    PROVE  SpawnInv'
<1>. USE DEF SpawnInv, StopSpawnServerProcess, clientVars, queueVars, serverVars, callVars
<1>0. stack' = stack /\ Top' = Top
  BY DEF Top
<1>1. TypeOK'
  BY <1>0 DEF TypeOK
<1>2. StackInv'
  BY <1>0 DEF StackInv
<1>3. MessageInv'
  BY <1>0 DEF MessageInv
<1>4. SeqInv'
  BY <1>0 DEF TypeOK, SeqInv, StackInv
<1>5. ServerInv'
  BY <1>0 DEF TypeOK, SeqInv, ServerInv
<1>6. ReplyInv'
  BY <1>0 DEF MessageInv, ReplyInv
<1>7. ResultInv'
  BY <1>0 DEF ResultInv
<1>8. FailsForACause'
  BY <1>0 DEF FailsForACause
<1>. QED
  BY <1>1, <1>2, <1>3, <1>4, <1>5, <1>6, <1>7, <1>8

\* ClientEnds keeps the invariant.
LEMMA ClientEndsInv ==
    ASSUME SpawnInv, ClientEnds
    PROVE  SpawnInv'
<1>. USE DEF SpawnInv, ClientEnds, clientVars, queueVars, serverVars, callVars
<1>0. stack' = stack /\ Top' = Top
  BY DEF Top
<1>1. TypeOK'
  BY <1>0 DEF TypeOK
<1>2. StackInv'
  BY <1>0 DEF StackInv
<1>3. MessageInv'
  BY <1>0 DEF MessageInv
<1>4. SeqInv'
  BY <1>0 DEF TypeOK, SeqInv, StackInv
<1>5. ServerInv'
  BY <1>0 DEF TypeOK, SeqInv, ServerInv
<1>6. ReplyInv'
  BY <1>0 DEF MessageInv, ReplyInv
<1>7. ResultInv'
  BY <1>0 DEF ResultInv
<1>8. FailsForACause'
  BY <1>0 DEF FailsForACause
<1>. QED
  BY <1>1, <1>2, <1>3, <1>4, <1>5, <1>6, <1>7, <1>8

\* ClientDies keeps the invariant.
LEMMA ClientDiesInv ==
    ASSUME SpawnInv, ClientDies
    PROVE  SpawnInv'
<1>. USE DEF SpawnInv, ClientDies, Fault, clientVars, queueVars, serverVars, callVars
<1>0. stack' = stack /\ Top' = Top
  BY DEF Top
<1>1. TypeOK'
  BY <1>0, Numbers DEF TypeOK
<1>2. StackInv'
  BY <1>0 DEF StackInv
<1>3. MessageInv'
  BY <1>0 DEF MessageInv
<1>4. SeqInv'
  BY <1>0 DEF TypeOK, SeqInv, StackInv
<1>5. ServerInv'
  BY <1>0 DEF TypeOK, SeqInv, ServerInv
<1>6. ReplyInv'
  BY <1>0 DEF MessageInv, ReplyInv
<1>7. ResultInv'
  BY <1>0 DEF ResultInv
<1>8. FailsForACause'
  BY <1>0 DEF FailsForACause
<1>. QED
  BY <1>1, <1>2, <1>3, <1>4, <1>5, <1>6, <1>7, <1>8

\* HandleExec keeps the invariant.
LEMMA HandleExecInv ==
    ASSUME SpawnInv, HandleExec
    PROVE  SpawnInv'
<1>. USE DEF SpawnInv, clientVars, queueVars, serverVars, callVars
<1>a. /\ sent # None /\ sent.call = Top.call /\ Top.pc = "call"
      /\ client = "running" /\ stack # <<>> /\ reply = None /\ srv # "exec"
      /\ srv \in {"pump", "lastpump", "jobpump", "joblast"}
  BY DEF HandleExec, MessageInv, Pumping
<1>b. /\ stack' = stack /\ Top' = Top
      /\ Top.call = n /\ n \in Calls /\ n \in Nat /\ n <= MaxCalls
      /\ Len(stack) \in Nat \ {0} /\ Top = stack[Len(stack)]
      /\ seqNo < n /\ serving # n /\ runs[n] = 0 /\ outcome[n] = "made"
  <2>1. Len(stack) \in Nat \ {0} /\ Top = stack[Len(stack)] /\ Top.call \in Calls
    BY <1>a, TopFrame, Numbers
  <2>2. stack' = stack /\ Top' = Top
    BY DEF HandleExec, Top
  <2>3. Top.call = n /\ outcome[n] = "made"
    BY <2>1, <1>a DEF StackInv
  <2>4. seqNo < n /\ serving # n /\ runs[n] = 0
    BY <1>a DEF SeqInv
  <2>. QED
    BY <2>1, <2>2, <2>3, <2>4, Numbers
<1>1. CASE AlreadyInCall /\ Refuse
  <2>a. /\ UNCHANGED <<clientVars, posted, fresh, serverVars, callVars, faults>>
        /\ sent' = None /\ ~reply'.ok /\ reply'.ok \in BOOLEAN
        /\ excused' = excused \cup {Top.call}
    BY <1>1, <1>a DEF HandleExec, Refuse, Reply
  <2>1. TypeOK'
    BY <1>a, <1>b, <1>1, <2>a, ZenonT(30) DEF TypeOK
  <2>2. StackInv'
    BY <1>a, <1>b, <1>1, <2>a DEF StackInv
  <2>3. MessageInv'
    BY <1>a, <1>b, <1>1, <2>a DEF MessageInv
  <2>4. SeqInv'
    BY <1>a, <1>b, <1>1, <2>a DEF SeqInv
  <2>5. ServerInv'
    BY <1>a, <1>b, <1>1, <2>a DEF TypeOK, SeqInv, ServerInv
  <2>6. ReplyInv'
    BY <1>a, <1>b, <1>1, <2>a DEF MessageInv, ReplyInv
  <2>7. ResultInv'
    BY <1>a, <1>b, <1>1, <2>a DEF ResultInv
  <2>8. FailsForACause'
    BY <1>a, <1>b, <1>1, <2>a DEF FailsForACause
  <2>. QED
    BY <2>1, <2>2, <2>3, <2>4, <2>5, <2>6, <2>7, <2>8
<1>2. CASE ~AlreadyInCall /\ Accept
  <2>a. /\ UNCHANGED <<clientVars, posted, fresh, exitNow, job, callVars, faults>>
        /\ sent' = None /\ reply'.ok /\ reply'.ok \in BOOLEAN /\ reply'.value = seqNo'
        /\ result' = None /\ callStatus' = "running" /\ srv' = "exec" /\ serving' = n
        /\ excused' = excused \cup Outer(n)
    BY <1>2, <1>a, <1>b DEF HandleExec, Accept, Reply
  <2>b. seqNo' = seqNo + 1 /\ seqNo' \in 1..n /\ seqNo' \in 0..SeqMod-1
    <3>1. seqNo' = (seqNo + 1) % SeqMod
      BY <1>2, Zenon DEF Accept
    <3>2. seqNo \in Nat /\ SeqMod \in Nat /\ seqNo + 1 < SeqMod /\ n \in Nat /\ seqNo < n
      BY <1>b, Numbers
    <3>. HIDE DEF SpawnInv
    <3>3. seqNo + 1 \in Nat
      BY <3>2
    <3>4. (seqNo + 1) % SeqMod = seqNo + 1
      BY <3>2, <3>3, SmallMod, Zenon
    <3>. QED
      BY <3>1, <3>2, <3>4
  <2>c. /\ \A i \in 1..Len(stack) : i < Len(stack) => stack[i].call \in excused' /\ stack[i].call < n
        /\ Outer(n) \subseteq Calls
    <3>1. \A i \in 1..Len(stack) : i < Len(stack) => stack[i].call < n
      BY <1>b DEF StackInv
    <3>2. \A i \in 1..Len(stack) : stack[i].call \in Calls
      BY Numbers, FrameCalls
    <3>3. n \in Nat /\ \A c \in Calls : c \in Nat
      BY Numbers DEF Calls
    <3>4. \A i \in 1..Len(stack) : i < Len(stack) => stack[i].call \in Outer(n)
      BY <3>1, <3>2, <3>3 DEF Outer
    <3>. QED
      BY <3>1, <3>2, <3>4, <2>a DEF Outer
  <2>1. TypeOK'
    BY <1>a, <1>b, <1>2, <2>a, <2>b, <2>c DEF TypeOK
  <2>2. StackInv'
    BY <1>a, <1>b, <1>2, <2>a, <2>b, <2>c DEF StackInv
  <2>3. MessageInv'
    BY <1>a, <1>b, <1>2, <2>a, <2>b, <2>c DEF MessageInv
  <2>4. SeqInv'
    <3>1. \A i \in 1..Len(stack) : stack[i].pc # "call" =>
             stack[i].seq < seqNo' /\ stack[i].seq \in 1..seqNo' /\ stack[i].call \in excused'
      <4>1. \A i \in 1..Len(stack) : stack[i].pc # "call" => stack[i].seq \in 1..seqNo
        BY DEF SeqInv
      <4>2. \A i \in 1..Len(stack) : stack[i].pc # "call" => i < Len(stack)
        BY <1>a, <1>b
      <4>. QED
        BY <4>1, <4>2, <2>b, <2>c, Numbers
    <3>2. n' = n /\ serving' = n /\ callStatus' = "running" /\ sent' = None /\ stack' = stack
          /\ n \in 1..n /\ seqNo' <= n
      BY <1>b, <2>a, <2>b, Numbers DEF Calls
    <3>. QED
      BY <2>b, <3>1, <3>2 DEF SeqInv
  <2>5. ServerInv'
    BY <1>a, <1>b, <1>2, <2>a, <2>b, <2>c DEF TypeOK, SeqInv, ServerInv
  <2>6. ReplyInv'
    BY <1>a, <1>b, <1>2, <2>a, <2>b, <2>c DEF MessageInv, ReplyInv
  <2>7. ResultInv'
    BY <1>a, <1>b, <1>2, <2>a, <2>b, <2>c DEF ResultInv
  <2>8. FailsForACause'
    BY <1>a, <1>b, <1>2, <2>a, <2>b, <2>c DEF FailsForACause
  <2>. QED
    BY <2>1, <2>2, <2>3, <2>4, <2>5, <2>6, <2>7, <2>8
<1>. QED
  BY <1>1, <1>2, <1>a DEF HandleExec

\* HandleQuery keeps the invariant.
LEMMA HandleQueryInv ==
    ASSUME SpawnInv, HandleQuery
    PROVE  SpawnInv'
<1>. USE DEF SpawnInv, clientVars, queueVars, serverVars, callVars
<1>a. /\ Top.pc \in {"status", "lo", "hi"} /\ sent.op = Top.pc /\ sent.seq = Top.seq
      /\ client = "running" /\ stack # <<>> /\ reply = None /\ srv # "exec"
  <2>1. sent # None /\ sent.op # "exec" /\ srv # "exec"
    BY DEF HandleQuery, Pumping
  <2>. QED
    BY <2>1 DEF MessageInv
<1>b. /\ stack' = stack /\ Top' = Top /\ Len(stack) \in 1..Len(stack) /\ Top = stack[Len(stack)]
      /\ sent' = None /\ reply'.ok \in BOOLEAN /\ (reply'.ok <=> Top.seq = seqNo)
      /\ UNCHANGED <<clientVars, posted, fresh, serverVars, callVars, excused, faults>>
  <2>1. Len(stack) \in 1..Len(stack) /\ Top = stack[Len(stack)]
    BY <1>a, TopFrame, Numbers
  <2>2. UNCHANGED <<clientVars, posted, fresh, serverVars, callVars, excused, faults>>
    BY DEF HandleQuery
  <2>3. sent' = None /\ reply'.ok \in BOOLEAN /\ (reply'.ok <=> Top.seq = seqNo)
    <3>1. CASE Top.seq = seqNo
      <4>1. sent' = None /\ reply'.ok = TRUE
        BY <1>a, <3>1 DEF HandleQuery, RightSequence, Reply
      <4>. QED
        BY <3>1, <4>1
    <3>2. CASE Top.seq # seqNo
      <4>1. ~RightSequence(sent)
        BY <1>a, <3>2 DEF RightSequence
      <4>2. Reply(FALSE, "invalid sequence number")
        BY <4>1 DEF HandleQuery
      <4>3. sent' = None /\ reply'.ok = FALSE
        BY <4>2 DEF Reply
      <4>. QED
        BY <3>2, <4>3
    <3>. QED
      BY <3>1, <3>2
  <2>. QED
    BY <2>1, <2>2, <2>3 DEF Top
<1>c. ASSUME Top.seq = seqNo
      PROVE  /\ Top.pc = "status" => reply'.value = callStatus
             /\ Top.pc = "lo" /\ result # None => reply'.value = result.lo
             /\ Top.pc = "hi" /\ result # None => reply'.value = result.hi
  <2>1. CASE Top.pc = "status"
    <3>1. reply' = [ok |-> TRUE, value |-> callStatus]
      BY <1>a, <1>c, <2>1 DEF HandleQuery, RightSequence, Reply
    <3>. QED
      BY <2>1, <3>1
  <2>2. CASE Top.pc = "lo" /\ result # None
    <3>1. reply' = [ok |-> TRUE, value |-> result.lo]
      BY <1>a, <1>c, <2>2 DEF HandleQuery, RightSequence, Reply
    <3>. QED
      BY <2>2, <3>1
  <2>3. CASE Top.pc = "hi" /\ result # None
    <3>1. reply' = [ok |-> TRUE, value |-> result.hi]
      BY <1>a, <1>c, <2>3 DEF HandleQuery, RightSequence, Reply
    <3>. QED
      BY <2>3, <3>1
  <2>. QED
    BY <1>a, <2>1, <2>2, <2>3
<1>d. Top.seq \in 1..seqNo /\ (Top.seq = seqNo => Top.call = serving) /\ callStatus # "none"
      /\ (Top.seq # seqNo => Top.call \in excused)
  BY <1>a, <1>b, Numbers DEF SeqInv
<1>1. TypeOK' /\ StackInv'
  BY <1>b DEF TypeOK, StackInv
<1>2. SeqInv' /\ ServerInv' /\ ResultInv' /\ FailsForACause'
  BY <1>b, <1>a DEF TypeOK, SeqInv, ServerInv, ResultInv, FailsForACause
<1>3. ReplyInv'
  <2>r. Top.pc \in {"lo", "hi"} => Top.seq = seqNo /\ result # None
    BY <1>a, Numbers DEF ResultInv, ServerInv
  <2>s. callStatus \in {"running", "true", "false", "exception"}
    BY <1>d DEF TypeOK
  <2>e. callStatus = "exception" => serving \in excused
    BY DEF ServerInv
  <2>u. Top' = Top /\ seqNo' = seqNo /\ callStatus' = callStatus /\ excused' = excused
        /\ result' = result /\ serving' = serving
    BY <1>b
  <2>. QED
    BY <1>a, <1>b, <1>c, <1>d, <2>r, <2>s, <2>e, <2>u DEF ReplyInv
<1>4. MessageInv'
  <2>1. sent' = None /\ reply'.ok \in BOOLEAN
    BY <1>b
  <2>2. stack' # <<>> /\ Top'.pc # "pump"
    BY <1>b, <1>a
  <2>. QED
    BY <2>1, <2>2 DEF MessageInv
<1>. QED
  BY <1>1, <1>2, <1>3, <1>4

\* HandleExitNow keeps the invariant.
LEMMA HandleExitNowInv ==
    ASSUME SpawnInv, HandleExitNow
    PROVE  SpawnInv'
<1>. USE DEF SpawnInv, HandleExitNow, Pumping, clientVars, queueVars, serverVars, callVars
<1>0. stack' = stack /\ Top' = Top
  BY DEF Top
<1>1. TypeOK'
  BY <1>0 DEF TypeOK
<1>2. StackInv'
  BY <1>0 DEF StackInv
<1>3. MessageInv'
  BY <1>0 DEF MessageInv
<1>4. SeqInv'
  BY <1>0 DEF TypeOK, SeqInv, StackInv
<1>5. ServerInv'
  BY <1>0 DEF TypeOK, SeqInv, ServerInv
<1>6. ReplyInv'
  BY <1>0 DEF MessageInv, ReplyInv
<1>7. ResultInv'
  BY <1>0 DEF ResultInv
<1>8. FailsForACause'
  BY <1>0 DEF FailsForACause
<1>. QED
  BY <1>1, <1>2, <1>3, <1>4, <1>5, <1>6, <1>7, <1>8

\* Exec keeps the invariant.
LEMMA ExecInv ==
    ASSUME SpawnInv, Exec
    PROVE  SpawnInv'
<1>. USE DEF SpawnInv, Exec, clientVars, queueVars, serverVars, callVars
<1>0. stack' = stack /\ Top' = Top
  BY DEF Top
<1>a. callStatus = "running" /\ serving \in 1..n /\ serving \in Calls
  <2>1. callStatus = "running" /\ serving \in 1..n
    BY DEF ServerInv, SeqInv
  <2>. QED
    BY <2>1, Numbers DEF Calls
<1>b. /\ stack # <<>> => Top.pc \notin {"lo", "hi"}
      /\ reply # None /\ reply.ok /\ Top.pc = "status" => reply.value \notin {"true", "false"}
  BY <1>a DEF ResultInv, ReplyInv
<1>1. TypeOK'
  <2>1. runs' \in [Calls -> Nat] /\ answer' \in [Calls -> Answers \cup {None}]
    BY <1>a DEF TypeOK
  <2>2. /\ srv' \in {"pump", "jobpump"} /\ job' \in {"none", "running", "ended"}
        /\ callStatus' \in {"running", "true", "false"} /\ result' \in Answers \cup {None}
    BY <1>a DEF TypeOK
  <2>. QED
    BY <2>1, <2>2 DEF TypeOK
<1>2. StackInv'
  BY <1>0, <1>a DEF TypeOK, StackInv
<1>3. MessageInv'
  BY <1>0, <1>a, <1>b DEF MessageInv
<1>4. SeqInv'
  <2>1. callStatus' # "none"
    BY <1>a
  <2>2. sent # None /\ Top.pc = "call" => runs'[n] = runs[n]
    BY <1>a DEF TypeOK, SeqInv
  <2>. QED
    BY <1>0, <1>a, <2>1, <2>2 DEF SeqInv
<1>5. ServerInv'
  BY <1>0, <1>a, <1>b DEF TypeOK, SeqInv, ServerInv
<1>6. ReplyInv'
  BY <1>0, <1>a, <1>b DEF MessageInv, ReplyInv
<1>7. ResultInv'
  BY <1>0, <1>a, <1>b DEF ResultInv
<1>8. FailsForACause'
  BY <1>0, <1>a, <1>b DEF FailsForACause
<1>. QED
  BY <1>1, <1>2, <1>3, <1>4, <1>5, <1>6, <1>7, <1>8

\* ExecRaises keeps the invariant.
LEMMA ExecRaisesInv ==
    ASSUME SpawnInv, ExecRaises
    PROVE  SpawnInv'
<1>. USE DEF SpawnInv, ExecRaises, Fault, clientVars, queueVars, serverVars, callVars
<1>0. stack' = stack /\ Top' = Top
  BY DEF Top
<1>a. callStatus = "running" /\ serving \in 1..n /\ serving \in Calls
  <2>1. callStatus = "running" /\ serving \in 1..n
    BY DEF ServerInv, SeqInv
  <2>. QED
    BY <2>1, Numbers DEF Calls
<1>b. /\ stack # <<>> => Top.pc \notin {"lo", "hi"}
      /\ reply # None /\ reply.ok /\ Top.pc = "status" => reply.value \notin {"true", "false"}
  BY <1>a DEF ResultInv, ReplyInv
<1>1. TypeOK'
  <2>1. faults' \in 0..MaxFaults
    BY Numbers DEF TypeOK
  <2>2. excused' \subseteq Calls
    BY <1>a DEF TypeOK
  <2>. QED
    BY <2>1, <2>2 DEF TypeOK
<1>2. StackInv'
  BY <1>0, <1>a, <1>b DEF StackInv
<1>3. MessageInv'
  BY <1>0, <1>a, <1>b DEF MessageInv
<1>4. SeqInv'
  BY <1>0, <1>a, <1>b DEF TypeOK, SeqInv, StackInv
<1>5. ServerInv'
  BY <1>0, <1>a, <1>b DEF TypeOK, SeqInv, ServerInv
<1>6. ReplyInv'
  BY <1>0, <1>a, <1>b DEF MessageInv, ReplyInv
<1>7. ResultInv'
  BY <1>0, <1>a, <1>b DEF ResultInv
<1>8. FailsForACause'
  BY <1>0, <1>a, <1>b DEF FailsForACause
<1>. QED
  BY <1>1, <1>2, <1>3, <1>4, <1>5, <1>6, <1>7, <1>8

\* JobEnds keeps the invariant.
LEMMA JobEndsInv ==
    ASSUME SpawnInv, JobEnds
    PROVE  SpawnInv'
<1>. USE DEF SpawnInv, JobEnds, clientVars, queueVars, serverVars, callVars
<1>0. stack' = stack /\ Top' = Top
  BY DEF Top
<1>1. TypeOK'
  BY <1>0 DEF TypeOK
<1>2. StackInv'
  BY <1>0 DEF StackInv
<1>3. MessageInv'
  BY <1>0 DEF MessageInv
<1>4. SeqInv'
  BY <1>0 DEF TypeOK, SeqInv, StackInv
<1>5. ServerInv'
  BY <1>0 DEF TypeOK, SeqInv, ServerInv
<1>6. ReplyInv'
  BY <1>0 DEF MessageInv, ReplyInv
<1>7. ResultInv'
  BY <1>0 DEF ResultInv
<1>8. FailsForACause'
  BY <1>0 DEF FailsForACause
<1>. QED
  BY <1>1, <1>2, <1>3, <1>4, <1>5, <1>6, <1>7, <1>8

\* JobPumped keeps the invariant.
LEMMA JobPumpedInv ==
    ASSUME SpawnInv, JobPumped
    PROVE  SpawnInv'
<1>. USE DEF SpawnInv, JobPumped, clientVars, queueVars, serverVars, callVars
<1>0. stack' = stack /\ Top' = Top
  BY DEF Top
<1>1. TypeOK'
  BY <1>0 DEF TypeOK
<1>2. StackInv'
  BY <1>0 DEF StackInv
<1>3. MessageInv'
  BY <1>0 DEF MessageInv
<1>4. SeqInv'
  BY <1>0 DEF TypeOK, SeqInv, StackInv
<1>5. ServerInv'
  BY <1>0 DEF TypeOK, SeqInv, ServerInv
<1>6. ReplyInv'
  BY <1>0 DEF MessageInv, ReplyInv
<1>7. ResultInv'
  BY <1>0 DEF ResultInv
<1>8. FailsForACause'
  BY <1>0 DEF FailsForACause
<1>. QED
  BY <1>1, <1>2, <1>3, <1>4, <1>5, <1>6, <1>7, <1>8

\* JobWaited keeps the invariant.
LEMMA JobWaitedInv ==
    ASSUME SpawnInv, JobWaited
    PROVE  SpawnInv'
<1>. USE DEF SpawnInv, JobWaited, clientVars, queueVars, serverVars, callVars
<1>0. stack' = stack /\ Top' = Top
  BY DEF Top
<1>1. TypeOK'
  BY <1>0 DEF TypeOK
<1>2. StackInv'
  BY <1>0 DEF StackInv
<1>3. MessageInv'
  BY <1>0 DEF MessageInv
<1>4. SeqInv'
  BY <1>0 DEF TypeOK, SeqInv, StackInv
<1>5. ServerInv'
  BY <1>0 DEF TypeOK, SeqInv, ServerInv
<1>6. ReplyInv'
  BY <1>0 DEF MessageInv, ReplyInv
<1>7. ResultInv'
  BY <1>0 DEF ResultInv
<1>8. FailsForACause'
  BY <1>0 DEF FailsForACause
<1>. QED
  BY <1>1, <1>2, <1>3, <1>4, <1>5, <1>6, <1>7, <1>8

\* ExecReturns keeps the invariant.
LEMMA ExecReturnsInv ==
    ASSUME SpawnInv, ExecReturns
    PROVE  SpawnInv'
<1>. USE DEF SpawnInv, ExecReturns, clientVars, queueVars, serverVars, callVars
<1>0. stack' = stack /\ Top' = Top
  BY DEF Top
<1>s. callStatus = "running" /\ serving \in 1..n /\ serving \in Calls
  <2>1. callStatus = "running" /\ serving \in 1..n
    BY DEF ServerInv, SeqInv
  <2>. QED
    BY <2>1, Numbers DEF Calls
<1>a. /\ callStatus = "running" /\ serving \in 1..n /\ serving \in Calls
      /\ runs[serving] = 1 /\ answer[serving] \in Answers /\ answer[serving].ok
  BY <1>s DEF ServerInv
<1>b. /\ stack # <<>> => Top.pc \notin {"lo", "hi"}
      /\ reply # None /\ reply.ok /\ Top.pc = "status" => reply.value \notin {"true", "false"}
  BY <1>a DEF ResultInv, ReplyInv
<1>1. TypeOK'
  BY <1>a DEF TypeOK
<1>2. StackInv'
  BY <1>0, <1>s, <1>a, <1>b DEF StackInv
<1>3. MessageInv'
  BY <1>0, <1>s, <1>a, <1>b DEF MessageInv
<1>4. SeqInv'
  BY <1>0, <1>s, <1>a, <1>b DEF TypeOK, SeqInv, StackInv
<1>5. ServerInv'
  BY <1>0, <1>s, <1>a, <1>b DEF TypeOK, SeqInv, ServerInv
<1>6. ReplyInv'
  BY <1>0, <1>s, <1>a, <1>b DEF MessageInv, ReplyInv
<1>7. ResultInv'
  BY <1>0, <1>s, <1>a, <1>b DEF ResultInv
<1>8. FailsForACause'
  BY <1>0, <1>s, <1>a, <1>b DEF FailsForACause
<1>. QED
  BY <1>1, <1>2, <1>3, <1>4, <1>5, <1>6, <1>7, <1>8

\* Pumped keeps the invariant.
LEMMA PumpedInv ==
    ASSUME SpawnInv, Pumped
    PROVE  SpawnInv'
<1>. USE DEF SpawnInv, Pumped, clientVars, queueVars, serverVars, callVars
<1>0. stack' = stack /\ Top' = Top
  BY DEF Top
<1>1. TypeOK'
  BY <1>0 DEF TypeOK
<1>2. StackInv'
  BY <1>0 DEF StackInv
<1>3. MessageInv'
  BY <1>0 DEF MessageInv
<1>4. SeqInv'
  BY <1>0 DEF TypeOK, SeqInv, StackInv
<1>5. ServerInv'
  BY <1>0 DEF TypeOK, SeqInv, ServerInv
<1>6. ReplyInv'
  BY <1>0 DEF MessageInv, ReplyInv
<1>7. ResultInv'
  BY <1>0 DEF ResultInv
<1>8. FailsForACause'
  BY <1>0 DEF FailsForACause
<1>. QED
  BY <1>1, <1>2, <1>3, <1>4, <1>5, <1>6, <1>7, <1>8

\* CheckExitNow keeps the invariant.
LEMMA CheckExitNowInv ==
    ASSUME SpawnInv, CheckExitNow
    PROVE  SpawnInv'
<1>. USE DEF SpawnInv, CheckExitNow, clientVars, queueVars, serverVars, callVars
<1>0. stack' = stack /\ Top' = Top
  BY DEF Top
<1>1. TypeOK'
  BY <1>0 DEF TypeOK
<1>2. StackInv'
  BY <1>0 DEF StackInv
<1>3. MessageInv'
  BY <1>0 DEF MessageInv
<1>4. SeqInv'
  BY <1>0 DEF TypeOK, SeqInv, StackInv
<1>5. ServerInv'
  BY <1>0 DEF TypeOK, SeqInv, ServerInv
<1>6. ReplyInv'
  BY <1>0 DEF MessageInv, ReplyInv
<1>7. ResultInv'
  BY <1>0 DEF ResultInv
<1>8. FailsForACause'
  BY <1>0 DEF FailsForACause
<1>. QED
  BY <1>1, <1>2, <1>3, <1>4, <1>5, <1>6, <1>7, <1>8

\* Waited keeps the invariant.
LEMMA WaitedInv ==
    ASSUME SpawnInv, Waited
    PROVE  SpawnInv'
<1>. USE DEF SpawnInv, Waited, clientVars, queueVars, serverVars, callVars
<1>0. stack' = stack /\ Top' = Top
  BY DEF Top
<1>1. TypeOK'
  BY <1>0, ZenonT(30) DEF TypeOK
<1>2. StackInv'
  BY <1>0 DEF StackInv
<1>3. MessageInv'
  BY <1>0 DEF MessageInv
<1>4. SeqInv'
  BY <1>0 DEF TypeOK, SeqInv, StackInv
<1>5. ServerInv'
  BY <1>0 DEF TypeOK, SeqInv, ServerInv
<1>6. ReplyInv'
  BY <1>0 DEF MessageInv, ReplyInv
<1>7. ResultInv'
  BY <1>0 DEF ResultInv
<1>8. FailsForACause'
  BY <1>0 DEF FailsForACause
<1>. QED
  BY <1>1, <1>2, <1>3, <1>4, <1>5, <1>6, <1>7, <1>8

\* ServerEnds keeps the invariant.
LEMMA ServerEndsInv ==
    ASSUME SpawnInv, ServerEnds
    PROVE  SpawnInv'
<1>. USE DEF SpawnInv, ServerEnds, clientVars, queueVars, serverVars, callVars
<1>0. stack' = stack /\ Top' = Top
  BY DEF Top
<1>1. TypeOK'
  BY <1>0 DEF TypeOK
<1>2. StackInv'
  BY <1>0 DEF StackInv
<1>3. MessageInv'
  BY <1>0 DEF MessageInv
<1>4. SeqInv'
  BY <1>0 DEF TypeOK, SeqInv, StackInv
<1>5. ServerInv'
  BY <1>0 DEF TypeOK, SeqInv, ServerInv
<1>6. ReplyInv'
  BY <1>0 DEF MessageInv, ReplyInv
<1>7. ResultInv'
  BY <1>0 DEF ResultInv
<1>8. FailsForACause'
  BY <1>0 DEF FailsForACause
<1>. QED
  BY <1>1, <1>2, <1>3, <1>4, <1>5, <1>6, <1>7, <1>8

\* ServerDies keeps the invariant.
LEMMA ServerDiesInv ==
    ASSUME SpawnInv, ServerDies
    PROVE  SpawnInv'
<1>. USE DEF SpawnInv, ServerDies, Fault, clientVars, queueVars, serverVars, callVars
<1>0. stack' = stack /\ Top' = Top
  BY DEF Top
<1>a. {stack[i].call : i \in 1..Len(stack)} \subseteq Calls
  BY FrameCalls DEF TypeOK
<1>1. TypeOK'
  BY <1>0, <1>a, Numbers DEF TypeOK
<1>2. StackInv'
  BY <1>0, <1>a DEF StackInv
<1>3. MessageInv'
  BY <1>0, <1>a DEF MessageInv
<1>4. SeqInv'
  BY <1>0, <1>a DEF TypeOK, SeqInv, StackInv
<1>5. ServerInv'
  BY <1>0, <1>a DEF TypeOK, SeqInv, ServerInv
<1>6. ReplyInv'
  BY <1>0, <1>a DEF MessageInv, ReplyInv
<1>7. ResultInv'
  BY <1>0, <1>a DEF ResultInv
<1>8. FailsForACause'
  BY <1>0, <1>a DEF FailsForACause
<1>. QED
  BY <1>1, <1>2, <1>3, <1>4, <1>5, <1>6, <1>7, <1>8

\* WindowGone keeps the invariant.
LEMMA WindowGoneInv ==
    ASSUME SpawnInv, WindowGone
    PROVE  SpawnInv'
<1>. USE DEF SpawnInv, WindowGone, Reply, clientVars, queueVars, serverVars, callVars
<1>0. stack' = stack /\ Top' = Top
  BY DEF Top
<1>a. Top.call \in Calls /\ stack # <<>> /\ reply = None
  BY TopFrame DEF TypeOK, MessageInv
<1>b. sent' = None /\ ~reply'.ok /\ reply'.ok \in BOOLEAN /\ srv = "ended"
      /\ excused' = excused \cup {Top.call}
  OBVIOUS
<1>1. TypeOK'
  BY <1>0, <1>a, <1>b DEF TypeOK
<1>2. StackInv'
  BY <1>0, <1>a, <1>b DEF StackInv
<1>3. MessageInv'
  BY <1>0, <1>a, <1>b DEF MessageInv
<1>4. SeqInv'
  BY <1>0, <1>a, <1>b DEF TypeOK, SeqInv, StackInv
<1>5. ServerInv'
  BY <1>0, <1>a, <1>b DEF TypeOK, SeqInv, ServerInv
<1>6. ReplyInv'
  BY <1>0, <1>a, <1>b DEF MessageInv, ReplyInv
<1>7. ResultInv'
  BY <1>0, <1>a, <1>b DEF ResultInv
<1>8. FailsForACause'
  BY <1>0, <1>a, <1>b DEF FailsForACause
<1>. QED
  BY <1>1, <1>2, <1>3, <1>4, <1>5, <1>6, <1>7, <1>8

-------------------------------------------------------------------------------
(* The initial state, the steps together, and the theorems.                *)

\* The invariant holds at first.
LEMMA InitInv == Init => SpawnInv
<1> SUFFICES ASSUME Init PROVE SpawnInv
  OBVIOUS
<1>. USE DEF Init
<1>1. TypeOK
  <2>1. 0 \in 0..SeqMod-1 /\ 0 \in 0..MaxCalls /\ 0 \in 0..MaxFaults
    BY SpawnAssumption
  <2>2. stack \in Seq(Frames) /\ excused \subseteq Calls
    OBVIOUS
  <2>. QED
    BY <2>1, <2>2 DEF TypeOK
<1>2. StackInv /\ MessageInv
  BY DEF StackInv, MessageInv
<1>3. SeqInv
  BY DEF SeqInv
<1>4. ServerInv /\ ReplyInv /\ ResultInv /\ FailsForACause
  BY DEF ServerInv, ReplyInv, ResultInv, FailsForACause
<1>. QED
  BY <1>1, <1>2, <1>3, <1>4 DEF SpawnInv

\* A step that changes nothing keeps the invariant.
LEMMA StutterInv == ASSUME SpawnInv, UNCHANGED vars PROVE SpawnInv'
<1>. USE DEF SpawnInv, vars, clientVars, queueVars, serverVars, callVars
<1>0. stack' = stack /\ Top' = Top
  BY DEF Top
<1>1. TypeOK' /\ StackInv' /\ MessageInv'
  BY <1>0 DEF TypeOK, StackInv, MessageInv
<1>2. SeqInv' /\ ServerInv' /\ ReplyInv' /\ ResultInv' /\ FailsForACause'
  BY <1>0 DEF SeqInv, ServerInv, ReplyInv, ResultInv, FailsForACause
<1>. QED
  BY <1>1, <1>2

\* Every step keeps the invariant.
LEMMA NextInv == SpawnInv /\ [Next]_vars => SpawnInv'
  BY StutterInv, CallSpawnServerInv, QueryStatusInv, GotReplyInv,
     StopSpawnServerProcessInv,
     ClientEndsInv, ClientDiesInv, HandleExecInv, HandleQueryInv, HandleExitNowInv, ExecInv,
     ExecRaisesInv, JobEndsInv, JobPumpedInv, JobWaitedInv, ExecReturnsInv, PumpedInv,
     CheckExitNowInv, WaitedInv, ServerEndsInv, ServerDiesInv, WindowGoneInv
     DEF Next, ClientStep, ServerStep

\* The invariant behind the theorems below: whose message is under way, what a
\* sequence number means, and what the server keeps (Setup.SpawnServer.pas).
THEOREM SpawnInvariant == Spec => []SpawnInv
  BY InitInv, NextInv, PTL DEF Spec

\* A call that fails was made during another, or had another made during it, or
\* met a fault of the server (CallSpawnServer, HandleExec).
THEOREM FailsOnlyForACause == Spec => []FailsForACause
<1>1. SpawnInv => FailsForACause
  BY DEF SpawnInv
<1>. QED
  BY <1>1, SpawnInvariant, PTL

\* Every step is one of RemoteCall on the calls, or leaves them alone.
LEMMA RemoteStep == SpawnInv /\ [Next]_vars => [Remote!Next]_(Remote!callVars)
<1> SUFFICES ASSUME SpawnInv, [Next]_vars PROVE [Remote!Next]_(Remote!callVars)
  OBVIOUS
<1>. USE DEF Remote!callVars
<1>1. CASE CallSpawnServer
  <2>1. n' \in Calls /\ outcome[n'] = "unmade" /\ n' = n + 1
    BY <1>1, Numbers DEF SpawnInv, CallSpawnServer, StackInv, Calls
  <2>2. outcome' = [outcome EXCEPT ![n'] = "made"] /\ UNCHANGED <<runs, answer, given>>
    BY <1>1, <2>1 DEF CallSpawnServer
  <2>. QED
    BY <2>1, <2>2 DEF Remote!Next, Remote!Make
<1>2. CASE Exec
  <2>1. serving \in Calls /\ outcome[serving] = "made" /\ runs[serving] = 0
    BY <1>2, Numbers DEF SpawnInv, Exec, ServerInv, SeqInv, Calls
  <2>2. PICK a \in Answers : answer' = [answer EXCEPT ![serving] = a]
    BY <1>2 DEF Exec
  <2>3. runs' = [runs EXCEPT ![serving] = 1] /\ UNCHANGED <<outcome, given>>
    BY <1>2, <2>1 DEF Exec
  <2>. QED
    BY <2>1, <2>2, <2>3 DEF Remote!Next, Remote!Execute
<1>3. CASE GotReply
  <2>1. /\ reply # None /\ stack # <<>> /\ Top.call \in Calls /\ outcome[Top.call] = "made"
        /\ UNCHANGED <<runs, answer>>
    <3>1. reply # None /\ stack # <<>> /\ UNCHANGED <<runs, answer>>
      BY <1>3 DEF GotReply, SpawnInv, MessageInv
    <3>2. Len(stack) \in 1..Len(stack) /\ Top = stack[Len(stack)] /\ Top.call \in Calls
      BY <3>1, TopFrame, Numbers DEF SpawnInv
    <3>. QED
      BY <3>1, <3>2 DEF SpawnInv, StackInv
  <2>2. CASE RaiseInternalError
    BY <2>1, <2>2 DEF RaiseInternalError, Remote!Next, Remote!Fail
  <2>3. CASE UNCHANGED <<outcome, given>>
    BY <2>1, <2>3
  <2>4. CASE /\ Top.pc = "hi" /\ reply.ok
             /\ outcome' = [outcome EXCEPT ![Top.call] = "returned"]
             /\ given' = [given EXCEPT ![Top.call] =
                              [ok |-> Top.ok, lo |-> Top.lo, hi |-> reply.value]]
    BY <2>1, <2>4, ReturnedAnswer DEF Remote!Next, Remote!Return
  <2>. QED
    BY <1>3, <2>2, <2>3, <2>4 DEF GotReply
<1>4. ASSUME ~CallSpawnServer, ~Exec, ~GotReply PROVE UNCHANGED <<outcome, runs,
                                                                  answer, given>>
  BY <1>4 DEF Next, ClientStep, ServerStep, vars, callVars, QueryStatus,
     StopSpawnServerProcess, ClientEnds, ClientDies, HandleExec, HandleQuery,
     HandleExitNow, ExecRaises, JobEnds, JobPumped, JobWaited, ExecReturns, Pumped,
     CheckExitNow, Waited, ServerEnds, ServerDies, WindowGone
<1>. QED
  BY <1>1, <1>2, <1>3, <1>4

\* The calls are those of RemoteCall: each is executed at most once, and what is
\* returned is what its own execution answered, although the server keeps one
\* result and calls are made within calls.
THEOREM ImplementsRemoteCall == Spec => CallSpec
<1>1. Init => Remote!Init
  BY DEF Init, Remote!Init
<1>. QED
  BY <1>1, SpawnInvariant, RemoteStep, PTL DEF Spec, CallSpec, Remote!Spec
===============================================================================
