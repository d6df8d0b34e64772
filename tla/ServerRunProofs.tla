--------------------------- MODULE ServerRunProofs ---------------------------
(***************************************************************************)
(* Proofs about ServerRun, for any visitors, drain limit and deadline.     *)
(***************************************************************************)
EXTENDS ServerRun, TLAPS

(* What a process has done at each stage: nothing before the port is       *)
(* bound, nothing served before Serve, nothing cut before the end.         *)
Quiet == ~collector /\ ~signalled /\ \A c \in Conns : conn[c] \in {"away", "refused"}

Stages ==
    /\ pc \in {"handler", "listen"} => Quiet /\ listener = "unbound"
    /\ pc \in {"handler", "listen", "notify", "launch"} => server = "off" /\ ~collector
    /\ pc \in {"handler", "listen", "notify"} => ~signalled
    /\ server = "off" => Active = {}
    /\ server = "closed" => pc \in {"drain", "exited"}
    /\ pc = "drain" => signalled /\ server # "serving"
    /\ pc # "exited" => \A c \in Conns : conn[c] # "cut"
    /\ pc = "exited" => listener = "closed"

(* In the drain every connection that is still served was accepted before  *)
(* it, and the time the drain has taken has been spent on one of them.     *)
DrainSpent ==
    pc = "drain" =>
        /\ \A c \in Active : age[c] >= drained
        /\ drained > 0 => \E c \in Conns : age[c] >= drained

NotYetDrained == pc \notin {"drain", "exited"} => drained = 0

IInv ==
    /\ TypeOK /\ Stages /\ DrainSpent /\ NotYetDrained
    /\ FailedStartSilent /\ CleanExit /\ ErrorIsGenuine

-----------------------------------------------------------------------------
LEMMA InitInv == Init => IInv
<1> SUFFICES ASSUME Init PROVE IInv
  OBVIOUS
<1>1. TypeOK
  <2>1. age \in [Conns -> 0 .. Longest] /\ drained \in 0 .. DrainLimit
    BY ServerAssumption DEF Init
  <2> QED BY <2>1 DEF Init, TypeOK
<1>2. Stages /\ DrainSpent /\ NotYetDrained
  BY DEF Init, Stages, Quiet, Active, DrainSpent, NotYetDrained
<1>3. FailedStartSilent /\ CleanExit /\ ErrorIsGenuine
  BY DEF Init, FailedStartSilent, CleanExit, ErrorIsGenuine
<1> QED BY <1>1, <1>2, <1>3 DEF IInv

(* The process ends: what the exit itself guarantees, and what is left to  *)
(* show of each way to end.                                                *)
LEMMA ExitInv ==
  ASSUME IInv, pc # "exited",
         NEW result \in {"failed start", "ok", "error", "killed"},
         Exit(result),
         result = "failed start" => Quiet,
         result = "ok" => signalled /\ Active = {},
         result = "killed" => Active = {},
         result = "error" /\ server # "failed" =>
            /\ \E c \in Conns : age[c] >= DrainLimit
            /\ \A c \in Active : age[c] >= DrainLimit
  PROVE  IInv'
<1> USE ServerAssumption DEF IInv, Exit, QueueReset, Active
<1>1. TypeOK'
  BY DEF TypeOK
<1>2. Stages' /\ DrainSpent' /\ NotYetDrained'
  BY DEF Stages, DrainSpent, NotYetDrained, TypeOK
<1>3. FailedStartSilent'
  BY DEF FailedStartSilent, Quiet, TypeOK
<1>4. CleanExit'
  BY DEF CleanExit, Stages, TypeOK
<1>5. ErrorIsGenuine'
  <2>1. ASSUME NEW c \in Conns, conn'[c] = "cut"
        PROVE  conn[c] = "active"
    BY <2>1 DEF Stages, TypeOK
  <2>2. CASE result = "error"
    BY <2>1, <2>2 DEF ErrorIsGenuine, TypeOK
  <2>3. CASE result # "error"
    <3>1. Active = {}
      BY <2>3 DEF Stages, Quiet
    <3> QED BY <2>1, <2>3, <3>1 DEF ErrorIsGenuine, TypeOK
  <2> QED BY <2>2, <2>3
<1> QED BY <1>1, <1>2, <1>3, <1>4, <1>5

(* One visitor's connection moves on, nothing else changes.                *)
LEMMA ConnInv ==
  ASSUME IInv, NEW c \in Conns, NEW from, NEW to, Becomes(c, from, to),
         to \in {"queued", "active", "answered", "late", "refused"},
         from # "cut",
         pc \in {"handler", "listen", "exited"} => to = "refused" /\ from = "away",
         to = "active" => server = "serving" /\ pc = "select"
  PROVE  IInv'
<1> USE ServerAssumption DEF IInv, Becomes, Active, TypeOK
<1>1. TypeOK'
  OBVIOUS
<1>2. Stages'
  BY DEF Stages, Quiet
<1>3. DrainSpent' /\ NotYetDrained'
  BY DEF DrainSpent, NotYetDrained
<1>4. FailedStartSilent'
  BY DEF FailedStartSilent
<1>5. CleanExit' /\ ErrorIsGenuine'
  BY DEF CleanExit, ErrorIsGenuine
<1> QED BY <1>1, <1>2, <1>3, <1>4, <1>5

LEMMA StepInv == IInv /\ [Next]_vars => IInv'
<1> SUFFICES ASSUME IInv, [Next]_vars PROVE IInv'
  OBVIOUS
<1> USE DEF IInv
<1>1. CASE HandlerFails \/ BindFails
  BY <1>1, ExitInv DEF HandlerFails, BindFails, Stages
<1>2. CASE ServeReturned
  BY <1>2, ExitInv DEF ServeReturned, Stages
<1>3. CASE DrainDone
  BY <1>3, ExitInv DEF DrainDone, Stages
<1>4. CASE DrainTimesOut
  <2>1. /\ \A c \in Active : age[c] >= DrainLimit
        /\ \E c \in Conns : age[c] >= DrainLimit
    BY <1>4, ServerAssumption DEF DrainTimesOut, DrainSpent
  <2> QED BY <1>4, <2>1, ExitInv DEF DrainTimesOut
<1>5. CASE Signal
  <2>1. CASE pc \in {"handler", "listen", "notify"}
    BY <1>5, <2>1, ExitInv DEF Signal, Stages
  <2>2. CASE pc \notin {"handler", "listen", "notify"}
    BY <1>5, <2>2 DEF Signal, serverVars, TypeOK, Stages, Quiet, Active, DrainSpent,
       NotYetDrained, FailedStartSilent, CleanExit, ErrorIsGenuine
  <2> QED BY <2>1, <2>2
<1>6. CASE HandlerReady \/ Bind \/ NotifyContext \/ Launch
  <2> USE <1>6 DEF HandlerReady, Bind, NotifyContext, Launch, Proceed
  <2>1. TypeOK'
    BY DEF TypeOK
  <2>2. Stages'
    BY DEF Stages, Quiet, Active
  <2>3. DrainSpent' /\ NotYetDrained'
    BY DEF DrainSpent, NotYetDrained
  <2>4. FailedStartSilent' /\ CleanExit' /\ ErrorIsGenuine'
    <3>1. status = "running" /\ status' = status
      BY DEF TypeOK
    <3>2. \A c \in Conns : conn'[c] # "cut"
      BY DEF Stages
    <3> QED BY <3>1, <3>2 DEF FailedStartSilent, CleanExit, ErrorIsGenuine
  <2> QED BY <2>1, <2>2, <2>3, <2>4
<1>7. CASE BeginShutdown \/ ServeBegins \/ AcceptFails
  <2>1. \A c \in Conns : conn'[c] \in {conn[c], QueueReset[c]}
    BY <1>7 DEF BeginShutdown, ServeBegins, AcceptFails, TypeOK, QueueReset
  <2>2. TypeOK'
    BY <1>7 DEF BeginShutdown, ServeBegins, AcceptFails, TypeOK, QueueReset
  <2>3. Active' = Active
    BY <1>7 DEF BeginShutdown, ServeBegins, AcceptFails, Active, QueueReset
  <2>4. Stages'
    BY <1>7, <2>1, <2>3
       DEF BeginShutdown, ServeBegins, AcceptFails, TypeOK, Stages, Quiet, QueueReset
  <2>5. age' = age /\ drained' = drained /\ (pc' = "drain" => drained = 0 \/ pc = "drain")
    BY <1>7 DEF BeginShutdown, ServeBegins, AcceptFails, NotYetDrained
  <2>7. (pc = "drain" => pc' = "drain") /\ pc # "exited"
    BY <1>7 DEF BeginShutdown, ServeBegins, AcceptFails
  <2>8. \A c \in Conns : age[c] >= 0
    <3>1. \A c \in Conns : age[c] \in 0 .. Longest
      BY DEF TypeOK
    <3> QED BY <3>1, ServerAssumption
  <2>9. DrainSpent'
    <3>1. CASE pc = "drain"
      BY <2>3, <2>5, <3>1 DEF DrainSpent
    <3>2. CASE pc # "drain"
      BY <2>3, <2>5, <2>8, <3>2 DEF DrainSpent, Active
    <3> QED BY <3>1, <3>2
  <2>10. NotYetDrained'
    BY <1>7 DEF BeginShutdown, ServeBegins, AcceptFails, NotYetDrained
  <2>6. FailedStartSilent' /\ CleanExit' /\ ErrorIsGenuine'
    BY <1>7, <2>1 DEF BeginShutdown, ServeBegins, AcceptFails, TypeOK, QueueReset,
       Stages, FailedStartSilent, CleanExit, ErrorIsGenuine
  <2> QED BY <2>2, <2>4, <2>6, <2>9, <2>10
<1>8. ASSUME NEW c \in Conns, Connect(c) \/ Accept(c) \/ Answer(c) \/ TimedOut(c)
      PROVE  IInv'
  <2>1. CASE Connect(c)
    BY <2>1, ConnInv DEF Connect, Stages
  <2>2. CASE Accept(c)
    BY <2>2, ConnInv DEF Accept
  <2>3. CASE Answer(c) \/ TimedOut(c)
    <3>1. pc \notin {"handler", "listen"}
      BY <2>3 DEF Answer, TimedOut, Becomes, Stages, Quiet
    <3> QED BY <2>3, <3>1, ConnInv DEF Answer, TimedOut
  <2> QED BY <1>8, <2>1, <2>2, <2>3
<1>9. CASE Advance
  <2>1. /\ \A c \in Conns : /\ age'[c] \in 0 .. Longest /\ age'[c] >= age[c]
                            /\ c \in Active => age'[c] = age[c] + 1
        /\ age' \in [Conns -> 0 .. Longest]
    <3>1. \A c \in Conns : IF c \in Active THEN age'[c] = age[c] + 1 /\ age[c] < Longest
                            ELSE age'[c] = age[c]
      BY <1>9 DEF Advance, TypeOK
    <3>2. \A c \in Conns : age[c] \in 0 .. Longest
      BY DEF TypeOK
    <3>3. \A c \in Conns : age'[c] \in 0 .. Longest
      BY <3>1, <3>2, ServerAssumption
    <3>4. age' = [c \in Conns |-> age'[c]]
      BY <1>9 DEF Advance
    <3> QED BY <3>1, <3>2, <3>3, <3>4
  <2>2. drained' \in 0 .. DrainLimit /\ drained' = IF pc = "drain" THEN drained + 1 ELSE drained
    <3>1. drained \in 0 .. DrainLimit
      BY DEF TypeOK
    <3> QED BY <1>9, <3>1, ServerAssumption DEF Advance
  <2>3. UNCHANGED <<pc, status, signalled, collector, server, listener, conn>> /\ Active' = Active
    BY <1>9 DEF Advance, Active
  <2>4. TypeOK'
    BY <2>1, <2>2, <2>3 DEF TypeOK
  <2>5. Stages' /\ NotYetDrained' /\ FailedStartSilent' /\ CleanExit'
    BY <2>2, <2>3 DEF Stages, Quiet, NotYetDrained, FailedStartSilent, CleanExit
  <2>6. DrainSpent'
    <3>1. PICK c \in Conns : c \in Active
      BY <1>9 DEF Advance, Active
    <3>2. ASSUME pc = "drain" PROVE \A d \in Active : age'[d] >= drained'
      BY <2>1, <2>2, <3>2 DEF DrainSpent, Active, TypeOK
    <3> QED BY <2>3, <3>1, <3>2 DEF DrainSpent
  <2>7. ErrorIsGenuine'
    BY <1>9 DEF Advance, TypeOK, Stages, ErrorIsGenuine
  <2> QED BY <2>4, <2>5, <2>6, <2>7
<1>10. CASE Done \/ UNCHANGED vars
  <2> USE <1>10 DEF Done, vars
  <2>1. TypeOK'
    BY DEF TypeOK
  <2>4. Stages'
    BY DEF Stages, Quiet, Active
  <2>2. DrainSpent' /\ NotYetDrained'
    BY DEF DrainSpent, NotYetDrained, Active
  <2>3. FailedStartSilent'
    BY DEF FailedStartSilent
  <2>6. CleanExit'
    BY DEF CleanExit
  <2>5. ErrorIsGenuine'
    BY DEF ErrorIsGenuine
  <2> QED BY <2>1, <2>2, <2>3, <2>4, <2>5, <2>6
<1> QED
  BY <1>1, <1>2, <1>3, <1>4, <1>5, <1>6, <1>7, <1>8, <1>9, <1>10
     DEF Next, StartUp, WindDown

THEOREM InvCorrect == Spec => []IInv
  BY InitInv, StepInv, PTL DEF Spec

-----------------------------------------------------------------------------
(* Type correctness of a server process.                                   *)
THEOREM TypeCorrect == Spec => []TypeOK
  BY InvCorrect, PTL DEF IInv

(* A start that fails has made no request and served no visitor.           *)
THEOREM StartCorrect == Spec => []FailedStartSilent
  BY InvCorrect, PTL DEF IInv

(* A clean shutdown cuts no answer, for any number of visitors.            *)
THEOREM CleanCorrect == Spec => []CleanExit
  BY InvCorrect, PTL DEF IInv

(* The drain gives every connection all of DrainLimit before it is cut.    *)
THEOREM ErrorCorrect == Spec => []ErrorIsGenuine
  BY InvCorrect, PTL DEF IInv

(* Every step of a server process is one that ProcessLife allows.          *)
THEOREM LifeImplemented == Spec => L!Life
<1>1. Init => L!LifeInit
  BY DEF Init, L!LifeInit, Phase
<1>2. IInv /\ [Next]_vars => [L!ComeUp \/ L!ToldToStop \/ L!End]_Phase
  <2> SUFFICES ASSUME IInv, [Next]_vars
               PROVE  [L!ComeUp \/ L!ToldToStop \/ L!End]_Phase
    OBVIOUS
  <2> USE DEF IInv, Stages, TypeOK, Phase, L!ComeUp, L!ToldToStop, L!End
  <2>1. CASE StartUp \/ Signal
    BY <2>1 DEF StartUp, HandlerFails, HandlerReady, BindFails, Bind, NotifyContext,
       Launch, Signal, Exit, Proceed
  <2>2. CASE WindDown
    BY <2>2 DEF WindDown, ServeReturned, BeginShutdown, DrainDone, DrainTimesOut, Exit
  <2>3. CASE ServeBegins \/ AcceptFails \/ Advance \/ Done \/ UNCHANGED vars
    BY <2>3 DEF ServeBegins, AcceptFails, Advance, Done, vars
  <2>4. CASE \E c \in Conns : Connect(c) \/ Accept(c) \/ Answer(c) \/ TimedOut(c)
    <3>1. UNCHANGED <<pc, signalled>>
      BY <2>4 DEF Connect, Accept, Answer, TimedOut, Becomes
    <3> QED BY <3>1
  <2> QED BY <2>1, <2>2, <2>3, <2>4 DEF Next
<1> QED BY <1>1, <1>2, InvCorrect, PTL DEF Spec, L!Life
=============================================================================
