----------------------- MODULE ClientConnectionProofs -----------------------
(***************************************************************************)
(* For any number of peers and any size of the queue: the types of a       *)
(* connection, the order in which it is shut down, and that it is a Link.  *)
(***************************************************************************)
EXTENDS ClientConnection, TLAPS

(* One thread at most is past the check of Stop, and only after stopped    *)
(* has been set; the socket is closed when none is, and none will be.      *)
StopInv ==
    /\ \A t \in Stopper : Closing(t) => stopped
    /\ \A t \in Stopper : pc[t] = "close" => senderPc = "done"
    /\ socket = "closed" => stopped
    /\ SocketOutlivesSender

(* Where the accepted messages are: sent, in the sender's hands, queued.   *)
Taken == Len(accepted) - Len(queue)

OrderInv ==
    /\ Taken \in Nat
    /\ \A i \in 1 .. Len(queue) : queue[i] = accepted[Taken + i]
    /\ Len(received) <= Taken
    /\ remote = "open" /\ senderPc \in {"running", "asleep"} => Taken = Len(received)
    /\ remote = "open" /\ senderPc = "sending" =>
         Taken = Len(received) + 1 /\ message = accepted[Taken]

(* Every variable of a connection keeps its type and the queue its limit   *)
(* (ClientConnection.cpp:48).                                              *)
THEOREM ConnectionTypes == Spec => []TypeOK
<1>1. Init => TypeOK
  <2>1. << >> \in Seq(Enqueuer) /\ Len(<< >>) <= MAX_QUEUE_SIZE
    BY QueueAssumption
  <2>2. [t \in Thread |-> "idle"] \in [Thread -> ThreadPc]
    BY DEF ThreadPc
  <2>3. Owner \in Enqueuer
    BY DEF Enqueuer
  <2> QED BY <2>1, <2>2, <2>3 DEF Init, TypeOK, SenderPc
<1>2. TypeOK /\ [Next]_vars => TypeOK'
  <2> SUFFICES ASSUME TypeOK, [Next]_vars PROVE TypeOK'
    OBVIOUS
  <2> USE DEF TypeOK, SenderPc, ThreadPc
  <2>1. CASE SenderStep
    <3>1. CASE Take
      <4>1. Len(queue) > 0 /\ Head(queue) \in Enqueuer /\ Tail(queue) \in Seq(Enqueuer)
            /\ Len(Tail(queue)) <= MAX_QUEUE_SIZE
        BY <3>1, QueueAssumption DEF Take
      <4> QED BY <3>1, <4>1 DEF Take
    <3>2. CASE SenderStep /\ ~Take
      BY <3>2 DEF SenderStep, FallAsleep, SeeStop, SendFails, SetStopping, SenderShutDown, ShutDown
    <3> QED BY <2>1, <3>1, <3>2
  <2>2. CASE SendSucceeds
    BY <2>2 DEF SendSucceeds
  <2>3. CASE SpuriousWake \/ RemoteCloses \/ ReceiveFails \/ ReuseHandle
    BY <2>3 DEF SpuriousWake, RemoteCloses, ReceiveFails, ReuseHandle, Goto
  <2>4. ASSUME NEW t \in Enqueuer, Push(t) PROVE TypeOK'
    <3>1. Append(queue, t) \in Seq(Enqueuer) /\ Append(accepted, t) \in Seq(Enqueuer)
          /\ Len(Append(queue, t)) <= MAX_QUEUE_SIZE
      BY <2>4, QueueAssumption DEF Push, Full
    <3> QED BY <2>4, <3>1 DEF Push, Goto
  <2>5. ASSUME NEW t \in Enqueuer, Overflow(t) \/ EnqueueStep(t) PROVE TypeOK'
    <3>1. CASE Overflow(t)
      BY <3>1 DEF Overflow, Goto
    <3>2. CASE EnqueueStep(t)
      BY <3>2 DEF EnqueueStep, OverflowShutDown, EnqueueNotify, Goto, ShutDown, Notify
    <3> QED BY <2>5, <3>1, <3>2
  <2>6. ASSUME NEW t \in Stopper, Leave(t) \/ StopStep(t) PROVE TypeOK'
    <3>1. CASE Leave(t)
      BY <3>1 DEF Leave, Goto
    <3>2. CASE StopAgain(t) \/ StopFirst(t)
      BY <3>2 DEF StopAgain, StopFirst, Goto
    <3>3. CASE StopShutDown(t) \/ StopNotify(t)
      BY <3>3 DEF StopShutDown, StopNotify, Goto, ShutDown, Notify
    <3>4. CASE Join(t) \/ Close(t)
      BY <3>4 DEF Join, Close, Goto
    <3> QED BY <2>6, <3>1, <3>2, <3>3, <3>4 DEF StopStep
  <2>7. CASE UNCHANGED vars
    BY <2>7 DEF vars
  <2> QED BY <2>1, <2>2, <2>3, <2>4, <2>5, <2>6, <2>7 DEF Next
<1> QED BY <1>1, <1>2, PTL DEF Spec

(* One thread closes the socket, once, after the sender has ended          *)
(* (ClientConnection.cpp:125-143): StopInv is the inductive form of it.    *)
THEOREM StoppingOrder == Spec => []SocketOutlivesSender
<1>1. Init => StopInv
  BY DEF Init, StopInv, SocketOutlivesSender, Closing, Thread, Stopper
<1>2. TypeOK /\ StopInv /\ [Next]_vars => StopInv'
  <2> SUFFICES ASSUME TypeOK, StopInv, [Next]_vars PROVE StopInv'
    OBVIOUS
  <2> USE DEF StopInv, SocketOutlivesSender, Closing
  <2>0. pc \in [Thread -> ThreadPc] /\ Stopper \subseteq Thread /\ Enqueuer \subseteq Thread
    BY DEF TypeOK, Thread
  <2>1. CASE SenderStep
    BY <2>1 DEF SenderStep, FallAsleep, SeeStop, Take, SendFails, SetStopping, SenderShutDown, ShutDown
  <2>2. CASE SendSucceeds \/ SpuriousWake \/ RemoteCloses \/ ReuseHandle
    BY <2>2 DEF SendSucceeds, SpuriousWake, RemoteCloses, ReuseHandle
  <2>3. CASE ReceiveFails
    BY <2>0, <2>3 DEF ReceiveFails, Goto
  <2>4. ASSUME NEW t \in Enqueuer, Push(t) \/ Overflow(t) \/ EnqueueStep(t) PROVE StopInv'
    BY <2>0, <2>4 DEF Push, Overflow, EnqueueStep, OverflowShutDown, EnqueueNotify, Goto, ShutDown, Notify
  <2>5. ASSUME NEW t \in Stopper, Leave(t) PROVE StopInv'
    BY <2>0, <2>5 DEF Leave, Goto
  <2>6. ASSUME NEW t \in Stopper, StopStep(t) PROVE StopInv'
    <3>1. CASE StopAgain(t) \/ StopFirst(t)
      BY <2>0, <3>1 DEF StopAgain, StopFirst, Goto
    <3>2. CASE StopShutDown(t) \/ StopNotify(t)
      BY <2>0, <3>2 DEF StopShutDown, StopNotify, Goto, ShutDown, Notify
    <3>3. CASE Join(t) \/ Close(t)
      BY <2>0, <3>3 DEF Join, Close, Goto
    <3> QED BY <2>6, <3>1, <3>2, <3>3 DEF StopStep
  <2>7. CASE UNCHANGED vars
    BY <2>7 DEF vars
  <2> QED BY <2>1, <2>2, <2>3, <2>4, <2>5, <2>6, <2>7 DEF Next
<1>3. StopInv => SocketOutlivesSender
  BY DEF StopInv
<1> QED BY <1>1, <1>2, <1>3, ConnectionTypes, PTL DEF Spec

(* A connection implements a link that stays in order and breaks for good  *)
(* (ClientConnection.cpp:42-56, :92-100).  What a step does to the two     *)
(* histories and to stopping is a step of the link, or nothing; and the    *)
(* messages stay where OrderInv has them.                                  *)
THEOREM ConnectionImplementsLink == Spec => ImplementsLink
<1>1. Init => L!Init /\ OrderInv
  BY DEF Init, L!Init, OrderInv, Taken
<1>2. TypeOK /\ OrderInv /\ [Next]_vars => [L!Next]_<<accepted, received, stopping>> /\ OrderInv'
  <2> SUFFICES ASSUME TypeOK, OrderInv, [Next]_vars
               PROVE [L!Next]_<<accepted, received, stopping>> /\ OrderInv'
    OBVIOUS
  <2> DEFINE Still == UNCHANGED <<accepted, received, stopping>>
  <2> USE DEF OrderInv, Taken
  <2>0. queue \in Seq(Enqueuer) /\ accepted \in Seq(Enqueuer) /\ received \in Seq(Enqueuer)
        /\ stopping \in BOOLEAN
    BY DEF TypeOK
  <2>1. CASE Take
    <3>1. Still
      BY <2>1 DEF Take
    <3>2. /\ Len(queue) > 0 /\ Len(queue') = Len(queue) - 1
          /\ message' = queue[1]
          /\ \A i \in 1 .. Len(queue') : queue'[i] = queue[i + 1]
      BY <2>0, <2>1 DEF Take
    <3>3. senderPc = "running" /\ senderPc' = "sending" /\ remote' = remote
      BY <2>1 DEF Take
    <3> HIDE DEF Still
    <3>4. Taken' = Taken + 1 /\ message' = accepted'[Taken'] /\ Len(received') <= Taken'
      BY <2>0, <3>1, <3>2 DEF Still
    <3>5. ASSUME NEW i \in 1 .. Len(queue') PROVE queue'[i] = accepted'[Taken' + i]
      <4>1. queue'[i] = queue[i + 1] /\ i + 1 \in 1 .. Len(queue)
        BY <2>0, <3>2
      <4>2. queue[i + 1] = accepted[Taken + (i + 1)]
        BY <4>1
      <4>3. Taken' + i = Taken + (i + 1)
        BY <2>0, <3>1, <3>2 DEF Still
      <4>4. accepted' = accepted
        BY <3>1 DEF Still
      <4> HIDE DEF Taken, OrderInv
      <4> QED BY <4>1, <4>2, <4>3, <4>4, Zenon
    <3>6. remote = "open" => Taken = Len(received)
      BY <3>3
    <3>7. received' = received
      BY <3>1 DEF Still
    <3> HIDE DEF Taken
    <3>8. OrderInv'
      BY <3>3, <3>4, <3>5, <3>6, <3>7
    <3> QED BY <3>1, <3>8 DEF Still
  <2>2. CASE SendSucceeds
    <3>1. CASE remote = "open"
      <4>1. Taken = Len(received) + 1 /\ message = accepted[Taken]
        BY <2>2, <3>1 DEF SendSucceeds
      <4>2. /\ received' = Append(received, message)
            /\ UNCHANGED <<queue, accepted, stopping, remote>>
            /\ senderPc' = "running"
        BY <2>2, <3>1 DEF SendSucceeds
      <4>3. Len(received) < Len(accepted) /\ message = accepted[Len(received) + 1]
        BY <2>0, <4>1
      <4>4. L!Deliver
        BY <4>2, <4>3 DEF L!Deliver
      <4>5. Len(received') = Len(received) + 1
        BY <2>0, <2>2, <4>2 DEF TypeOK
      <4>6. Taken' = Taken
        BY <4>2
      <4>7. \A i \in 1 .. Len(queue') : queue'[i] = accepted'[Taken' + i]
        BY <4>2, <4>6
      <4> HIDE DEF Taken
      <4> QED BY <2>0, <4>1, <4>2, <4>4, <4>5, <4>6, <4>7 DEF L!Next
    <3>2. CASE remote # "open"
      BY <2>2, <3>2 DEF SendSucceeds
    <3> QED BY <3>1, <3>2
  <2>3. CASE SenderStep /\ ~Take
    <3>1. UNCHANGED <<queue, accepted, received, remote>>
      BY <2>3 DEF SenderStep, FallAsleep, SeeStop, SendFails, SetStopping, SenderShutDown
    <3>2. stopping' = stopping \/ (~stopping /\ stopping' = TRUE)
      BY <2>0, <2>3 DEF SenderStep, FallAsleep, SeeStop, SendFails, SetStopping, SenderShutDown
    <3>3. (senderPc' = "asleep" /\ senderPc = "running")
          \/ senderPc' \in {"done", "failed", "shutdown"}
      BY <2>3 DEF SenderStep, FallAsleep, SeeStop, SendFails, SetStopping, SenderShutDown
    <3> QED BY <3>1, <3>2, <3>3 DEF L!Next, L!Break
  <2>4. ASSUME NEW t \in Enqueuer, Push(t) PROVE L!Next /\ OrderInv'
    <3>1. /\ queue' = Append(queue, t) /\ accepted' = Append(accepted, t)
          /\ ~stopping
          /\ UNCHANGED <<received, stopping, remote, senderPc, message>>
      BY <2>4 DEF Push
    <3>2. Len(queue') = Len(queue) + 1 /\ Len(accepted') = Len(accepted) + 1
      BY <2>0, <3>1
    <3>3. Taken' = Taken
      BY <2>0, <3>2
    <3>4. ASSUME NEW i \in 1 .. Len(queue') PROVE queue'[i] = accepted'[Taken' + i]
      <4>1. CASE i = Len(queue')
        <5>1. i = Len(queue) + 1 /\ Taken' + i = Len(accepted) + 1
          <6>1. Len(queue) \in Nat /\ Len(accepted) \in Nat
            BY <2>0
          <6> QED BY <3>2, <4>1, <6>1
        <5>2. queue'[Len(queue) + 1] = t /\ accepted'[Len(accepted) + 1] = t
          BY <2>0, <3>1
        <5> QED BY <5>1, <5>2
      <4>2. CASE i # Len(queue')
        <5>1. i \in 1 .. Len(queue) /\ Taken + i \in 1 .. Len(accepted)
          BY <2>0, <3>2, <4>2
        <5> QED BY <2>0, <3>1, <3>3, <5>1
      <4> QED BY <4>1, <4>2
    <3>5. Taken \in 1 .. Len(accepted) => accepted'[Taken] = accepted[Taken]
      BY <2>0, <3>1
    <3>6. Taken <= Len(accepted)
      BY <2>0
    <3>7. L!Next
      BY <3>1 DEF L!Next, L!Accept
    <3>8. Taken = Len(received) + 1 => Taken \in 1 .. Len(accepted)
      BY <2>0, <3>6
    <3> HIDE DEF Taken
    <3> QED BY <3>1, <3>3, <3>4, <3>5, <3>7, <3>8
  <2>5. CASE \/ SpuriousWake \/ RemoteCloses \/ ReceiveFails \/ ReuseHandle
             \/ (\E t \in Enqueuer : Overflow(t) \/ EnqueueStep(t))
             \/ (\E t \in Stopper : Leave(t) \/ StopStep(t))
             \/ UNCHANGED vars
    <3> USE DEF SpuriousWake, RemoteCloses, ReceiveFails, ReuseHandle, Overflow, EnqueueStep,
          OverflowShutDown, EnqueueNotify, Leave, StopStep, StopAgain, StopFirst, StopShutDown,
          StopNotify, Join, Close, Notify, vars
    <3>1. UNCHANGED <<queue, message, accepted, received>>
      BY <2>5
    <3>2. stopping' = stopping \/ (~stopping /\ stopping' = TRUE)
      BY <2>0, <2>5
    <3>3. senderPc' = senderPc \/ (senderPc = "asleep" /\ senderPc' = "running")
      BY <2>5
    <3>4. remote' = remote \/ remote' = "closed"
      BY <2>5
    <3> QED BY <3>1, <3>2, <3>3, <3>4 DEF L!Next, L!Break
  <2> QED BY <2>1, <2>2, <2>3, <2>4, <2>5 DEF Next
<1> QED BY <1>1, <1>2, ConnectionTypes, PTL DEF Spec, ImplementsLink, L!Spec, L!linkVars

-----------------------------------------------------------------------------
(* What the liveness of a connection rests on: whoever waits is waited for *)
(* by nobody who waits for it.                                             *)

(* A sender that sleeps although there is something to do will be notified *)
(* by a thread that is on its way to it (ClientConnection.cpp:71, :136).   *)
WakeUpComes ==
    senderPc = "asleep" /\ (queue # << >> \/ stopping) =>
        \E t \in Thread : pc[t] \in {"notify", "overflow", "shutdown", "wake"}

(* A connection that is to end has its socket shut down, or a thread is    *)
(* about to do it: nobody stays in recv() or send()                        *)
(* (ClientConnection.cpp:65, :113, :135).                                  *)
ShutDownComes ==
    stopping => \/ socket # "open"
                \/ senderPc = "shutdown"
                \/ \E t \in Thread : pc[t] \in {"overflow", "shutdown"}

(* Who waits in join() waits for a sender that is awake, has been told and *)
(* cannot block in send() any more (ClientConnection.cpp:138).             *)
JoinIsMet ==
    \A t \in Stopper :
        /\ Closing(t) => stopping
        /\ pc[t] \in {"wake", "join", "close"} => socket # "open"
        /\ pc[t] \in {"join", "close"} => senderPc # "asleep"

WaitInv == WakeUpComes /\ ShutDownComes /\ JoinIsMet

LEMMA WaitsAreMet == Spec => []WaitInv
<1>1. Init => WaitInv
  BY DEF Init, WaitInv, WakeUpComes, ShutDownComes, JoinIsMet, Closing, Thread, Stopper
<1>2. TypeOK /\ WaitInv /\ [Next]_vars => WaitInv'
  <2> SUFFICES ASSUME TypeOK, WaitInv, [Next]_vars PROVE WaitInv'
    OBVIOUS
  <2> USE DEF WaitInv, WakeUpComes, ShutDownComes, JoinIsMet, Closing
  <2>0. pc \in [Thread -> ThreadPc] /\ Stopper \subseteq Thread /\ Enqueuer \subseteq Thread
    BY DEF TypeOK, Thread
  <2>1. CASE SenderStep
    BY <2>0, <2>1 DEF SenderStep, FallAsleep, SeeStop, Take, SendFails, SetStopping, SenderShutDown, ShutDown
  <2>2. CASE SendSucceeds \/ SpuriousWake \/ RemoteCloses \/ ReuseHandle
    BY <2>2 DEF SendSucceeds, SpuriousWake, RemoteCloses, ReuseHandle
  <2>3. CASE ReceiveFails
    <3>1. pc[Owner] = "idle" /\ pc' = [pc EXCEPT ![Owner] = "stop"]
          /\ UNCHANGED <<queue, stopping, socket, senderPc>>
      BY <2>3 DEF ReceiveFails, Goto
    <3>2. \A t \in Thread : pc'[t] = pc[t] \/ (pc[t] = "idle" /\ pc'[t] = "stop")
      BY <2>0, <3>1
    <3> QED BY <2>0, <3>1, <3>2
  <2>4. ASSUME NEW t \in Enqueuer, Push(t) \/ Overflow(t) PROVE WaitInv'
    <3>1. /\ pc[t] = "idle" /\ pc'[t] \in {"notify", "overflow"}
          /\ \A u \in Thread : u # t => pc'[u] = pc[u]
      BY <2>0, <2>4 DEF Push, Overflow, Goto
    <3>2. /\ UNCHANGED <<senderPc, socket>>
          /\ \/ pc'[t] = "overflow" /\ stopping' = TRUE
             \/ ~stopping /\ stopping' = stopping
      BY <2>0, <2>4 DEF Push, Overflow, Goto
    <3>3. WakeUpComes' /\ ShutDownComes'
      BY <2>0, <3>1, <3>2
    <3>4. ASSUME NEW u \in Stopper
          PROVE  /\ pc'[u] = pc[u] \/ pc'[u] \in {"notify", "overflow"}
                 /\ stopping => stopping'
      BY <2>0, <3>1, <3>2
    <3>5. JoinIsMet'
      BY <3>2, <3>4
    <3> QED BY <3>3, <3>5
  <2>5. ASSUME NEW t \in Enqueuer, EnqueueStep(t) PROVE WaitInv'
    BY <2>0, <2>5 DEF EnqueueStep, OverflowShutDown, EnqueueNotify, Goto, ShutDown, Notify
  <2>6. ASSUME NEW t \in Stopper, Leave(t) PROVE WaitInv'
    <3>1. pc[t] = "idle" /\ pc' = [pc EXCEPT ![t] = "stop"]
          /\ UNCHANGED <<queue, stopping, socket, senderPc>>
      BY <2>6 DEF Leave, Goto
    <3>2. \A u \in Thread : pc'[u] = pc[u] \/ (pc[u] = "idle" /\ pc'[u] = "stop")
      BY <2>0, <3>1
    <3> QED BY <2>0, <3>1, <3>2
  <2>7. ASSUME NEW t \in Stopper, StopStep(t) PROVE WaitInv'
    <3>1. CASE StopAgain(t) \/ StopFirst(t)
      BY <2>0, <3>1 DEF StopAgain, StopFirst, Goto
    <3>2. CASE StopShutDown(t) \/ StopNotify(t)
      BY <2>0, <3>2 DEF StopShutDown, StopNotify, Goto, ShutDown, Notify
    <3>3. CASE Join(t) \/ Close(t)
      BY <2>0, <3>3 DEF Join, Close, Goto
    <3> QED BY <2>7, <3>1, <3>2, <3>3 DEF StopStep
  <2>8. CASE UNCHANGED vars
    BY <2>8 DEF vars
  <2> QED BY <2>1, <2>2, <2>3, <2>4, <2>5, <2>6, <2>7, <2>8 DEF Next
<1> QED BY <1>1, <1>2, ConnectionTypes, PTL DEF Spec

(* No wake-up is lost, whatever threads enqueue, overflow and stop: the    *)
(* safety half of SenderWakes.                                             *)
THEOREM NoLostWakeUp == Spec => []WakeUpComes
<1>1. WaitInv => WakeUpComes
  BY DEF WaitInv
<1> QED BY <1>1, WaitsAreMet, PTL

(* Nobody blocks on the socket of a connection that is to end: the safety  *)
(* half of BrokenIsClosed.                                                 *)
THEOREM NobodyStaysBlocked == Spec => []ShutDownComes
<1>1. WaitInv => ShutDownComes
  BY DEF WaitInv
<1> QED BY <1>1, WaitsAreMet, PTL

(* A Stop never joins a sender that sleeps or blocks: the safety half of   *)
(* StopReturns.                                                            *)
THEOREM JoinsAreMet == Spec => []JoinIsMet
<1>1. WaitInv => JoinIsMet
  BY DEF WaitInv
<1> QED BY <1>1, WaitsAreMet, PTL
=============================================================================
