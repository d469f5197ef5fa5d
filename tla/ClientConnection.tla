-------------------------- MODULE ClientConnection --------------------------
(***************************************************************************)
(* One ClientConnection: the send queue, its sender thread, and the        *)
(* threads that use it.  Owner is the worker that receives from the socket *)
(* and stops the connection when that ends; the peers are the workers of   *)
(* other clients, who enqueue what their commands tell this one; Main is   *)
(* the main thread, whose Worker destructor stops the connection too.      *)
(*                                                                         *)
(* A step is one section under queueMutex or one call between two of them. *)
(***************************************************************************)
EXTENDS Integers, Sequences

CONSTANTS
    Peer,            \* the workers of the other clients
    Owner,           \* the worker of this client
    Main,            \* the main thread
    MAX_QUEUE_SIZE,  \* messages a queue can hold
    MaxMessages      \* bound of the model: messages ever accepted

ASSUME ThreadAssumption ==
    /\ Owner # Main
    /\ Owner \notin Peer
    /\ Main \notin Peer

ASSUME QueueAssumption == MAX_QUEUE_SIZE \in Nat \ {0}

VARIABLES
    queue,     \* sendQueue
    stopping,  \* no more messages in or out
    stopped,   \* a thread is, or was, in the rest of Stop
    socket,    \* "open", "shut" after shutdown(), "closed" after closesocket()
    senderPc,  \* where the sender thread is
    message,   \* the message the sender took last
    pc,        \* where each of the other threads is
    remote,    \* "closed" once the server's system knows the client's end is gone
    accepted,  \* history: the messages Enqueue has queued
    received,  \* history: the packets that went out to the client
    stranger   \* a later client with the same handle: "none", "open", "shut"

vars == <<queue, stopping, stopped, socket, senderPc, message, pc, remote,
          accepted, received, stranger>>

(* A message is named after the thread that enqueued it. *)
Enqueuer == Peer \union {Owner}
Stopper  == {Owner, Main}
Thread   == Enqueuer \union Stopper

Init ==
    /\ queue = << >>
    /\ stopping = FALSE
    /\ stopped = FALSE
    /\ socket = "open"
    /\ senderPc = "running"
    /\ message = Owner
    /\ pc = [t \in Thread |-> "idle"]
    /\ remote = "open"
    /\ accepted = << >>
    /\ received = << >>
    /\ stranger = "none"

Goto(t, from, to) ==
    /\ pc[t] = from
    /\ pc' = [pc EXCEPT ![t] = to]

(* shutdown(socket, SD_BOTH): it has no effect on a handle that is closed. *)
NoShutDown == socket' = socket  \* Mutant of ShutDown.
ShutDown == socket' = IF socket = "open" THEN "shut" ELSE socket

(* notify_one and notify_all: the sender is the only thread that waits. *)
NotifyNobody == senderPc' = senderPc  \* Mutant of Notify.
Notify == senderPc' = IF senderPc = "asleep" THEN "running" ELSE senderPc

OverFull == Len(queue) > MAX_QUEUE_SIZE  \* Mutant of Full.
Full == Len(queue) >= MAX_QUEUE_SIZE

-----------------------------------------------------------------------------
(* Enqueue.  A refusal because the connection is stopping, or because of    *)
(* the size of the message, changes nothing.                                *)

Push(t) ==
    /\ Len(accepted) < MaxMessages
    /\ ~stopping
    /\ ~Full
    /\ Goto(t, "idle", "notify")
    /\ queue' = Append(queue, t)
    /\ accepted' = Append(accepted, t)
    /\ UNCHANGED <<stopping, stopped, socket, senderPc, message, remote, received, stranger>>

Overflow(t) ==
    /\ ~stopping
    /\ Full
    /\ Goto(t, "idle", "overflow")
    /\ stopping' = TRUE
    /\ UNCHANGED <<queue, stopped, socket, senderPc, message, remote, accepted, received, stranger>>

(* The handle is read and used without the lock, in a race with Close: it  *)
(* may be invalid by now, or the handle of a client accepted since.        *)
OverflowShutDown(t) ==
    /\ Goto(t, "overflow", "notify")
    /\ ShutDown
    /\ \/ stranger' = stranger
       \/ stranger = "open" /\ stranger' = "shut"
    /\ UNCHANGED <<queue, stopping, stopped, senderPc, message, remote, accepted, received>>

EnqueueNotify(t) ==
    /\ Goto(t, "notify", "idle")
    /\ Notify
    /\ UNCHANGED <<queue, stopping, stopped, socket, message, remote, accepted, received, stranger>>

-----------------------------------------------------------------------------
(* SenderLoop. *)

(* The wait tests its predicate and goes to sleep in one section. *)
FallAsleep ==
    /\ senderPc = "running"
    /\ ~stopping /\ queue = << >>
    /\ senderPc' = "asleep"
    /\ UNCHANGED <<queue, stopping, stopped, socket, message, pc, remote, accepted, received, stranger>>

SpuriousWake ==
    /\ senderPc = "asleep"
    /\ senderPc' = "running"
    /\ UNCHANGED <<queue, stopping, stopped, socket, message, pc, remote, accepted, received, stranger>>

SeeStop ==
    /\ senderPc = "running"
    /\ stopping
    /\ senderPc' = "done"
    /\ UNCHANGED <<queue, stopping, stopped, socket, message, pc, remote, accepted, received, stranger>>

(* Mutant of Take: the last message comes out first. *)
TakeLast ==
    /\ senderPc = "running"
    /\ ~stopping /\ queue # << >>
    /\ senderPc' = "sending"
    /\ message' = queue[Len(queue)]
    /\ queue' = SubSeq(queue, 1, Len(queue) - 1)
    /\ UNCHANGED <<stopping, stopped, socket, pc, remote, accepted, received, stranger>>

Take ==
    /\ senderPc = "running"
    /\ ~stopping /\ queue # << >>
    /\ senderPc' = "sending"
    /\ message' = Head(queue)
    /\ queue' = Tail(queue)
    /\ UNCHANGED <<stopping, stopped, socket, pc, remote, accepted, received, stranger>>

(* The whole packet went out.  A client that has gone does not get it. *)
SendSucceeds ==
    /\ senderPc = "sending"
    /\ socket = "open"
    /\ senderPc' = "running"
    /\ received' = IF remote = "open" THEN Append(received, message) ELSE received
    /\ UNCHANGED <<queue, stopping, stopped, socket, message, pc, remote, accepted, stranger>>

SendFails ==
    /\ senderPc = "sending"
    /\ socket # "open" \/ remote = "closed"
    /\ senderPc' = "failed"
    /\ UNCHANGED <<queue, stopping, stopped, socket, message, pc, remote, accepted, received, stranger>>

SetStopping ==
    /\ senderPc = "failed"
    /\ senderPc' = "shutdown"
    /\ stopping' = TRUE
    /\ UNCHANGED <<queue, stopped, socket, message, pc, remote, accepted, received, stranger>>

SenderShutDown ==
    /\ senderPc = "shutdown"
    /\ senderPc' = "done"
    /\ ShutDown
    /\ UNCHANGED <<queue, stopping, stopped, message, pc, remote, accepted, received, stranger>>

-----------------------------------------------------------------------------
(* The ends: the worker's receive loop, and Stop. *)

RemoteCloses ==
    /\ remote = "open"
    /\ remote' = "closed"
    /\ UNCHANGED <<queue, stopping, stopped, socket, senderPc, message, pc, accepted, received, stranger>>

(* recv() fails on a socket that is shut down or whose client has gone. *)
ReceiveFails ==
    /\ socket # "open" \/ remote = "closed"
    /\ Goto(Owner, "idle", "stop")
    /\ UNCHANGED <<queue, stopping, stopped, socket, senderPc, message, remote, accepted, received, stranger>>

(* A thread decides to stop: the worker after a command that ends the      *)
(* connection or a bad packet, Main when it destroys the worker.           *)
Leave(t) ==
    /\ Goto(t, "idle", "stop")
    /\ UNCHANGED <<queue, stopping, stopped, socket, senderPc, message, remote, accepted, received, stranger>>

StopAgain(t) ==
    /\ stopped
    /\ Goto(t, "stop", "gone")
    /\ UNCHANGED <<queue, stopping, stopped, socket, senderPc, message, remote, accepted, received, stranger>>

(* Mutant of StopFirst: the sender is not told. *)
StopQuietly(t) ==
    /\ ~stopped
    /\ Goto(t, "stop", "shutdown")
    /\ stopped' = TRUE
    /\ UNCHANGED <<queue, stopping, socket, senderPc, message, remote, accepted, received, stranger>>

StopFirst(t) ==
    /\ ~stopped
    /\ Goto(t, "stop", "shutdown")
    /\ stopping' = TRUE
    /\ stopped' = TRUE
    /\ UNCHANGED <<queue, socket, senderPc, message, remote, accepted, received, stranger>>

StopShutDown(t) ==
    /\ Goto(t, "shutdown", "wake")
    /\ ShutDown
    /\ UNCHANGED <<queue, stopping, stopped, senderPc, message, remote, accepted, received, stranger>>

StopNotify(t) ==
    /\ Goto(t, "wake", "join")
    /\ Notify
    /\ UNCHANGED <<queue, stopping, stopped, socket, message, remote, accepted, received, stranger>>

(* Mutant of Join: the sender is not waited for. *)
Detach(t) ==
    /\ Goto(t, "join", "close")
    /\ UNCHANGED <<queue, stopping, stopped, socket, senderPc, message, remote, accepted, received, stranger>>

Join(t) ==
    /\ senderPc = "done"
    /\ Goto(t, "join", "close")
    /\ UNCHANGED <<queue, stopping, stopped, socket, senderPc, message, remote, accepted, received, stranger>>

Close(t) ==
    /\ Goto(t, "close", "gone")
    /\ socket' = "closed"
    /\ UNCHANGED <<queue, stopping, stopped, senderPc, message, remote, accepted, received, stranger>>

(* The system gives the closed handle to a client that main accepts. *)
ReuseHandle ==
    /\ socket = "closed" /\ stranger = "none"
    /\ pc[Main] = "idle"
    /\ stranger' = "open"
    /\ UNCHANGED <<queue, stopping, stopped, socket, senderPc, message, pc, remote, accepted, received>>

-----------------------------------------------------------------------------
SenderStep ==
    FallAsleep \/ SeeStop \/ Take \/ SendFails \/ SetStopping \/ SenderShutDown

(* The rest of an Enqueue, or of a Stop, that a thread has begun. *)
EnqueueStep(t) == OverflowShutDown(t) \/ EnqueueNotify(t)

StopStep(t) ==
    StopAgain(t) \/ StopFirst(t) \/ StopShutDown(t) \/ StopNotify(t) \/ Join(t) \/ Close(t)

Next ==
    \/ SenderStep
    \/ SendSucceeds
    \/ SpuriousWake
    \/ RemoteCloses
    \/ ReceiveFails
    \/ ReuseHandle
    \/ \E t \in Enqueuer : Push(t) \/ Overflow(t) \/ EnqueueStep(t)
    \/ \E t \in Stopper : Leave(t) \/ StopStep(t)

(* Every thread goes on with what it has begun.  Nothing is assumed of the *)
(* client (SendSucceeds, RemoteCloses), of who enqueues and stops when     *)
(* (Push, Overflow, Leave), or of spurious wake-ups.                       *)
Fairness ==
    /\ WF_vars(SenderStep)
    /\ WF_vars(ReceiveFails)
    /\ \A t \in Enqueuer : WF_vars(EnqueueStep(t))
    /\ \A t \in Stopper : WF_vars(StopStep(t))

Spec == Init /\ [][Next]_vars /\ Fairness

-----------------------------------------------------------------------------
(* Types, and a queue within its limit (ClientConnection.cpp:48). *)
SenderPc == {"running", "asleep", "sending", "failed", "shutdown", "done"}
ThreadPc == {"idle", "notify", "overflow", "stop", "shutdown", "wake", "join", "close", "gone"}

TypeOK ==
    /\ queue \in Seq(Enqueuer)
    /\ Len(queue) <= MAX_QUEUE_SIZE
    /\ stopping \in BOOLEAN
    /\ stopped \in BOOLEAN
    /\ socket \in {"open", "shut", "closed"}
    /\ senderPc \in SenderPc
    /\ message \in Enqueuer
    /\ pc \in [Thread -> ThreadPc]
    /\ remote \in {"open", "closed"}
    /\ accepted \in Seq(Enqueuer)
    /\ received \in Seq(Enqueuer)
    /\ stranger \in {"none", "open", "shut"}

(* The socket is closed once, by the thread that got into Stop first, and  *)
(* only after the sender thread, which uses it without the lock, has ended *)
(* (ClientConnection.cpp:138-143).                                         *)
Closing(t) == pc[t] \in {"shutdown", "wake", "join", "close"}

SocketOutlivesSender ==
    /\ socket = "closed" => senderPc = "done" /\ \A t \in Stopper : ~Closing(t)
    /\ \A t, u \in Stopper : Closing(t) /\ Closing(u) => t = u

(* The connection is a link that stays in order and, once broken, is never *)
(* repaired, whatever threads enqueue on it (ClientConnection.cpp:29, :97).*)
L == INSTANCE Link WITH Message <- Enqueuer, broken <- stopping
ImplementsLink == L!Spec

(* No lost wake-up: the sender never sleeps on a message; it takes it, or  *)
(* the client keeps it busy, or the connection ends                        *)
(* (ClientConnection.cpp:71, :87).                                         *)
SenderWakes == queue # << >> ~> (stopping \/ senderPc = "sending")

(* A connection that is to end does end: after an overflow, a failed send, *)
(* a client that has gone or a shutdown, the worker gets out of recv(), a  *)
(* Stop joins the sender and closes the socket                             *)
(* (ClientConnection.cpp:65, :113, :135).                                  *)
BrokenIsClosed == (stopping \/ remote = "closed") ~> (socket = "closed" /\ pc[Owner] = "gone")

(* "The client whose send queue is full has its sending and receiving      *)
(* stopped" (ClientConnection.cpp:64): an overflow shuts down that client, *)
(* and no other.                                                           *)
OverflowStopsOnlyFullClient == stranger # "shut"

(* Stop returns, and the worker that Main joins after it ends              *)
(* (ClientWorkerManager.cpp:43-48).                                        *)
StopReturns == pc[Main] = "stop" ~> (pc[Main] = "gone" /\ pc[Owner] = "gone")
=============================================================================
