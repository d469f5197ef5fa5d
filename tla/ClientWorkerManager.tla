-------------------------- MODULE ClientWorkerManager -------------------------
(***************************************************************************)
(* The life of the server: main's accept loop (main.cpp) and the worker    *)
(* threads it starts, reaps and stops (Network/ClientWorkerManager.cpp).   *)
(*                                                                         *)
(* Only main calls Start, ReapFinished and StopAll; each holds the         *)
(* manager's mutex for one step here.  A Worker is destroyed outside that  *)
(* mutex: its connection is stopped, then its thread joined.  What a       *)
(* worker does while it runs is ClientHandle's: here it serves until its   *)
(* client ends the connection or the connection is stopped.                *)
(***************************************************************************)
EXTENDS Integers, Sequences, FiniteSets

CONSTANTS Client,     \* connections a client may ask for at a time
          Nobody

ASSUME NobodyAssumption == IsFiniteSet(Client) /\ Nobody \notin Client

VARIABLES stopRequested,  \* set by the console handler
          main,           \* where main stands
          backlog,        \* the listen queue
          accepting,      \* the connection main has accepted and not handed on
          workers,        \* the manager's list
          stopping,       \* StopAll has been called
          doomed,         \* Workers taken from the list, to be destroyed
          joining,        \* the Worker whose destructor is at join
          thread,         \* each worker thread
          finished,       \* its flag
          connection      \* each connection

vars == <<stopRequested, main, backlog, accepting, workers, stopping, doomed,
          joining, thread, finished, connection>>
manager == <<workers, stopping, doomed, joining>>
threads == <<thread, finished, connection>>

Init ==
    /\ stopRequested = FALSE
    /\ main = "loop"
    /\ backlog = <<>>
    /\ accepting = Nobody
    /\ workers = {} /\ stopping = FALSE /\ doomed = {} /\ joining = Nobody
    /\ thread = [c \in Client |-> "none"]
    /\ finished = [c \in Client |-> FALSE]
    /\ connection = [c \in Client |-> "none"]

Waiting == {backlog[i] : i \in 1..Len(backlog)}

\* ClientConnection::Stop: the first call closes, later ones return.
Stopped(c) == [connection EXCEPT ![c] = "closed"]
-------------------------------------------------------------------------------
(* The world outside.                                                      *)

\* Ctrl+C or Ctrl+Break
HandleConsoleControl ==
    /\ ~ stopRequested /\ stopRequested' = TRUE
    /\ UNCHANGED <<main, backlog, accepting, manager, threads>>

\* A client asks to be connected; the server socket is still open.
Knock(c) ==
    /\ main \notin {"stopAll", "stopEach", "stopJoin", "exit", "done"}
    /\ c \notin Waiting \cup {accepting} /\ connection[c] = "none"
    /\ backlog' = Append(backlog, c)
    /\ UNCHANGED <<stopRequested, main, accepting, manager, threads>>
-------------------------------------------------------------------------------
(* main's loop.                                                            *)

\* main goes on and leaves the manager and the threads alone.
MainGoes(from, to) ==
    /\ main = from /\ main' = to
    /\ UNCHANGED <<stopRequested, manager, threads>>

Loop ==
    /\ MainGoes("loop", IF stopRequested THEN "shutdown" ELSE "select")
    /\ UNCHANGED <<backlog, accepting>>

\* Nobody knocks for a second, somebody does, or select fails.
Select ==
    /\ \/ backlog = <<>> /\ MainGoes("select", "loop")
       \/ backlog # <<>> /\ MainGoes("select", "recheck")
       \/ MainGoes("select", "shutdown")
    /\ UNCHANGED <<backlog, accepting>>

\* Mutant of Recheck: the test of FD_ISSET is inverted.
RecheckInverted ==
    /\ MainGoes("recheck", IF stopRequested THEN "shutdown" ELSE "loop")
    /\ UNCHANGED <<backlog, accepting>>

Recheck ==
    /\ MainGoes("recheck", IF stopRequested THEN "shutdown" ELSE "accept")
    /\ UNCHANGED <<backlog, accepting>>

TakeConnection ==
    /\ MainGoes("accept", "create")
    /\ accepting' = Head(backlog) /\ backlog' = Tail(backlog)

\* The client has gone again, and is off the queue; or descriptors or buffers are
\* short, and it is still there when main comes back.
AcceptFails ==
    /\ MainGoes("accept", IF stopRequested THEN "shutdown" ELSE "loop")
    /\ backlog' \in {Tail(backlog), backlog}
    /\ UNCHANGED accepting

Accept == TakeConnection \/ AcceptFails

\* Mutant of CreateConnection: the handle is not closed when the object cannot
\* be made.
CreateAndForget ==
    /\ main = "create"
    /\ connection' = [connection EXCEPT ![accepting] = "open"]
    /\ \/ main' = "reap" /\ UNCHANGED accepting
       \/ main' = "loop" /\ accepting' = Nobody
    /\ UNCHANGED <<stopRequested, backlog, manager, thread, finished>>

\* The connection object, with its sender thread, is made or main closes the
\* handle itself.
CreateConnection ==
    /\ main = "create"
    /\ \/ /\ connection' = [connection EXCEPT ![accepting] = "open"]
          /\ main' = "reap" /\ UNCHANGED accepting
       \/ /\ main' = "loop" /\ accepting' = Nobody
          /\ UNCHANGED connection
    /\ UNCHANGED <<stopRequested, backlog, manager, thread, finished>>

\* Mutant of ReapFinished: every worker is taken.
ReapAll ==
    /\ main = "reap" /\ main' = "destroy"
    /\ doomed' = workers
    /\ workers' = {}
    /\ UNCHANGED <<stopRequested, backlog, accepting, stopping, joining, threads>>

\* ReapFinished, called by Start, takes the finished workers from the list.
ReapFinished ==
    /\ main = "reap" /\ main' = "destroy"
    /\ doomed' = {c \in workers : finished[c]}
    /\ workers' = workers \ doomed'
    /\ UNCHANGED <<stopRequested, backlog, accepting, stopping, joining, threads>>

\* Mutant of StartWorker: Start reports success when it has failed.
StartAnyway ==
    /\ main = "start" /\ main' = "loop"
    /\ \/ /\ ~ stopping
          /\ workers' = workers \cup {accepting}
          /\ thread' = [thread EXCEPT ![accepting] = "serving"]
          /\ accepting' = Nobody
       \/ UNCHANGED <<workers, thread, accepting>>
    /\ UNCHANGED <<stopRequested, backlog, stopping, doomed, joining, finished,
                   connection>>

\* Start's own section: the thread is running before the next line of main, or
\* it could not be made.
StartWorker ==
    /\ main = "start"
    /\ \/ /\ ~ stopping
          /\ workers' = workers \cup {accepting}
          /\ thread' = [thread EXCEPT ![accepting] = "serving"]
          /\ main' = "loop" /\ accepting' = Nobody
       \/ /\ main' = "refuse"
          /\ UNCHANGED <<workers, thread, accepting>>
    /\ UNCHANGED <<stopRequested, backlog, stopping, doomed, joining, finished,
                   connection>>

\* Start has failed: main stops the connection, and lets go of it.
RefuseConnection ==
    /\ main = "refuse" /\ main' = "loop"
    /\ connection' = [connection EXCEPT ![accepting] = "none"]
    /\ accepting' = Nobody
    /\ UNCHANGED <<stopRequested, backlog, manager, thread, finished>>
-------------------------------------------------------------------------------
(* Workers are destroyed, by ReapFinished and by StopAll.                  *)

\* ~Worker stops the connection, which wakes a thread blocked in recv ...
StopConnection(from, to) ==
    /\ main = from /\ main' = to
    /\ \E c \in doomed : joining' = c /\ connection' = Stopped(c)
    /\ UNCHANGED <<stopRequested, backlog, accepting, workers, stopping, doomed,
                   thread, finished>>

\* ... and joins the thread; the Worker and its connection are gone.
JoinThread(from, to) ==
    /\ main = from /\ main' = to
    /\ thread[joining] = "ended"
    /\ doomed' = doomed \ {joining}
    /\ joining' = Nobody
    /\ thread' = [thread EXCEPT ![joining] = "none"]
    /\ finished' = [finished EXCEPT ![joining] = FALSE]
    /\ connection' = [connection EXCEPT ![joining] = "none"]
    /\ UNCHANGED <<stopRequested, backlog, accepting, workers, stopping>>

AllDestroyed(from, to) ==
    /\ doomed = {} /\ MainGoes(from, to)
    /\ UNCHANGED <<backlog, accepting>>

Reap ==
    \/ ReapFinished
    \/ StopConnection("destroy", "join") \/ JoinThread("join", "destroy")
    \/ AllDestroyed("destroy", "start")

\* closesocket(serverSocket): whoever still knocks is turned away.
CloseServerSocket ==
    /\ MainGoes("shutdown", "stopAll")
    /\ backlog' = <<>>
    /\ UNCHANGED accepting

\* Mutant of StopAll: the workers are left in the list and only told to stop.
StopAllAndGo ==
    /\ main = "stopAll"
    /\ stopping' = TRUE
    /\ main' = "exit"
    /\ connection' = [c \in Client |-> IF c \in workers THEN "closed" ELSE connection[c]]
    /\ UNCHANGED <<stopRequested, backlog, accepting, workers, doomed, joining,
                   thread, finished>>

StopAll ==
    /\ main = "stopAll"
    /\ stopping' = TRUE
    /\ doomed' = workers /\ workers' = {}
    /\ main' = "stopEach"
    /\ UNCHANGED <<stopRequested, backlog, accepting, joining, threads>>

\* ~ClientWorkerManager calls StopAll once more, which finds stopping set.
Exit ==
    /\ stopping
    /\ MainGoes("exit", "done")
    /\ UNCHANGED <<backlog, accepting>>

Shutdown ==
    \/ CloseServerSocket \/ StopAll
    \/ StopConnection("stopEach", "stopJoin") \/ JoinThread("stopJoin", "stopEach")
    \/ AllDestroyed("stopEach", "exit")
    \/ Exit

Main ==
    \/ Loop \/ Select \/ Recheck \/ Accept \/ CreateConnection
    \/ Reap \/ StartWorker \/ RefuseConnection \/ Shutdown
-------------------------------------------------------------------------------
(* A worker thread.                                                        *)

ThreadGoes(c, from, to) ==
    /\ thread[c] = from
    /\ thread' = [thread EXCEPT ![c] = to]
    /\ UNCHANGED <<stopRequested, main, backlog, accepting, manager>>

\* The client ends the connection, or breaks the protocol.
ClientEnds(c) ==
    ThreadGoes(c, "serving", "leaving") /\ UNCHANGED <<finished, connection>>

\* recv returns because the connection has been stopped.
SeeStop(c) ==
    /\ connection[c] = "closed"
    /\ ThreadGoes(c, "serving", "leaving") /\ UNCHANGED <<finished, connection>>

\* Disconnect, then the worker's own Stop.
LeaveAndStop(c) ==
    /\ ThreadGoes(c, "leaving", "storing")
    /\ connection' = Stopped(c)
    /\ UNCHANGED finished

\* The flag is set before the thread function returns.
StoreFinished(c) ==
    /\ ThreadGoes(c, "storing", "returning")
    /\ finished' = [finished EXCEPT ![c] = TRUE]
    /\ UNCHANGED connection

Return(c) ==
    ThreadGoes(c, "returning", "ended") /\ UNCHANGED <<finished, connection>>

WorkerStep(c) == SeeStop(c) \/ LeaveAndStop(c) \/ StoreFinished(c) \/ Return(c)

Next ==
    \/ Main \/ HandleConsoleControl
    \/ \E c \in Client : Knock(c) \/ ClientEnds(c) \/ WorkerStep(c)

\* main and the worker threads are scheduled; select returns within a second.
\* Nothing is assumed of clients or of the console.
Spec ==
    /\ Init /\ [][Next]_vars
    /\ WF_vars(Main) /\ \A c \in Client : WF_vars(WorkerStep(c))
-------------------------------------------------------------------------------
(* Properties.                                                             *)

MainPlaces == {"loop", "select", "recheck", "accept", "create", "reap", "destroy",
               "join", "start", "refuse", "shutdown", "stopAll", "stopEach",
               "stopJoin", "exit", "done"}

\* The places where main has a connection in hand, and a thread to join.
Handing == {"create", "reap", "destroy", "join", "start", "refuse"}
Joining == {"join", "stopJoin"}

\* Every variable has its type; the listen queue holds nobody twice; main has a
\* connection in hand between accept and the end of Start, and no longer.
TypeOK ==
    /\ stopRequested \in BOOLEAN /\ stopping \in BOOLEAN
    /\ main \in MainPlaces
    /\ backlog \in Seq(Client)
    /\ \A i, j \in 1..Len(backlog) : backlog[i] = backlog[j] => i = j
    /\ accepting \in Client \cup {Nobody} /\ joining \in Client \cup {Nobody}
    /\ accepting # Nobody <=> main \in Handing
    /\ joining # Nobody <=> main \in Joining
    /\ workers \subseteq Client /\ doomed \subseteq Client
    /\ thread \in [Client -> {"none", "serving", "leaving", "storing", "returning",
                              "ended"}]
    /\ finished \in [Client -> BOOLEAN]
    /\ connection \in [Client -> {"none", "open", "closed"}]

\* Every thread and every open connection is in the hands of exactly one owner
\* who will end it: the manager's list, the destructor at work, or main before
\* it has handed the connection on (a joinable thread that loses its owner ends
\* the process).
EverythingHasAnOwner ==
    /\ workers \cap doomed = {} /\ accepting \notin workers \cup doomed
    /\ \A c \in Client :
          /\ thread[c] # "none" <=> c \in workers \cup doomed
          /\ connection[c] # "none" => c \in workers \cup doomed \cup {accepting}

\* While the server runs, reaping touches only threads that have finished by
\* themselves: no client that is being served is cut off, and the accept loop
\* joins only threads that are past their last line (ClientWorkerManager.cpp:106,
\* called on every accept).
ServingIsNotDisturbed ==
    ~ stopping =>
        /\ \A c \in Client : thread[c] \in {"serving", "leaving"} => connection[c] = "open"
        /\ \A c \in doomed : finished[c]

\* When main returns nothing of the server is left: no thread runs, no
\* connection is open (main.cpp:230, ClientWorkerManager.cpp:143).
CleanExit ==
    /\ main = "done"
    /\ workers = {} /\ doomed = {} /\ accepting = Nobody
    /\ \A c \in Client : thread[c] = "none" /\ connection[c] # "open"

\* A stop request ends the server, and cleanly, whatever main is doing when it
\* comes: a client that has just been accepted, one being reaped, one just
\* finished, and clients that never say a word (ClientWorkerManager.cpp:38-50,
\* 125-144).
ServerStops == stopRequested ~> CleanExit

\* What the next property needs of the system: it is not for ever short of
\* descriptors or buffers whenever accept is called.
ShortagesEnd == SF_vars(Accept /\ backlog' # backlog)

\* If shortages end, a client that knocks is let in or turned away: main comes
\* back to accept after every failure, and no client that is being served holds
\* the accept loop up (main.cpp:143-223, ClientWorkerManager.cpp:100-119).
EverybodyIsAnswered ==
    ShortagesEnd => \A c \in Client : c \in Waiting ~> c \notin Waiting
===============================================================================
