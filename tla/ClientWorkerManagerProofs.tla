----------------------- MODULE ClientWorkerManagerProofs ----------------------
(***************************************************************************)
(* Proofs about ClientWorkerManager: for any set of clients every thread   *)
(* and connection keeps its owner, reaping disturbs nobody who is served,  *)
(* and when main has returned nothing is left.                             *)
(***************************************************************************)
EXTENDS ClientWorkerManager, TLAPS

\* Where main stands, and what it has in hand there.
PhaseInv ==
    /\ main = "create" => connection[accepting] = "none"
    /\ main \in Handing \ {"create"} => connection[accepting] = "open"
    /\ main \in {"recheck", "accept"} => backlog # <<>>
    /\ main \in Joining => joining \in doomed
    /\ doomed # {} => main \in {"destroy", "join", "stopEach", "stopJoin"}
    /\ stopping <=> main \in {"stopEach", "stopJoin", "exit", "done"}
    /\ stopping => workers = {}

\* What the flag says of a thread, and that whoever knocks is not being served.
WorkerInv ==
    /\ \A c \in Client : finished[c] <=> thread[c] \in {"returning", "ended"}
    /\ \A c \in workers \cup doomed : connection[c] # "none"
    /\ \A i \in 1..Len(backlog) : /\ connection[backlog[i]] = "none"
                                  /\ backlog[i] # accepting

Inv ==
    /\ TypeOK /\ EverythingHasAnOwner /\ ServingIsNotDisturbed
    /\ PhaseInv /\ WorkerInv

LEMMA InitInv == Init => Inv
<1> SUFFICES ASSUME Init PROVE Inv
  OBVIOUS
<1>0. Len(backlog) = 0
  BY DEF Init
<1>1. TypeOK
  <2>1. backlog \in Seq(Client)
    BY DEF Init
  <2>2. \A i, j \in 1..Len(backlog) : backlog[i] = backlog[j] => i = j
    BY <1>0
  <2> QED
    BY <2>1, <2>2, NobodyAssumption DEF Init, TypeOK, MainPlaces, Handing, Joining
<1>2. EverythingHasAnOwner /\ ServingIsNotDisturbed
  BY NobodyAssumption DEF Init, EverythingHasAnOwner, ServingIsNotDisturbed
<1>3. PhaseInv
  BY DEF Init, PhaseInv, Handing, Joining
<1>4. WorkerInv
  BY <1>0 DEF Init, WorkerInv
<1> QED
  BY <1>1, <1>2, <1>3, <1>4 DEF Inv

\* The listen queue grows at its end and shrinks at its front.
LEMMA AppendFresh ==
    ASSUME NEW S, NEW s \in Seq(S), NEW x \in S,
           \A i, j \in 1..Len(s) : s[i] = s[j] => i = j,
           \A i \in 1..Len(s) : s[i] # x
    PROVE  /\ Append(s, x) \in Seq(S)
           /\ \A i, j \in 1..Len(Append(s, x)) :
                 Append(s, x)[i] = Append(s, x)[j] => i = j
           /\ \A i \in 1..Len(Append(s, x)) :
                 Append(s, x)[i] = x \/ \E j \in 1..Len(s) : Append(s, x)[i] = s[j]
<1> DEFINE t == Append(s, x)
<1>1. t \in Seq(S) /\ Len(t) = Len(s) + 1
  OBVIOUS
<1>2. \A i \in 1..Len(s) : t[i] = s[i]
  OBVIOUS
<1>3. t[Len(s) + 1] = x
  OBVIOUS
<1>4. \A i \in 1..Len(t) : i \in 1..Len(s) \/ i = Len(s) + 1
  BY <1>1
<1>5. Len(s) \in Nat
  OBVIOUS
<1> HIDE DEF t
<1>6. \A i, j \in 1..Len(t) : t[i] = t[j] => i = j
  BY <1>1, <1>2, <1>3, <1>4, <1>5
<1>7. \A i \in 1..Len(t) : t[i] = x \/ \E j \in 1..Len(s) : t[i] = s[j]
  BY <1>1, <1>2, <1>3, <1>4, <1>5
<1> QED
  BY <1>1, <1>6, <1>7 DEF t

LEMMA TailOfDistinct ==
    ASSUME NEW S, NEW s \in Seq(S), s # <<>>,
           \A i, j \in 1..Len(s) : s[i] = s[j] => i = j
    PROVE  /\ Head(s) \in S /\ Tail(s) \in Seq(S)
           /\ Head(s) = s[1] /\ 1 \in 1..Len(s)
           /\ \A i, j \in 1..Len(Tail(s)) : Tail(s)[i] = Tail(s)[j] => i = j
           /\ \A i \in 1..Len(Tail(s)) : /\ i + 1 \in 1..Len(s)
                                         /\ Tail(s)[i] = s[i + 1]
                                         /\ Tail(s)[i] # Head(s)
<1> DEFINE t == Tail(s)
<1>1. t \in Seq(S) /\ Len(t) = Len(s) - 1 /\ Len(s) \in Nat /\ Len(s) > 0
  OBVIOUS
<1>2. \A i \in 1..Len(t) : t[i] = s[i + 1] /\ i + 1 \in 1..Len(s)
  BY <1>1
<1>3. Head(s) = s[1] /\ Head(s) \in S /\ 1 \in 1..Len(s)
  BY <1>1
<1> HIDE DEF t
<1>4. \A i, j \in 1..Len(t) : t[i] = t[j] => i = j
  BY <1>1, <1>2
<1>5. \A i \in 1..Len(t) : t[i] # Head(s)
  BY <1>1, <1>2, <1>3
<1> QED
  BY <1>1, <1>2, <1>3, <1>4, <1>5 DEF t

LEMMA HandleConsoleControlInv ==
    ASSUME Inv, HandleConsoleControl PROVE Inv'
<1>1. TypeOK'
  BY NobodyAssumption DEF Inv, HandleConsoleControl, manager, threads,
      TypeOK, EverythingHasAnOwner, ServingIsNotDisturbed, PhaseInv, WorkerInv,
      MainPlaces, Handing, Joining
<1>2. EverythingHasAnOwner'
  BY NobodyAssumption DEF Inv, HandleConsoleControl, manager, threads,
      TypeOK, EverythingHasAnOwner, ServingIsNotDisturbed, PhaseInv, WorkerInv,
      MainPlaces, Handing, Joining
<1>3. ServingIsNotDisturbed'
  BY NobodyAssumption DEF Inv, HandleConsoleControl, manager, threads,
      TypeOK, EverythingHasAnOwner, ServingIsNotDisturbed, PhaseInv, WorkerInv,
      MainPlaces, Handing, Joining
<1>4. PhaseInv'
  BY NobodyAssumption DEF Inv, HandleConsoleControl, manager, threads,
      TypeOK, EverythingHasAnOwner, ServingIsNotDisturbed, PhaseInv, WorkerInv,
      MainPlaces, Handing, Joining
<1>5. WorkerInv'
  BY NobodyAssumption DEF Inv, HandleConsoleControl, manager, threads,
      TypeOK, EverythingHasAnOwner, ServingIsNotDisturbed, PhaseInv, WorkerInv,
      MainPlaces, Handing, Joining
<1> QED
  BY <1>1, <1>2, <1>3, <1>4, <1>5 DEF Inv

LEMMA LoopInv ==
    ASSUME Inv, Loop PROVE Inv'
<1>1. TypeOK'
  BY NobodyAssumption DEF Inv, Loop, MainGoes, manager, threads,
      TypeOK, EverythingHasAnOwner, ServingIsNotDisturbed, PhaseInv, WorkerInv,
      MainPlaces, Handing, Joining
<1>2. EverythingHasAnOwner'
  BY NobodyAssumption DEF Inv, Loop, MainGoes, manager, threads,
      TypeOK, EverythingHasAnOwner, ServingIsNotDisturbed, PhaseInv, WorkerInv,
      MainPlaces, Handing, Joining
<1>3. ServingIsNotDisturbed'
  BY NobodyAssumption DEF Inv, Loop, MainGoes, manager, threads,
      TypeOK, EverythingHasAnOwner, ServingIsNotDisturbed, PhaseInv, WorkerInv,
      MainPlaces, Handing, Joining
<1>4. PhaseInv'
  BY NobodyAssumption DEF Inv, Loop, MainGoes, manager, threads,
      TypeOK, EverythingHasAnOwner, ServingIsNotDisturbed, PhaseInv, WorkerInv,
      MainPlaces, Handing, Joining
<1>5. WorkerInv'
  BY NobodyAssumption DEF Inv, Loop, MainGoes, manager, threads,
      TypeOK, EverythingHasAnOwner, ServingIsNotDisturbed, PhaseInv, WorkerInv,
      MainPlaces, Handing, Joining
<1> QED
  BY <1>1, <1>2, <1>3, <1>4, <1>5 DEF Inv

LEMMA SelectInv ==
    ASSUME Inv, Select PROVE Inv'
<1>1. TypeOK'
  BY NobodyAssumption DEF Inv, Select, MainGoes, manager, threads,
      TypeOK, EverythingHasAnOwner, ServingIsNotDisturbed, PhaseInv, WorkerInv,
      MainPlaces, Handing, Joining
<1>2. EverythingHasAnOwner'
  BY NobodyAssumption DEF Inv, Select, MainGoes, manager, threads,
      TypeOK, EverythingHasAnOwner, ServingIsNotDisturbed, PhaseInv, WorkerInv,
      MainPlaces, Handing, Joining
<1>3. ServingIsNotDisturbed'
  BY NobodyAssumption DEF Inv, Select, MainGoes, manager, threads,
      TypeOK, EverythingHasAnOwner, ServingIsNotDisturbed, PhaseInv, WorkerInv,
      MainPlaces, Handing, Joining
<1>4. PhaseInv'
  BY NobodyAssumption DEF Inv, Select, MainGoes, manager, threads,
      TypeOK, EverythingHasAnOwner, ServingIsNotDisturbed, PhaseInv, WorkerInv,
      MainPlaces, Handing, Joining
<1>5. WorkerInv'
  BY NobodyAssumption DEF Inv, Select, MainGoes, manager, threads,
      TypeOK, EverythingHasAnOwner, ServingIsNotDisturbed, PhaseInv, WorkerInv,
      MainPlaces, Handing, Joining
<1> QED
  BY <1>1, <1>2, <1>3, <1>4, <1>5 DEF Inv

LEMMA RecheckInv ==
    ASSUME Inv, Recheck PROVE Inv'
<1>1. TypeOK'
  BY NobodyAssumption DEF Inv, Recheck, MainGoes, manager, threads,
      TypeOK, EverythingHasAnOwner, ServingIsNotDisturbed, PhaseInv, WorkerInv,
      MainPlaces, Handing, Joining
<1>2. EverythingHasAnOwner'
  BY NobodyAssumption DEF Inv, Recheck, MainGoes, manager, threads,
      TypeOK, EverythingHasAnOwner, ServingIsNotDisturbed, PhaseInv, WorkerInv,
      MainPlaces, Handing, Joining
<1>3. ServingIsNotDisturbed'
  BY NobodyAssumption DEF Inv, Recheck, MainGoes, manager, threads,
      TypeOK, EverythingHasAnOwner, ServingIsNotDisturbed, PhaseInv, WorkerInv,
      MainPlaces, Handing, Joining
<1>4. PhaseInv'
  BY NobodyAssumption DEF Inv, Recheck, MainGoes, manager, threads,
      TypeOK, EverythingHasAnOwner, ServingIsNotDisturbed, PhaseInv, WorkerInv,
      MainPlaces, Handing, Joining
<1>5. WorkerInv'
  BY NobodyAssumption DEF Inv, Recheck, MainGoes, manager, threads,
      TypeOK, EverythingHasAnOwner, ServingIsNotDisturbed, PhaseInv, WorkerInv,
      MainPlaces, Handing, Joining
<1> QED
  BY <1>1, <1>2, <1>3, <1>4, <1>5 DEF Inv

LEMMA CreateConnectionInv ==
    ASSUME Inv, CreateConnection PROVE Inv'
<1>1. TypeOK'
  BY NobodyAssumption DEF Inv, CreateConnection, manager, threads,
      TypeOK, EverythingHasAnOwner, ServingIsNotDisturbed, PhaseInv, WorkerInv,
      MainPlaces, Handing, Joining
<1>2. EverythingHasAnOwner'
  <2>1. accepting \in Client /\ connection \in [Client -> {"none", "open", "closed"}]
    BY DEF Inv, TypeOK, CreateConnection, Handing
  <2>2. CASE main' = "reap"
    BY <2>1, <2>2 DEF Inv, CreateConnection, manager, EverythingHasAnOwner
  <2>3. CASE main' = "loop"
    <3>1. connection[accepting] = "none"
      BY <2>1 DEF Inv, CreateConnection, PhaseInv, EverythingHasAnOwner
    <3>2. accepting' = Nobody /\ UNCHANGED <<connection, thread, workers, doomed>>
      BY <2>3 DEF CreateConnection, manager
    <3>3. Nobody \notin workers \cup doomed
      BY NobodyAssumption DEF Inv, TypeOK
    <3> QED
      BY <3>1, <3>2, <3>3 DEF Inv, EverythingHasAnOwner
  <2> QED
    BY <2>2, <2>3 DEF CreateConnection
<1>3. ServingIsNotDisturbed'
  BY NobodyAssumption DEF Inv, CreateConnection, manager, threads,
      TypeOK, EverythingHasAnOwner, ServingIsNotDisturbed, PhaseInv, WorkerInv,
      MainPlaces, Handing, Joining
<1>4. PhaseInv'
  BY NobodyAssumption DEF Inv, CreateConnection, manager, threads,
      TypeOK, EverythingHasAnOwner, ServingIsNotDisturbed, PhaseInv, WorkerInv,
      MainPlaces, Handing, Joining
<1>5. WorkerInv'
  BY NobodyAssumption DEF Inv, CreateConnection, manager, threads,
      TypeOK, EverythingHasAnOwner, ServingIsNotDisturbed, PhaseInv, WorkerInv,
      MainPlaces, Handing, Joining
<1> QED
  BY <1>1, <1>2, <1>3, <1>4, <1>5 DEF Inv

LEMMA ReapFinishedInv ==
    ASSUME Inv, ReapFinished PROVE Inv'
<1>1. TypeOK'
  BY NobodyAssumption DEF Inv, ReapFinished, manager, threads,
      TypeOK, EverythingHasAnOwner, ServingIsNotDisturbed, PhaseInv, WorkerInv,
      MainPlaces, Handing, Joining
<1>2. EverythingHasAnOwner'
  BY NobodyAssumption DEF Inv, ReapFinished, manager, threads,
      TypeOK, EverythingHasAnOwner, ServingIsNotDisturbed, PhaseInv, WorkerInv,
      MainPlaces, Handing, Joining
<1>3. ServingIsNotDisturbed'
  BY NobodyAssumption DEF Inv, ReapFinished, manager, threads,
      TypeOK, EverythingHasAnOwner, ServingIsNotDisturbed, PhaseInv, WorkerInv,
      MainPlaces, Handing, Joining
<1>4. PhaseInv'
  BY NobodyAssumption DEF Inv, ReapFinished, manager, threads,
      TypeOK, EverythingHasAnOwner, ServingIsNotDisturbed, PhaseInv, WorkerInv,
      MainPlaces, Handing, Joining
<1>5. WorkerInv'
  BY NobodyAssumption DEF Inv, ReapFinished, manager, threads,
      TypeOK, EverythingHasAnOwner, ServingIsNotDisturbed, PhaseInv, WorkerInv,
      MainPlaces, Handing, Joining
<1> QED
  BY <1>1, <1>2, <1>3, <1>4, <1>5 DEF Inv

LEMMA StartWorkerInv ==
    ASSUME Inv, StartWorker PROVE Inv'
<1>1. TypeOK'
  BY NobodyAssumption DEF Inv, StartWorker, manager, threads,
      TypeOK, EverythingHasAnOwner, ServingIsNotDisturbed, PhaseInv, WorkerInv,
      MainPlaces, Handing, Joining
<1>2. EverythingHasAnOwner'
  BY NobodyAssumption DEF Inv, StartWorker, manager, threads,
      TypeOK, EverythingHasAnOwner, ServingIsNotDisturbed, PhaseInv, WorkerInv,
      MainPlaces, Handing, Joining
<1>3. ServingIsNotDisturbed'
  BY NobodyAssumption DEF Inv, StartWorker, manager, threads,
      TypeOK, EverythingHasAnOwner, ServingIsNotDisturbed, PhaseInv, WorkerInv,
      MainPlaces, Handing, Joining
<1>4. PhaseInv'
  BY NobodyAssumption DEF Inv, StartWorker, manager, threads,
      TypeOK, EverythingHasAnOwner, ServingIsNotDisturbed, PhaseInv, WorkerInv,
      MainPlaces, Handing, Joining
<1>5. WorkerInv'
  BY NobodyAssumption DEF Inv, StartWorker, manager, threads,
      TypeOK, EverythingHasAnOwner, ServingIsNotDisturbed, PhaseInv, WorkerInv,
      MainPlaces, Handing, Joining
<1> QED
  BY <1>1, <1>2, <1>3, <1>4, <1>5 DEF Inv

LEMMA RefuseConnectionInv ==
    ASSUME Inv, RefuseConnection PROVE Inv'
<1>1. TypeOK'
  BY NobodyAssumption DEF Inv, RefuseConnection, manager, threads,
      TypeOK, EverythingHasAnOwner, ServingIsNotDisturbed, PhaseInv, WorkerInv,
      MainPlaces, Handing, Joining
<1>2. EverythingHasAnOwner'
  BY NobodyAssumption DEF Inv, RefuseConnection, manager, threads,
      TypeOK, EverythingHasAnOwner, ServingIsNotDisturbed, PhaseInv, WorkerInv,
      MainPlaces, Handing, Joining
<1>3. ServingIsNotDisturbed'
  BY NobodyAssumption DEF Inv, RefuseConnection, manager, threads,
      TypeOK, EverythingHasAnOwner, ServingIsNotDisturbed, PhaseInv, WorkerInv,
      MainPlaces, Handing, Joining
<1>4. PhaseInv'
  BY NobodyAssumption DEF Inv, RefuseConnection, manager, threads,
      TypeOK, EverythingHasAnOwner, ServingIsNotDisturbed, PhaseInv, WorkerInv,
      MainPlaces, Handing, Joining
<1>5. WorkerInv'
  BY NobodyAssumption DEF Inv, RefuseConnection, manager, threads,
      TypeOK, EverythingHasAnOwner, ServingIsNotDisturbed, PhaseInv, WorkerInv,
      MainPlaces, Handing, Joining
<1> QED
  BY <1>1, <1>2, <1>3, <1>4, <1>5 DEF Inv

LEMMA CloseServerSocketInv ==
    ASSUME Inv, CloseServerSocket PROVE Inv'
<1>1. TypeOK'
  BY NobodyAssumption DEF Inv, CloseServerSocket, MainGoes, manager, threads,
      TypeOK, EverythingHasAnOwner, ServingIsNotDisturbed, PhaseInv, WorkerInv,
      MainPlaces, Handing, Joining
<1>2. EverythingHasAnOwner'
  BY NobodyAssumption DEF Inv, CloseServerSocket, MainGoes, manager, threads,
      TypeOK, EverythingHasAnOwner, ServingIsNotDisturbed, PhaseInv, WorkerInv,
      MainPlaces, Handing, Joining
<1>3. ServingIsNotDisturbed'
  BY NobodyAssumption DEF Inv, CloseServerSocket, MainGoes, manager, threads,
      TypeOK, EverythingHasAnOwner, ServingIsNotDisturbed, PhaseInv, WorkerInv,
      MainPlaces, Handing, Joining
<1>4. PhaseInv'
  BY NobodyAssumption DEF Inv, CloseServerSocket, MainGoes, manager, threads,
      TypeOK, EverythingHasAnOwner, ServingIsNotDisturbed, PhaseInv, WorkerInv,
      MainPlaces, Handing, Joining
<1>5. WorkerInv'
  BY NobodyAssumption DEF Inv, CloseServerSocket, MainGoes, manager, threads,
      TypeOK, EverythingHasAnOwner, ServingIsNotDisturbed, PhaseInv, WorkerInv,
      MainPlaces, Handing, Joining
<1> QED
  BY <1>1, <1>2, <1>3, <1>4, <1>5 DEF Inv

LEMMA StopAllInv ==
    ASSUME Inv, StopAll PROVE Inv'
<1>1. TypeOK'
  BY NobodyAssumption DEF Inv, StopAll, manager, threads,
      TypeOK, EverythingHasAnOwner, ServingIsNotDisturbed, PhaseInv, WorkerInv,
      MainPlaces, Handing, Joining
<1>2. EverythingHasAnOwner'
  BY NobodyAssumption DEF Inv, StopAll, manager, threads,
      TypeOK, EverythingHasAnOwner, ServingIsNotDisturbed, PhaseInv, WorkerInv,
      MainPlaces, Handing, Joining
<1>3. ServingIsNotDisturbed'
  BY NobodyAssumption DEF Inv, StopAll, manager, threads,
      TypeOK, EverythingHasAnOwner, ServingIsNotDisturbed, PhaseInv, WorkerInv,
      MainPlaces, Handing, Joining
<1>4. PhaseInv'
  BY NobodyAssumption DEF Inv, StopAll, manager, threads,
      TypeOK, EverythingHasAnOwner, ServingIsNotDisturbed, PhaseInv, WorkerInv,
      MainPlaces, Handing, Joining
<1>5. WorkerInv'
  BY NobodyAssumption DEF Inv, StopAll, manager, threads,
      TypeOK, EverythingHasAnOwner, ServingIsNotDisturbed, PhaseInv, WorkerInv,
      MainPlaces, Handing, Joining
<1> QED
  BY <1>1, <1>2, <1>3, <1>4, <1>5 DEF Inv

LEMMA ExitInv ==
    ASSUME Inv, Exit PROVE Inv'
<1>1. TypeOK'
  BY NobodyAssumption DEF Inv, Exit, MainGoes, manager, threads,
      TypeOK, EverythingHasAnOwner, ServingIsNotDisturbed, PhaseInv, WorkerInv,
      MainPlaces, Handing, Joining
<1>2. EverythingHasAnOwner'
  BY NobodyAssumption DEF Inv, Exit, MainGoes, manager, threads,
      TypeOK, EverythingHasAnOwner, ServingIsNotDisturbed, PhaseInv, WorkerInv,
      MainPlaces, Handing, Joining
<1>3. ServingIsNotDisturbed'
  BY NobodyAssumption DEF Inv, Exit, MainGoes, manager, threads,
      TypeOK, EverythingHasAnOwner, ServingIsNotDisturbed, PhaseInv, WorkerInv,
      MainPlaces, Handing, Joining
<1>4. PhaseInv'
  BY NobodyAssumption DEF Inv, Exit, MainGoes, manager, threads,
      TypeOK, EverythingHasAnOwner, ServingIsNotDisturbed, PhaseInv, WorkerInv,
      MainPlaces, Handing, Joining
<1>5. WorkerInv'
  BY NobodyAssumption DEF Inv, Exit, MainGoes, manager, threads,
      TypeOK, EverythingHasAnOwner, ServingIsNotDisturbed, PhaseInv, WorkerInv,
      MainPlaces, Handing, Joining
<1> QED
  BY <1>1, <1>2, <1>3, <1>4, <1>5 DEF Inv

LEMMA ClientEndsInv ==
    ASSUME Inv, NEW c \in Client, ClientEnds(c) PROVE Inv'
<1>1. TypeOK'
  BY NobodyAssumption DEF Inv, ClientEnds, ThreadGoes, manager, threads,
      TypeOK, EverythingHasAnOwner, ServingIsNotDisturbed, PhaseInv, WorkerInv,
      MainPlaces, Handing, Joining
<1>2. EverythingHasAnOwner'
  BY NobodyAssumption DEF Inv, ClientEnds, ThreadGoes, manager, threads,
      TypeOK, EverythingHasAnOwner, ServingIsNotDisturbed, PhaseInv, WorkerInv,
      MainPlaces, Handing, Joining
<1>3. ServingIsNotDisturbed'
  BY NobodyAssumption DEF Inv, ClientEnds, ThreadGoes, manager, threads,
      TypeOK, EverythingHasAnOwner, ServingIsNotDisturbed, PhaseInv, WorkerInv,
      MainPlaces, Handing, Joining
<1>4. PhaseInv'
  BY NobodyAssumption DEF Inv, ClientEnds, ThreadGoes, manager, threads,
      TypeOK, EverythingHasAnOwner, ServingIsNotDisturbed, PhaseInv, WorkerInv,
      MainPlaces, Handing, Joining
<1>5. WorkerInv'
  BY NobodyAssumption DEF Inv, ClientEnds, ThreadGoes, manager, threads,
      TypeOK, EverythingHasAnOwner, ServingIsNotDisturbed, PhaseInv, WorkerInv,
      MainPlaces, Handing, Joining
<1> QED
  BY <1>1, <1>2, <1>3, <1>4, <1>5 DEF Inv

LEMMA SeeStopInv ==
    ASSUME Inv, NEW c \in Client, SeeStop(c) PROVE Inv'
<1>1. TypeOK'
  BY NobodyAssumption DEF Inv, SeeStop, ThreadGoes, manager, threads,
      TypeOK, EverythingHasAnOwner, ServingIsNotDisturbed, PhaseInv, WorkerInv,
      MainPlaces, Handing, Joining
<1>2. EverythingHasAnOwner'
  BY NobodyAssumption DEF Inv, SeeStop, ThreadGoes, manager, threads,
      TypeOK, EverythingHasAnOwner, ServingIsNotDisturbed, PhaseInv, WorkerInv,
      MainPlaces, Handing, Joining
<1>3. ServingIsNotDisturbed'
  BY NobodyAssumption DEF Inv, SeeStop, ThreadGoes, manager, threads,
      TypeOK, EverythingHasAnOwner, ServingIsNotDisturbed, PhaseInv, WorkerInv,
      MainPlaces, Handing, Joining
<1>4. PhaseInv'
  BY NobodyAssumption DEF Inv, SeeStop, ThreadGoes, manager, threads,
      TypeOK, EverythingHasAnOwner, ServingIsNotDisturbed, PhaseInv, WorkerInv,
      MainPlaces, Handing, Joining
<1>5. WorkerInv'
  BY NobodyAssumption DEF Inv, SeeStop, ThreadGoes, manager, threads,
      TypeOK, EverythingHasAnOwner, ServingIsNotDisturbed, PhaseInv, WorkerInv,
      MainPlaces, Handing, Joining
<1> QED
  BY <1>1, <1>2, <1>3, <1>4, <1>5 DEF Inv

LEMMA LeaveAndStopInv ==
    ASSUME Inv, NEW c \in Client, LeaveAndStop(c) PROVE Inv'
<1>1. TypeOK'
  BY NobodyAssumption DEF Inv, LeaveAndStop, ThreadGoes, Stopped, manager, threads,
      TypeOK, EverythingHasAnOwner, ServingIsNotDisturbed, PhaseInv, WorkerInv,
      MainPlaces, Handing, Joining
<1>2. EverythingHasAnOwner'
  BY NobodyAssumption DEF Inv, LeaveAndStop, ThreadGoes, Stopped, manager, threads,
      TypeOK, EverythingHasAnOwner, ServingIsNotDisturbed, PhaseInv, WorkerInv,
      MainPlaces, Handing, Joining
<1>3. ServingIsNotDisturbed'
  BY NobodyAssumption DEF Inv, LeaveAndStop, ThreadGoes, Stopped, manager, threads,
      TypeOK, EverythingHasAnOwner, ServingIsNotDisturbed, PhaseInv, WorkerInv,
      MainPlaces, Handing, Joining
<1>4. PhaseInv'
  BY NobodyAssumption DEF Inv, LeaveAndStop, ThreadGoes, Stopped, manager, threads,
      TypeOK, EverythingHasAnOwner, ServingIsNotDisturbed, PhaseInv, WorkerInv,
      MainPlaces, Handing, Joining
<1>5. WorkerInv'
  BY NobodyAssumption DEF Inv, LeaveAndStop, ThreadGoes, Stopped, manager, threads,
      TypeOK, EverythingHasAnOwner, ServingIsNotDisturbed, PhaseInv, WorkerInv,
      MainPlaces, Handing, Joining
<1> QED
  BY <1>1, <1>2, <1>3, <1>4, <1>5 DEF Inv

LEMMA StoreFinishedInv ==
    ASSUME Inv, NEW c \in Client, StoreFinished(c) PROVE Inv'
<1>1. TypeOK'
  BY NobodyAssumption DEF Inv, StoreFinished, ThreadGoes, manager, threads,
      TypeOK, EverythingHasAnOwner, ServingIsNotDisturbed, PhaseInv, WorkerInv,
      MainPlaces, Handing, Joining
<1>2. EverythingHasAnOwner'
  BY NobodyAssumption DEF Inv, StoreFinished, ThreadGoes, manager, threads,
      TypeOK, EverythingHasAnOwner, ServingIsNotDisturbed, PhaseInv, WorkerInv,
      MainPlaces, Handing, Joining
<1>3. ServingIsNotDisturbed'
  BY NobodyAssumption DEF Inv, StoreFinished, ThreadGoes, manager, threads,
      TypeOK, EverythingHasAnOwner, ServingIsNotDisturbed, PhaseInv, WorkerInv,
      MainPlaces, Handing, Joining
<1>4. PhaseInv'
  BY NobodyAssumption DEF Inv, StoreFinished, ThreadGoes, manager, threads,
      TypeOK, EverythingHasAnOwner, ServingIsNotDisturbed, PhaseInv, WorkerInv,
      MainPlaces, Handing, Joining
<1>5. WorkerInv'
  BY NobodyAssumption DEF Inv, StoreFinished, ThreadGoes, manager, threads,
      TypeOK, EverythingHasAnOwner, ServingIsNotDisturbed, PhaseInv, WorkerInv,
      MainPlaces, Handing, Joining
<1> QED
  BY <1>1, <1>2, <1>3, <1>4, <1>5 DEF Inv

LEMMA ReturnInv ==
    ASSUME Inv, NEW c \in Client, Return(c) PROVE Inv'
<1>1. TypeOK'
  BY NobodyAssumption DEF Inv, Return, ThreadGoes, manager, threads,
      TypeOK, EverythingHasAnOwner, ServingIsNotDisturbed, PhaseInv, WorkerInv,
      MainPlaces, Handing, Joining
<1>2. EverythingHasAnOwner'
  BY NobodyAssumption DEF Inv, Return, ThreadGoes, manager, threads,
      TypeOK, EverythingHasAnOwner, ServingIsNotDisturbed, PhaseInv, WorkerInv,
      MainPlaces, Handing, Joining
<1>3. ServingIsNotDisturbed'
  BY NobodyAssumption DEF Inv, Return, ThreadGoes, manager, threads,
      TypeOK, EverythingHasAnOwner, ServingIsNotDisturbed, PhaseInv, WorkerInv,
      MainPlaces, Handing, Joining
<1>4. PhaseInv'
  BY NobodyAssumption DEF Inv, Return, ThreadGoes, manager, threads,
      TypeOK, EverythingHasAnOwner, ServingIsNotDisturbed, PhaseInv, WorkerInv,
      MainPlaces, Handing, Joining
<1>5. WorkerInv'
  BY NobodyAssumption DEF Inv, Return, ThreadGoes, manager, threads,
      TypeOK, EverythingHasAnOwner, ServingIsNotDisturbed, PhaseInv, WorkerInv,
      MainPlaces, Handing, Joining
<1> QED
  BY <1>1, <1>2, <1>3, <1>4, <1>5 DEF Inv

LEMMA KnockInv ==
    ASSUME Inv, NEW c \in Client, Knock(c) PROVE Inv'
<1>a. \A i \in 1..Len(backlog) : backlog[i] # c
  BY DEF Knock, Waiting
<1>b. /\ Append(backlog, c) \in Seq(Client)
      /\ \A i, j \in 1..Len(Append(backlog, c)) :
            Append(backlog, c)[i] = Append(backlog, c)[j] => i = j
      /\ \A i \in 1..Len(Append(backlog, c)) :
            \/ Append(backlog, c)[i] = c
            \/ \E j \in 1..Len(backlog) : Append(backlog, c)[i] = backlog[j]
  <2>1. /\ backlog \in Seq(Client)
        /\ \A i, j \in 1..Len(backlog) : backlog[i] = backlog[j] => i = j
    BY DEF Inv, TypeOK
  <2> QED
    BY ONLY <1>a, <2>1, c \in Client, AppendFresh
<1>c. Append(backlog, c) # <<>>
  <2>1. backlog \in Seq(Client)
    BY DEF Inv, TypeOK
  <2>2. Len(Append(backlog, c)) = Len(backlog) + 1 /\ Len(backlog) \in Nat
    BY <2>1
  <2>3. Len(<<>>) = 0
    OBVIOUS
  <2> QED
    BY <2>2, <2>3
<1>1. TypeOK'
  BY NobodyAssumption, <1>a, <1>b, <1>c DEF Inv, Knock, manager, threads,
      TypeOK, EverythingHasAnOwner, ServingIsNotDisturbed, PhaseInv, WorkerInv,
      MainPlaces, Handing, Joining
<1>2. EverythingHasAnOwner'
  BY NobodyAssumption, <1>a, <1>b, <1>c DEF Inv, Knock, manager, threads,
      TypeOK, EverythingHasAnOwner, ServingIsNotDisturbed, PhaseInv, WorkerInv,
      MainPlaces, Handing, Joining
<1>3. ServingIsNotDisturbed'
  BY NobodyAssumption, <1>a, <1>b, <1>c DEF Inv, Knock, manager, threads,
      TypeOK, EverythingHasAnOwner, ServingIsNotDisturbed, PhaseInv, WorkerInv,
      MainPlaces, Handing, Joining
<1>4. PhaseInv'
  BY NobodyAssumption, <1>a, <1>b, <1>c DEF Inv, Knock, manager, threads,
      TypeOK, EverythingHasAnOwner, ServingIsNotDisturbed, PhaseInv, WorkerInv,
      MainPlaces, Handing, Joining
<1>5. WorkerInv'
  BY NobodyAssumption, <1>a, <1>b, <1>c DEF Inv, Knock, manager, threads,
      TypeOK, EverythingHasAnOwner, ServingIsNotDisturbed, PhaseInv, WorkerInv,
      MainPlaces, Handing, Joining
<1> QED
  BY <1>1, <1>2, <1>3, <1>4, <1>5 DEF Inv

LEMMA TakeConnectionInv ==
    ASSUME Inv, TakeConnection PROVE Inv'
<1>a. backlog # <<>>
  BY DEF Inv, PhaseInv, TakeConnection, MainGoes
<1>b. /\ Head(backlog) \in Client /\ Tail(backlog) \in Seq(Client)
      /\ Head(backlog) = backlog[1] /\ 1 \in 1..Len(backlog)
      /\ \A i, j \in 1..Len(Tail(backlog)) :
            Tail(backlog)[i] = Tail(backlog)[j] => i = j
      /\ \A i \in 1..Len(Tail(backlog)) :
            /\ i + 1 \in 1..Len(backlog)
            /\ Tail(backlog)[i] = backlog[i + 1]
            /\ Tail(backlog)[i] # Head(backlog)
  BY <1>a, TailOfDistinct DEF Inv, TypeOK
<1>1. TypeOK'
  BY NobodyAssumption, <1>a, <1>b DEF Inv, TakeConnection, MainGoes, manager, threads,
      TypeOK, EverythingHasAnOwner, ServingIsNotDisturbed, PhaseInv, WorkerInv,
      MainPlaces, Handing, Joining
<1>2. EverythingHasAnOwner'
  BY NobodyAssumption, <1>a, <1>b DEF Inv, TakeConnection, MainGoes, manager, threads,
      TypeOK, EverythingHasAnOwner, ServingIsNotDisturbed, PhaseInv, WorkerInv,
      MainPlaces, Handing, Joining
<1>3. ServingIsNotDisturbed'
  BY NobodyAssumption, <1>a, <1>b DEF Inv, TakeConnection, MainGoes, manager, threads,
      TypeOK, EverythingHasAnOwner, ServingIsNotDisturbed, PhaseInv, WorkerInv,
      MainPlaces, Handing, Joining
<1>4. PhaseInv'
  BY NobodyAssumption, <1>a, <1>b DEF Inv, TakeConnection, MainGoes, manager, threads,
      TypeOK, EverythingHasAnOwner, ServingIsNotDisturbed, PhaseInv, WorkerInv,
      MainPlaces, Handing, Joining
<1>5. WorkerInv'
  BY NobodyAssumption, <1>a, <1>b DEF Inv, TakeConnection, MainGoes, manager, threads,
      TypeOK, EverythingHasAnOwner, ServingIsNotDisturbed, PhaseInv, WorkerInv,
      MainPlaces, Handing, Joining
<1> QED
  BY <1>1, <1>2, <1>3, <1>4, <1>5 DEF Inv

LEMMA AcceptFailsInv ==
    ASSUME Inv, AcceptFails PROVE Inv'
<1>1. UNCHANGED <<stopRequested, manager, threads, accepting>>
      /\ main = "accept" /\ main' \in {"shutdown", "loop"}
  BY DEF AcceptFails, MainGoes, manager, threads
<1>2. /\ backlog' \in Seq(Client)
      /\ \A i, j \in 1..Len(backlog') : backlog'[i] = backlog'[j] => i = j
      /\ \A i \in 1..Len(backlog') :
            connection[backlog'[i]] = "none" /\ backlog'[i] # accepting
  <2>1. CASE backlog' = backlog
    BY <2>1 DEF Inv, TypeOK, WorkerInv
  <2>2. CASE backlog' = Tail(backlog)
    <3>1. backlog # <<>>
      BY <1>1 DEF Inv, PhaseInv
    <3> QED
      BY <2>2, <3>1, TailOfDistinct DEF Inv, TypeOK, WorkerInv
  <2> QED
    BY <2>1, <2>2 DEF AcceptFails
<1>3. TypeOK'
  BY <1>1, <1>2 DEF Inv, manager, threads, TypeOK, MainPlaces, Handing, Joining
<1>4. EverythingHasAnOwner' /\ ServingIsNotDisturbed'
  BY <1>1 DEF Inv, manager, threads, EverythingHasAnOwner, ServingIsNotDisturbed
<1>5. PhaseInv'
  BY <1>1 DEF Inv, manager, threads, PhaseInv, Handing, Joining
<1>6. WorkerInv'
  BY <1>1, <1>2 DEF Inv, manager, threads, WorkerInv
<1> QED
  BY <1>3, <1>4, <1>5, <1>6 DEF Inv

LEMMA StopConnectionInv ==
    ASSUME Inv, NEW from, NEW to, <<from, to>> \in {<<"destroy", "join">>, <<"stopEach", "stopJoin">>}, StopConnection(from, to) PROVE Inv'
<1>1. TypeOK'
  BY NobodyAssumption DEF Inv, StopConnection, Stopped, manager, threads,
      TypeOK, EverythingHasAnOwner, ServingIsNotDisturbed, PhaseInv, WorkerInv,
      MainPlaces, Handing, Joining
<1>2. EverythingHasAnOwner'
  BY NobodyAssumption DEF Inv, StopConnection, Stopped, manager, threads,
      TypeOK, EverythingHasAnOwner, ServingIsNotDisturbed, PhaseInv, WorkerInv,
      MainPlaces, Handing, Joining
<1>3. ServingIsNotDisturbed'
  BY NobodyAssumption DEF Inv, StopConnection, Stopped, manager, threads,
      TypeOK, EverythingHasAnOwner, ServingIsNotDisturbed, PhaseInv, WorkerInv,
      MainPlaces, Handing, Joining
<1>4. PhaseInv'
  BY NobodyAssumption DEF Inv, StopConnection, Stopped, manager, threads,
      TypeOK, EverythingHasAnOwner, ServingIsNotDisturbed, PhaseInv, WorkerInv,
      MainPlaces, Handing, Joining
<1>5. WorkerInv'
  BY NobodyAssumption DEF Inv, StopConnection, Stopped, manager, threads,
      TypeOK, EverythingHasAnOwner, ServingIsNotDisturbed, PhaseInv, WorkerInv,
      MainPlaces, Handing, Joining
<1> QED
  BY <1>1, <1>2, <1>3, <1>4, <1>5 DEF Inv

LEMMA JoinThreadInv ==
    ASSUME Inv, NEW from, NEW to, <<from, to>> \in {<<"join", "destroy">>, <<"stopJoin", "stopEach">>}, JoinThread(from, to) PROVE Inv'
<1>1. TypeOK'
  BY NobodyAssumption DEF Inv, JoinThread, manager, threads,
      TypeOK, EverythingHasAnOwner, ServingIsNotDisturbed, PhaseInv, WorkerInv,
      MainPlaces, Handing, Joining
<1>2. EverythingHasAnOwner'
  BY NobodyAssumption DEF Inv, JoinThread, manager, threads,
      TypeOK, EverythingHasAnOwner, ServingIsNotDisturbed, PhaseInv, WorkerInv,
      MainPlaces, Handing, Joining
<1>3. ServingIsNotDisturbed'
  BY NobodyAssumption DEF Inv, JoinThread, manager, threads,
      TypeOK, EverythingHasAnOwner, ServingIsNotDisturbed, PhaseInv, WorkerInv,
      MainPlaces, Handing, Joining
<1>4. PhaseInv'
  BY NobodyAssumption DEF Inv, JoinThread, manager, threads,
      TypeOK, EverythingHasAnOwner, ServingIsNotDisturbed, PhaseInv, WorkerInv,
      MainPlaces, Handing, Joining
<1>5. WorkerInv'
  BY NobodyAssumption DEF Inv, JoinThread, manager, threads,
      TypeOK, EverythingHasAnOwner, ServingIsNotDisturbed, PhaseInv, WorkerInv,
      MainPlaces, Handing, Joining
<1> QED
  BY <1>1, <1>2, <1>3, <1>4, <1>5 DEF Inv

LEMMA AllDestroyedInv ==
    ASSUME Inv, NEW from, NEW to, <<from, to>> \in {<<"destroy", "start">>, <<"stopEach", "exit">>}, AllDestroyed(from, to) PROVE Inv'
<1>1. TypeOK'
  BY NobodyAssumption DEF Inv, AllDestroyed, MainGoes, manager, threads,
      TypeOK, EverythingHasAnOwner, ServingIsNotDisturbed, PhaseInv, WorkerInv,
      MainPlaces, Handing, Joining
<1>2. EverythingHasAnOwner'
  BY NobodyAssumption DEF Inv, AllDestroyed, MainGoes, manager, threads,
      TypeOK, EverythingHasAnOwner, ServingIsNotDisturbed, PhaseInv, WorkerInv,
      MainPlaces, Handing, Joining
<1>3. ServingIsNotDisturbed'
  BY NobodyAssumption DEF Inv, AllDestroyed, MainGoes, manager, threads,
      TypeOK, EverythingHasAnOwner, ServingIsNotDisturbed, PhaseInv, WorkerInv,
      MainPlaces, Handing, Joining
<1>4. PhaseInv'
  BY NobodyAssumption DEF Inv, AllDestroyed, MainGoes, manager, threads,
      TypeOK, EverythingHasAnOwner, ServingIsNotDisturbed, PhaseInv, WorkerInv,
      MainPlaces, Handing, Joining
<1>5. WorkerInv'
  BY NobodyAssumption DEF Inv, AllDestroyed, MainGoes, manager, threads,
      TypeOK, EverythingHasAnOwner, ServingIsNotDisturbed, PhaseInv, WorkerInv,
      MainPlaces, Handing, Joining
<1> QED
  BY <1>1, <1>2, <1>3, <1>4, <1>5 DEF Inv

(***************************************************************************)
(* Together.                                                               *)
(***************************************************************************)

LEMMA StepInv == Inv /\ [Next]_vars => Inv'
<1> SUFFICES ASSUME Inv, [Next]_vars PROVE Inv'
  OBVIOUS
<1>1. CASE UNCHANGED vars
  BY <1>1 DEF Inv, vars, TypeOK, EverythingHasAnOwner, ServingIsNotDisturbed, PhaseInv,
      WorkerInv
<1>2. CASE HandleConsoleControl
  BY <1>2, HandleConsoleControlInv
<1>3. CASE \E c \in Client : Knock(c) \/ ClientEnds(c)
  BY <1>3, KnockInv, ClientEndsInv
<1>4. CASE \E c \in Client : WorkerStep(c)
  BY <1>4, SeeStopInv, LeaveAndStopInv, StoreFinishedInv, ReturnInv DEF WorkerStep
<1>5. CASE Loop \/ Select \/ Recheck \/ Accept \/ CreateConnection \/ StartWorker
              \/ RefuseConnection
  BY <1>5, LoopInv, SelectInv, RecheckInv, TakeConnectionInv, AcceptFailsInv,
     CreateConnectionInv, StartWorkerInv, RefuseConnectionInv DEF Accept
<1>6. CASE Reap
  BY <1>6, ReapFinishedInv, StopConnectionInv, JoinThreadInv, AllDestroyedInv DEF Reap
<1>7. CASE Shutdown
  BY <1>7, CloseServerSocketInv, StopAllInv, ExitInv, StopConnectionInv, JoinThreadInv,
     AllDestroyedInv DEF Shutdown
<1> QED
  BY <1>1, <1>2, <1>3, <1>4, <1>5, <1>6, <1>7 DEF Next, Main

LEMMA InvHolds == Spec => []Inv
<1> QED
  BY InitInv, StepInv, PTL DEF Spec

\* Every variable of the server keeps its type, whoever knocks.
THEOREM ServerTypes == Spec => []TypeOK
<1>1. Inv => TypeOK
  BY DEF Inv
<1> QED
  BY <1>1, InvHolds, PTL

\* No thread and no connection is ever without the one owner who ends it.
THEOREM OwnersKept == Spec => []EverythingHasAnOwner
<1>1. Inv => EverythingHasAnOwner
  BY DEF Inv
<1> QED
  BY <1>1, InvHolds, PTL

\* However many clients come and go, reaping on accept cuts nobody off.
THEOREM ReapingIsQuiet == Spec => []ServingIsNotDisturbed
<1>1. Inv => ServingIsNotDisturbed
  BY DEF Inv
<1> QED
  BY <1>1, InvHolds, PTL

\* When main has returned, no thread runs and no connection is open: the safety
\* half of ServerStops, without any fairness.
THEOREM ExitIsClean == Spec => [](main = "done" => CleanExit)
<1>1. Inv => (main = "done" => CleanExit)
  BY NobodyAssumption DEF Inv, CleanExit, TypeOK, EverythingHasAnOwner, PhaseInv, Handing
<1> QED
  BY <1>1, InvHolds, PTL
===============================================================================
