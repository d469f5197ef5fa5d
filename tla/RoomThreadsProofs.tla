--------------------------- MODULE RoomThreadsProofs --------------------------
(***************************************************************************)
(* Proofs about RoomThreads: however many workers meet in a room, the      *)
(* players of a command stay seated, every client shows the right turn,    *)
(* and the room implements Table.                                          *)
(***************************************************************************)
EXTENDS RoomThreads, FiniteSetTheorems, TLAPS

\* The sections of a handler of GameManager, and those that need two players.
Locked == Sections \ {"idle", "update"}
InPlay == {"start", "deal", "close", "next", "drawn", "pass", "finish"}

\* A handler of GameManager is alone with the session: what it has checked
\* stays true until it changes it.
LockInv ==
    /\ \A c \in Client : pc[c] \in Locked <=> gameMutex = c
    /\ \A c \in Client : pc[c] \in {"check", "remove"} => c \in Members
    /\ \A c \in Client : pc[c] \in {"check", "start"} => turn = NoSocket
    /\ \A c \in Client : pc[c] = "deal" => turn = c
    /\ \A c \in Client : pc[c] \in InPlay \ {"start", "deal"} => turn # NoSocket

Messages == [to: Client, kind: Kinds]

\* What a worker has still to queue, and the turn a message makes a client show.
Items(s) == {s[i] : i \in 1..Len(s)}
Unsent(c) == Items(pending[c])
TurnKinds == {"My", "Other", "Final", "Aborted", "Exit_Room_Complete"}
TurnBy(kind) == IF kind \in {"My", "Other"} THEN kind ELSE "None"

\* The turn a client should show once everything has been queued: none between
\* the start of a session and its first message, and after the last one.
Due(c) ==
    IF c \notin Members \/ turn = NoSocket \/ \E d \in Client : pc[d] \in {"deal", "reset"}
    THEN "None"
    ELSE IF turn = c THEN "My" ELSE "Other"

\* Only the holder of gameMutex has turn messages, and only the right ones; who
\* is not about to get one shows the right turn already.
MessageInv ==
    /\ \A c \in Client : pc[c] \notin {"idle", "unlock", "reset"} => pending[c] = <<>>
    /\ \A c \in Client : \A m \in Unsent(c) :
          m.kind \in TurnKinds => gameMutex = c /\ TurnBy(m.kind) = Due(m.to)
    /\ \A d \in Client :
          (\A c \in Client : \A m \in Unsent(c) : m.to = d => m.kind \notin TurnKinds)
             => shown[d].turn = Due(d)

Inv == TypeOK /\ PlayersStay /\ LockInv /\ MessageInv
-------------------------------------------------------------------------------
(* Members and messages.                                                   *)

LEMMA Seats ==
    ASSUME TypeOK
    PROVE  /\ Members \subseteq Client /\ IsFiniteSet(Members)
           /\ Cardinality(Members) \in Nat /\ Cardinality(Members) <= 2
           /\ ready \in [Members -> BOOLEAN]
<1>1. PICK seated \in SUBSET Client :
          Cardinality(seated) <= 2 /\ ready \in [seated -> BOOLEAN]
  BY DEF TypeOK
<1>2. Members = seated
  BY <1>1 DEF Members
<1>3. IsFiniteSet(Members)
  BY <1>1, <1>2, OwnersAssumption, FS_Subset
<1> QED
  BY <1>1, <1>2, <1>3, FS_CardinalityType

\* Of two members each is the other's rival.
LEMMA RivalIsOther ==
    ASSUME TypeOK, Paired, NEW c \in Members
    PROVE  /\ Rival(c) \in Members /\ Rival(c) # c
           /\ Rival(Rival(c)) = c
           /\ Members = {c, Rival(c)}
<1>1. IsFiniteSet(Members) /\ Cardinality(Members) = 2
  BY Seats DEF Paired
<1>2. IsFiniteSet(Members \ {c}) /\ Cardinality(Members \ {c}) = 1
  BY <1>1, FS_RemoveElement
<1>3. PICK d : Members \ {c} = {d}
  BY <1>2, FS_Singleton
<1>4. d \in Members /\ d # c /\ Members = {c, d}
  BY <1>3
<1>5. Rival(c) = d /\ Rival(d) = c
  BY <1>4 DEF Rival
<1> QED
  BY <1>4, <1>5

\* Somebody outside has nobody or somebody else to call a rival.
LEMMA RivalIsMember ==
    ASSUME TypeOK, Paired, NEW c
    PROVE  Rival(c) \in Members /\ Rival(c) \in Client
<1>1. IsFiniteSet(Members) /\ Cardinality(Members) = 2 /\ Members \subseteq Client
  BY Seats DEF Paired
<1>2. Cardinality({}) = 0 /\ Cardinality({c}) = 1
  BY FS_EmptySet, FS_Singleton
<1>3. \E d \in Members : d # c
  <2>1. Members # {} /\ Members # {c}
    BY <1>1, <1>2
  <2> QED
    BY <2>1
<1> QED
  BY <1>1, <1>3 DEF Rival

LEMMA MessageType ==
    ASSUME NEW c \in Client, NEW kind \in Kinds
    PROVE  /\ Message(c, kind) \in Messages /\ <<Message(c, kind)>> \in Seq(Messages)
           /\ Message(c, kind).to = c /\ Message(c, kind).kind = kind
BY DEF Message, Messages

LEMMA FlagKind == ASSUME NEW b PROVE Flag(b) \in Kinds /\ Flag(b) \notin TurnKinds
BY DEF Flag, Kinds, TurnKinds

LEMMA ItemsOfOne == ASSUME NEW m PROVE Items(<<m>>) = {m}
BY DEF Items

LEMMA ItemsOfNone == Items(<<>>) = {}
BY DEF Items

LEMMA ItemsOfTwo == ASSUME NEW m, NEW k PROVE Items(<<m, k>>) = {m, k}
BY DEF Items

LEMMA ItemsOfConcat ==
    ASSUME NEW S, NEW s \in Seq(S), NEW t \in Seq(S)
    PROVE  s \o t \in Seq(S) /\ Items(s \o t) = Items(s) \cup Items(t)
<1>1. s \o t \in Seq(S) /\ Len(s \o t) = Len(s) + Len(t) /\ Len(s) \in Nat /\ Len(t) \in Nat
  OBVIOUS
<1>2. \A i \in 1..Len(s) : (s \o t)[i] = s[i]
  OBVIOUS
<1>3. \A i \in 1..Len(t) : (s \o t)[Len(s) + i] = t[i]
  OBVIOUS
<1>4. Items(s) \subseteq Items(s \o t)
  BY <1>1, <1>2 DEF Items
<1>5. Items(t) \subseteq Items(s \o t)
  <2> SUFFICES ASSUME NEW i \in 1..Len(t) PROVE t[i] \in Items(s \o t)
    BY DEF Items
  <2> Len(s) + i \in 1..Len(s \o t) /\ (s \o t)[Len(s) + i] = t[i]
    BY <1>1, <1>3
  <2> QED
    BY DEF Items
<1>6. Items(s \o t) \subseteq Items(s) \cup Items(t)
  <2> SUFFICES ASSUME NEW i \in 1..Len(s \o t) PROVE (s \o t)[i] \in Items(s) \cup Items(t)
    BY DEF Items
  <2>1. CASE i <= Len(s)
    BY <2>1, <1>1, <1>2 DEF Items
  <2>2. CASE i > Len(s)
    <3>1. i - Len(s) \in 1..Len(t) /\ Len(s) + (i - Len(s)) = i
      BY <2>2, <1>1
    <3> QED
      BY <3>1, <1>3 DEF Items
  <2> QED
    BY <2>1, <2>2, <1>1
<1> QED
  BY <1>1, <1>4, <1>5, <1>6

LEMMA ItemsOfTail ==
    ASSUME NEW S, NEW s \in Seq(S), s # <<>>
    PROVE  /\ Head(s) \in S /\ Tail(s) \in Seq(S)
           /\ Items(s) = Items(Tail(s)) \cup {Head(s)}
<1>1. /\ Len(s) \in Nat \ {0} /\ Head(s) = s[1] /\ Tail(s) \in Seq(S)
      /\ Len(Tail(s)) = Len(s) - 1
  OBVIOUS
<1>2. \A i \in 1..Len(Tail(s)) : Tail(s)[i] = s[i + 1]
  OBVIOUS
<1>3. Items(Tail(s)) \cup {Head(s)} \subseteq Items(s)
  <2>1. \A i \in 1..Len(Tail(s)) : i + 1 \in 1..Len(s)
    BY <1>1
  <2>2. 1 \in 1..Len(s)
    BY <1>1
  <2> QED
    BY <1>1, <1>2, <2>1, <2>2 DEF Items
<1>4. Items(s) \subseteq Items(Tail(s)) \cup {Head(s)}
  <2> SUFFICES ASSUME NEW i \in 1..Len(s), i # 1 PROVE s[i] \in Items(Tail(s))
    BY <1>1 DEF Items
  <2>1. i - 1 \in 1..Len(Tail(s)) /\ (i - 1) + 1 = i
    BY <1>1
  <2> QED
    BY <2>1, <1>2 DEF Items
<1> QED
  BY <1>1, <1>3, <1>4
-------------------------------------------------------------------------------
(* The steps.                                                              *)

LEMMA DisplayedIs ==
    ASSUME NEW display \in Display, NEW kind \in Kinds
    PROVE  /\ Displayed(display, kind) \in Display
           /\ Displayed(display, kind).turn =
                 IF kind \in TurnKinds THEN TurnBy(kind) ELSE display.turn
BY DEF Displayed, Display, Kinds, TurnKinds, TurnBy, Nothing

\* A handler holds the lock that no other handler can have.
LEMMA Alone ==
    ASSUME Inv, NEW c \in Client, pc[c] \in Locked
    PROVE  /\ gameMutex = c
           /\ \A d \in Client \ {c} : pc[d] \in {"idle", "update"}
BY OwnersAssumption DEF Inv, LockInv, TypeOK, Locked

LEMMA SendPendingInv ==
    ASSUME Inv, NEW c \in Client, SendPending(c) PROVE Inv'
<1> DEFINE first == Head(pending[c])
<1>1. /\ pending[c] \in Seq(Messages) /\ first \in Messages
      /\ Tail(pending[c]) \in Seq(Messages)
      /\ Items(pending[c]) = Items(Tail(pending[c])) \cup {first}
  BY ItemsOfTail DEF SendPending, Inv, TypeOK, Messages
<1>2. /\ first.to \in Client /\ first.kind \in Kinds
      /\ shown' = [shown EXCEPT ![first.to] = Displayed(shown[first.to], first.kind)]
      /\ pending' = [pending EXCEPT ![c] = Tail(pending[c])]
      /\ pending[c] # <<>>
      /\ ready' = ready /\ turn' = turn /\ gameMutex' = gameMutex /\ pc' = pc
  BY <1>1 DEF SendPending, Messages
<1> HIDE DEF first
<1>3. \A d \in Client : Due(d)' = Due(d)
  BY <1>2 DEF Due, Members
<1>4. /\ \A d \in Client : Unsent(d)' = IF d = c THEN Items(Tail(pending[c])) ELSE Unsent(d)
      /\ Unsent(c) = Unsent(c)' \cup {first}
  BY <1>1, <1>2 DEF Unsent, Inv, TypeOK
<1>5. TypeOK'
  <2>1. pending' \in [Client -> Seq(Messages)]
    BY <1>1, <1>2 DEF Inv, TypeOK, Messages
  <2>2. shown' \in [Client -> Display]
    BY <1>2, DisplayedIs DEF Inv, TypeOK
  <2> QED
    BY <1>2, <2>1, <2>2 DEF Inv, TypeOK, Messages
<1>6. PlayersStay' /\ LockInv'
  BY <1>2 DEF Inv, PlayersStay, LockInv, Members, Paired
<1>7. MessageInv'
  <2>1. \A d \in Client : pc'[d] \notin {"idle", "unlock", "reset"} => pending'[d] = <<>>
    BY <1>2 DEF Inv, TypeOK, MessageInv
  <2>2. \A d \in Client : \A m \in Unsent(d)' :
          m.kind \in TurnKinds => gameMutex' = d /\ TurnBy(m.kind) = Due(m.to)'
    <3> SUFFICES ASSUME NEW d \in Client, NEW m \in Unsent(d)', m.kind \in TurnKinds
                 PROVE  gameMutex = d /\ TurnBy(m.kind) = Due(m.to)'
      BY <1>2
    <3>1. m \in Unsent(d)
      BY <1>4
    <3>2. gameMutex = d /\ TurnBy(m.kind) = Due(m.to)
      BY <3>1 DEF Inv, MessageInv
    <3> QED
      BY <3>2, <1>2 DEF Due, Members
  <2>3. ASSUME NEW d \in Client,
               \A e \in Client : \A m \in Unsent(e)' : m.to = d => m.kind \notin TurnKinds
        PROVE  shown'[d].turn = Due(d)'
    <3>1. CASE first.to = d /\ first.kind \in TurnKinds
      <4>1. shown'[d].turn = TurnBy(first.kind)
        BY <3>1, <1>2, DisplayedIs DEF Inv, TypeOK
      <4>2. TurnBy(first.kind) = Due(first.to)
        BY <3>1, <1>4 DEF Inv, MessageInv
      <4> QED
        BY <4>1, <4>2, <3>1, <1>3
    <3>2. CASE ~ (first.to = d /\ first.kind \in TurnKinds)
      <4>1. \A e \in Client : \A m \in Unsent(e) : m.to = d => m.kind \notin TurnKinds
        BY <3>2, <2>3, <1>4
      <4>2. shown[d].turn = Due(d)
        BY <4>1 DEF Inv, MessageInv
      <4>3. shown'[d].turn = shown[d].turn
        BY <3>2, <1>2, DisplayedIs DEF Inv, TypeOK
      <4> QED
        BY <4>2, <4>3, <1>3
    <3> QED
      BY <3>1, <3>2
  <2> QED
    BY <2>1, <2>2, <2>3 DEF MessageInv
<1> QED
  BY <1>5, <1>6, <1>7 DEF Inv

\* A step that queues nothing and changes no message, and after which every
\* client should show the same turn.
LEMMA QuietMessages ==
    ASSUME Inv, NEW c \in Client, pc' = [pc EXCEPT ![c] = pc'[c]],
           pending' = pending, shown' = shown,
           \A d : Due(d)' = Due(d),
           pending[c] = <<>>,
           gameMutex' = gameMutex \/ gameMutex \in {c, NoOwner}
    PROVE  MessageInv'
<1>1. \A d \in Client : Unsent(d)' = Unsent(d)
  BY DEF Unsent
<1>2. Unsent(c) = {}
  BY ItemsOfNone DEF Unsent
<1>3. \A d \in Client : pc'[d] \notin {"idle", "unlock", "reset"} => pending'[d] = <<>>
  BY DEF Inv, TypeOK, MessageInv
<1>4. \A d \in Client : \A m \in Unsent(d)' :
          m.kind \in TurnKinds => gameMutex' = d /\ TurnBy(m.kind) = Due(m.to)'
  BY <1>1, <1>2, OwnersAssumption DEF Inv, MessageInv
<1>5. \A d \in Client :
          (\A e \in Client : \A m \in Unsent(e)' : m.to = d => m.kind \notin TurnKinds)
             => shown'[d].turn = Due(d)'
  BY <1>1 DEF Inv, MessageInv
<1> QED
  BY <1>3, <1>4, <1>5 DEF MessageInv

LEMMA LockStepInv ==
    ASSUME Inv, NEW c \in Client, NEW section \in {"check", "pass", "close", "remove"},
           Lock(c, section), c \in Members,
           section = "check" => turn = NoSocket,
           section \in {"pass", "close"} => turn = c
    PROVE  Inv'
<1>1. /\ pc[c] = "idle" /\ pending[c] = <<>> /\ gameMutex = NoOwner /\ gameMutex' = c
      /\ pc' = [pc EXCEPT ![c] = section]
      /\ ready' = ready /\ turn' = turn /\ pending' = pending /\ shown' = shown
  BY DEF Lock, At
<1>2. \A d \in Client : pc[d] \in {"idle", "update"}
  BY <1>1, OwnersAssumption DEF Inv, TypeOK, LockInv, Locked
<1>3. \A d : Due(d)' = Due(d)
  BY <1>1, <1>2 DEF Due, Members, Inv, TypeOK
<1>4. TypeOK'
  BY <1>1 DEF Inv, TypeOK, Sections
<1>5. PlayersStay'
  BY <1>1, <1>2, OwnersAssumption DEF Inv, TypeOK, PlayersStay, Members, Paired
<1>6. LockInv'
  BY <1>1, <1>2, OwnersAssumption DEF Inv, TypeOK, LockInv, Members, Locked, Sections, InPlay
<1>7. MessageInv'
  BY <1>1, <1>3, QuietMessages DEF Inv, TypeOK
<1> QED
  BY <1>4, <1>5, <1>6, <1>7 DEF Inv

LEMMA UnlockInv ==
    ASSUME Inv, NEW c \in Client, Unlock(c) PROVE Inv'
<1>1. /\ pc[c] = "unlock" /\ pending[c] = <<>> /\ gameMutex' = NoOwner
      /\ pc' = [pc EXCEPT ![c] = "idle"]
      /\ ready' = ready /\ turn' = turn /\ pending' = pending /\ shown' = shown
  BY DEF Unlock, At
<1>2. gameMutex = c /\ \A d \in Client \ {c} : pc[d] \in {"idle", "update"}
  BY <1>1, Alone DEF Locked, Sections
<1>3. \A d : Due(d)' = Due(d)
  BY <1>1, <1>2 DEF Due, Members, Inv, TypeOK
<1>4. TypeOK'
  BY <1>1 DEF Inv, TypeOK, Sections
<1>5. PlayersStay'
  BY <1>1, <1>2 DEF Inv, TypeOK, PlayersStay, Members, Paired
<1>6. LockInv'
  BY <1>1, <1>2, OwnersAssumption DEF Inv, TypeOK, LockInv, Members, Locked, Sections, InPlay
<1>7. MessageInv'
  BY <1>1, <1>2, <1>3, QuietMessages DEF Inv, TypeOK
<1> QED
  BY <1>4, <1>5, <1>6, <1>7 DEF Inv

LEMMA AddUserInv ==
    ASSUME Inv, NEW c \in Client, AddUser(c) PROVE Inv'
<1>1. /\ pc[c] = "idle" /\ pending[c] = <<>>
      /\ c \notin Members /\ Cardinality(Members) < 2
      /\ Members' = Members \cup {c}
      /\ ready' \in [Members \cup {c} -> BOOLEAN]
      /\ turn' = turn /\ gameMutex' = gameMutex /\ pc' = pc
      /\ pending' = pending /\ shown' = shown
  BY Seats DEF AddUser, At, Inv, Members
<1>2. ~ Paired
  BY <1>1, Seats DEF Paired, Inv
<1>3. turn = NoSocket \/ \E d \in Client : pc[d] = "reset"
  BY <1>2 DEF Inv, PlayersStay
<1>4. \A d : Due(d)' = Due(d)
  BY <1>1, <1>3 DEF Due
<1>5. TypeOK'
  <2>1. IsFiniteSet(Members) /\ Cardinality(Members) \in Nat /\ Members \subseteq Client
    BY Seats DEF Inv
  <2>2. Cardinality(Members \cup {c}) <= 2
    <3>1. Cardinality(Members \cup {c}) = Cardinality(Members) + 1
      BY <1>1, <2>1, FS_AddElement
    <3> QED
      BY <1>1, <2>1, <3>1
  <2>3. \E seated \in SUBSET Client :
           Cardinality(seated) <= 2 /\ ready' \in [seated -> BOOLEAN]
    BY <1>1, <2>1, <2>2
  <2> QED
    BY <1>1, <2>3 DEF Inv, TypeOK
<1>6. PlayersStay'
  BY <1>1, <1>2, <1>3 DEF Inv, PlayersStay
<1>7. LockInv'
  BY <1>1 DEF Inv, LockInv
<1>8. MessageInv'
  BY <1>1, <1>4, QuietMessages DEF Inv, TypeOK
<1> QED
  BY <1>5, <1>6, <1>7, <1>8 DEF Inv

LEMMA GetRoomCountInv ==
    ASSUME Inv, NEW c \in Client, GetRoomCount(c) PROVE Inv'
<1>1. /\ pc[c] = "idle" /\ pending[c] = <<>>
      /\ pc' = [pc EXCEPT ![c] = "update"]
      /\ ready' = ready /\ turn' = turn /\ gameMutex' = gameMutex
      /\ pending' = pending /\ shown' = shown
  BY DEF GetRoomCount, At
<1>2. \A d : Due(d)' = Due(d)
  BY <1>1 DEF Due, Members, Inv, TypeOK
<1>3. TypeOK'
  BY <1>1 DEF Inv, TypeOK, Sections
<1>4. PlayersStay'
  BY <1>1 DEF Inv, TypeOK, PlayersStay, Members, Paired
<1>5. LockInv'
  BY <1>1 DEF Inv, TypeOK, LockInv, Members, Locked, InPlay
<1>6. MessageInv'
  BY <1>1, <1>2, QuietMessages DEF Inv, TypeOK
<1> QED
  BY <1>3, <1>4, <1>5, <1>6 DEF Inv

LEMMA CheckReadyInv ==
    ASSUME Inv, NEW c \in Client, CheckReady(c) PROVE Inv'
<1>1. /\ pc[c] = "check" /\ pending[c] = <<>> /\ pc'[c] \in {"start", "unlock"}
      /\ pc' = [pc EXCEPT ![c] = pc'[c]]
      /\ pc'[c] = "start" => Paired /\ \A m \in Members : ready[m]
      /\ ready' = ready /\ turn' = turn /\ gameMutex' = gameMutex
      /\ pending' = pending /\ shown' = shown
  BY DEF CheckReady, At, Collect, Inv, TypeOK
<1>2. gameMutex = c /\ \A d \in Client \ {c} : pc[d] \in {"idle", "update"}
  BY <1>1, Alone DEF Locked, Sections
<1>3. turn = NoSocket
  BY <1>1 DEF Inv, LockInv
<1>4. c \in Members
  BY <1>1 DEF Inv, LockInv
<1>5. \A d : Due(d)' = Due(d)
  BY <1>1, <1>3 DEF Due, Members
<1>6. TypeOK'
  BY <1>1 DEF Inv, TypeOK, Sections
<1>7. PlayersStay'
  BY <1>1, <1>2, <1>3, <1>4 DEF Inv, TypeOK, PlayersStay, Members, Paired
<1>8. LockInv'
  <2>1. \A d \in Client \ {c} : pc'[d] = pc[d]
    BY <1>1 DEF Inv, TypeOK
  <2>2. Members' = Members
    BY <1>1 DEF Members
  <2>3. pc'[c] \in Locked /\ pc'[c] \notin {"check", "remove", "deal"} \cup (InPlay \ {"start", "deal"})
    BY <1>1 DEF Locked, Sections, InPlay
  <2>4. \A d \in Client \ {c} : pc'[d] \notin Locked \cup InPlay \cup {"check", "remove"}
    BY <1>2, <2>1 DEF Locked, Sections, InPlay
  <2> QED
    BY <1>1, <1>2, <1>3, <2>2, <2>3, <2>4 DEF LockInv, InPlay
<1>9. MessageInv'
  BY <1>1, <1>5, QuietMessages DEF Inv, TypeOK
<1> QED
  BY <1>6, <1>7, <1>8, <1>9 DEF Inv

LEMMA StartSessionInv ==
    ASSUME Inv, NEW c \in Client, StartSession(c) PROVE Inv'
<1>1. /\ pc[c] = "start" /\ pending[c] = <<>>
      /\ pc' = [pc EXCEPT ![c] = "deal"] /\ turn' = c
      /\ ready' = ready /\ gameMutex' = gameMutex
      /\ pending' = pending /\ shown' = shown
  BY DEF StartSession, At
<1>2. gameMutex = c /\ \A d \in Client \ {c} : pc[d] \in {"idle", "update"}
  BY <1>1, Alone DEF Locked, Sections
<1>3. turn = NoSocket /\ Paired /\ c \in Members
  BY <1>1 DEF Inv, LockInv, PlayersStay
<1>4. \A d : Due(d)' = Due(d)
  BY <1>1, <1>3 DEF Due, Inv, TypeOK
<1>5. TypeOK'
  BY <1>1 DEF Inv, TypeOK, Sections
<1>6. PlayersStay'
  BY <1>1, <1>2, <1>3 DEF Inv, TypeOK, PlayersStay, Members, Paired
<1>7. LockInv'
  BY <1>1, <1>2, OwnersAssumption DEF Inv, TypeOK, LockInv, Members, Locked, Sections, InPlay
<1>8. MessageInv'
  BY <1>1, <1>4, QuietMessages DEF Inv, TypeOK
<1> QED
  BY <1>5, <1>6, <1>7, <1>8 DEF Inv

\* A closed round goes on or ends the match; the flags may be cleared, which no
\* message tells.
LEMMA ClosingInv ==
    ASSUME Inv, NEW c \in Client, EndCheck(c) \/ PrepareNextRound(c) PROVE Inv'
<1>1. /\ pc[c] \in {"close", "next", "drawn"} /\ pending[c] = <<>>
      /\ pc'[c] \in {"next", "drawn", "pass", "finish"}
      /\ pc' = [pc EXCEPT ![c] = pc'[c]]
      /\ ready' = ready \/ ready' = Unready
      /\ turn' = turn /\ gameMutex' = gameMutex
      /\ pending' = pending /\ shown' = shown
  BY DEF EndCheck, PrepareNextRound, At, Inv, TypeOK
<1>2. gameMutex = c /\ \A d \in Client \ {c} : pc[d] \in {"idle", "update"}
  BY <1>1, Alone DEF Locked, Sections
<1>3. turn # NoSocket /\ Paired /\ c \in Members
  BY <1>1 DEF Inv, LockInv, PlayersStay, InPlay
<1>4. /\ Members' = Members /\ ready' \in [Members -> BOOLEAN]
      /\ Members \subseteq Client /\ Cardinality(Members) <= 2
  BY <1>1, Seats DEF Members, Unready, Inv
<1>5. \A d : Due(d)' = Due(d)
  BY <1>1, <1>4 DEF Due, Inv, TypeOK
<1>6. TypeOK'
  BY <1>1, <1>4 DEF Inv, TypeOK, Sections
<1>7. PlayersStay'
  BY <1>1, <1>2, <1>3, <1>4 DEF Inv, TypeOK, PlayersStay, Paired
<1>8. LockInv'
  BY <1>1, <1>2, <1>3, <1>4 DEF Inv, TypeOK, LockInv, Locked, Sections, InPlay
<1>9. MessageInv'
  BY <1>1, <1>5, QuietMessages DEF Inv, TypeOK
<1> QED
  BY <1>6, <1>7, <1>8, <1>9 DEF Inv

LEMMA ResetGameInv ==
    ASSUME Inv, NEW c \in Client, ResetGame(c) PROVE Inv'
<1>1. /\ pc[c] = "reset" /\ pending[c] = <<>>
      /\ pc' = [pc EXCEPT ![c] = "unlock"] /\ turn' = NoSocket
      /\ ready' = ready /\ gameMutex' = gameMutex
      /\ pending' = pending /\ shown' = shown
  BY DEF ResetGame, At
<1>2. gameMutex = c /\ \A d \in Client \ {c} : pc[d] \in {"idle", "update"}
  BY <1>1, Alone DEF Locked, Sections
<1>3. \A d : Due(d)' = Due(d)
  BY <1>1 DEF Due
<1>4. TypeOK'
  BY <1>1 DEF Inv, TypeOK, Sections
<1>5. PlayersStay'
  BY <1>1, <1>2 DEF Inv, TypeOK, PlayersStay, Members, Paired
<1>6. LockInv'
  BY <1>1, <1>2 DEF Inv, TypeOK, LockInv, Members, Locked, Sections, InPlay
<1>7. MessageInv'
  BY <1>1, <1>3, QuietMessages DEF Inv, TypeOK
<1> QED
  BY <1>4, <1>5, <1>6, <1>7 DEF Inv

\* A section ends with messages to be queued: those about the turn, which only
\* the holder of gameMutex may send, are right, and reach everybody for whom the
\* turn has changed.
LEMMA CollectInv ==
    ASSUME Inv, NEW c \in Client, NEW messages \in Seq(Messages),
           pending[c] = <<>>, pending' = [pending EXCEPT ![c] = messages],
           pc' = [pc EXCEPT ![c] = pc'[c]], pc'[c] \in {"idle", "unlock", "reset"},
           shown' = shown, gameMutex' = gameMutex,
           gameMutex = c \/ \A d : Due(d)' = Due(d),
           \A m \in Items(messages) : m.kind \in TurnKinds =>
               gameMutex = c /\ TurnBy(m.kind) = Due(m.to)',
           \A d \in Client : \/ Due(d)' = Due(d)
                             \/ \E m \in Items(messages) : m.to = d /\ m.kind \in TurnKinds
    PROVE  MessageInv' /\ pending' \in [Client -> Seq(Messages)]
<1>1. \A d \in Client : Unsent(d)' = IF d = c THEN Items(messages) ELSE Unsent(d)
  BY DEF Unsent, Inv, TypeOK
<1>2. Unsent(c) = {}
  BY ItemsOfNone DEF Unsent
<1>3. \A d \in Client : pc'[d] \notin {"idle", "unlock", "reset"} => pending'[d] = <<>>
  BY DEF Inv, TypeOK, MessageInv
<1>4. \A d \in Client : \A m \in Unsent(d)' :
          m.kind \in TurnKinds => gameMutex' = d /\ TurnBy(m.kind) = Due(m.to)'
  <2> SUFFICES ASSUME NEW d \in Client, NEW m \in Unsent(d)', m.kind \in TurnKinds
               PROVE  gameMutex = d /\ TurnBy(m.kind) = Due(m.to)'
    OBVIOUS
  <2>1. CASE d = c
    BY <2>1, <1>1
  <2>2. CASE d # c
    BY <2>2, <1>1 DEF Inv, MessageInv
  <2> QED
    BY <2>1, <2>2
<1>5. ASSUME NEW d \in Client,
             \A e \in Client : \A m \in Unsent(e)' : m.to = d => m.kind \notin TurnKinds
      PROVE  shown'[d].turn = Due(d)'
  <2>1. \A e \in Client : \A m \in Unsent(e) : m.to = d => m.kind \notin TurnKinds
    BY <1>1, <1>2, <1>5
  <2>2. Due(d)' = Due(d)
    BY <1>1, <1>5
  <2> QED
    BY <2>1, <2>2 DEF Inv, MessageInv
<1>6. pending' \in [Client -> Seq(Messages)]
  BY DEF Inv, TypeOK, Messages
<1> QED
  BY <1>3, <1>4, <1>5, <1>6 DEF MessageInv

LEMMA UserUpdateInv ==
    ASSUME Inv, NEW c \in Client, UserUpdate(c) PROVE Inv'
<1> DEFINE messages == IF Paired THEN <<Message(Rival(c), Flag(ready[c])),
                                        Message(c, Flag(ready[Rival(c)]))>>
                                 ELSE <<>>
<1>1. /\ pc[c] = "update" /\ pending[c] = <<>>
      /\ pc' = [pc EXCEPT ![c] = "idle"]
      /\ pending' = [pending EXCEPT ![c] = messages]
      /\ ready' = ready /\ turn' = turn /\ gameMutex' = gameMutex /\ shown' = shown
  BY DEF UserUpdate, At, Collect
<1>2. messages \in Seq(Messages) /\ \A m \in Items(messages) : m.kind \notin TurnKinds
  <2>1. CASE Paired
    <3>1. Rival(c) \in Client
      BY <2>1, RivalIsMember DEF Inv
    <3>2. Message(Rival(c), Flag(ready[c])) \in Messages
          /\ Message(Rival(c), Flag(ready[c])).kind \notin TurnKinds
      BY <3>1, FlagKind, MessageType
    <3>3. Message(c, Flag(ready[Rival(c)])) \in Messages
          /\ Message(c, Flag(ready[Rival(c)])).kind \notin TurnKinds
      BY <3>1, FlagKind, MessageType
    <3>4. messages = <<Message(Rival(c), Flag(ready[c])), Message(c, Flag(ready[Rival(c)]))>>
      BY <2>1
    <3> QED
      BY <3>2, <3>3, <3>4, ItemsOfTwo
  <2>2. CASE ~ Paired
    BY <2>2, ItemsOfNone
  <2> QED
    BY <2>1, <2>2
<1> HIDE DEF messages
<1>3. \A d : Due(d)' = Due(d)
  BY <1>1 DEF Due, Members, Inv, TypeOK
<1>4. MessageInv' /\ pending' \in [Client -> Seq(Messages)]
  BY <1>1, <1>2, <1>3, CollectInv DEF Inv, TypeOK
<1>5. TypeOK'
  BY <1>1, <1>4 DEF Inv, TypeOK, Sections, Messages
<1>6. PlayersStay'
  BY <1>1 DEF Inv, TypeOK, PlayersStay, Members, Paired
<1>7. LockInv'
  BY <1>1 DEF Inv, TypeOK, LockInv, Members, Locked, InPlay
<1> QED
  BY <1>4, <1>5, <1>6, <1>7 DEF Inv

LEMMA HandleUserReadyInv ==
    ASSUME Inv, NEW c \in Client, NEW isReady \in BOOLEAN, HandleUserReady(c, isReady)
    PROVE  Inv'
<1> DEFINE message == Message(Rival(c), Flag(isReady))
<1>1. /\ pc[c] = "idle" /\ pending[c] = <<>> /\ pc' = pc
      /\ pending' = [pending EXCEPT ![c] = <<message>>]
      /\ Paired /\ c \in Members /\ ready' = [ready EXCEPT ![c] = isReady]
      /\ turn' = turn /\ gameMutex' = gameMutex /\ shown' = shown
  BY DEF HandleUserReady, At, Collect, Inv, TypeOK
<1>2. /\ <<message>> \in Seq(Messages)
      /\ \A m \in Items(<<message>>) : m.kind \notin TurnKinds
  <2>1. Rival(c) \in Client
    BY <1>1, RivalIsMember DEF Inv
  <2>2. message \in Messages /\ message.kind \notin TurnKinds
    BY <2>1, FlagKind, MessageType
  <2> QED
    BY <2>2, ItemsOfOne
<1> HIDE DEF message
<1>3. /\ Members' = Members /\ ready' \in [Members -> BOOLEAN]
      /\ Members \subseteq Client /\ Cardinality(Members) <= 2
  BY <1>1, Seats DEF Members, Inv
<1>4. \A d : Due(d)' = Due(d)
  BY <1>1, <1>3 DEF Due
<1>5. MessageInv' /\ pending' \in [Client -> Seq(Messages)]
  BY <1>1, <1>2, <1>4, CollectInv DEF Inv, TypeOK
<1>6. TypeOK'
  BY <1>1, <1>3, <1>5 DEF Inv, TypeOK, Messages
<1>7. PlayersStay' /\ LockInv'
  BY <1>1, <1>3 DEF Inv, PlayersStay, LockInv, Paired
<1> QED
  BY <1>5, <1>6, <1>7 DEF Inv

LEMMA MessageIs ==
    \A to, kind : Message(to, kind).to = to /\ Message(to, kind).kind = kind
BY DEF Message

LEMMA TwoMessages ==
    ASSUME NEW c \in Client, NEW d \in Client, NEW j \in Kinds, NEW k \in Kinds
    PROVE  /\ <<Message(c, j)>> \o <<Message(d, k)>> \in Seq(Messages)
           /\ Items(<<Message(c, j)>> \o <<Message(d, k)>>) = {Message(c, j), Message(d, k)}
<1> DEFINE s == <<Message(c, j)>>
           t == <<Message(d, k)>>
<1>1. s \in Seq(Messages) /\ t \in Seq(Messages)
  BY MessageType
<1>2. Items(s) = {Message(c, j)} /\ Items(t) = {Message(d, k)}
  BY ItemsOfOne
<1> HIDE DEF s, t
<1>3. s \o t \in Seq(Messages) /\ Items(s \o t) = Items(s) \cup Items(t)
  BY ONLY <1>1, ItemsOfConcat
<1> QED
  BY <1>2, <1>3 DEF s, t

LEMMA DealInv ==
    ASSUME Inv, NEW c \in Client, Deal(c) PROVE Inv'
<1>1. pc[c] = "deal" /\ pending[c] = <<>>
  BY DEF Deal, At
<1>2. gameMutex = c /\ \A d \in Client \ {c} : pc[d] \in {"idle", "update"}
  BY <1>1, Alone DEF Locked, Sections
<1>3. turn = c /\ turn # NoSocket /\ Paired /\ c \in Members
  BY <1>1, OwnersAssumption DEF Inv, LockInv, PlayersStay, InPlay
<1>4. PICK rival \in Client : rival = Rival(c) /\ rival # c /\ Members = {c, rival}
  BY <1>3, RivalIsOther, RivalIsMember DEF Inv
<1> DEFINE messages == <<Message(c, "My")>> \o <<Message(rival, "Other")>>
<1>5. /\ pc' = [pc EXCEPT ![c] = "unlock"]
      /\ pending' = [pending EXCEPT ![c] = messages]
      /\ ready' = ready /\ turn' = turn /\ gameMutex' = gameMutex /\ shown' = shown
  BY <1>3, <1>4 DEF Deal, Collect, TurnMessages
<1>6. /\ messages \in Seq(Messages)
      /\ Items(messages) = {Message(c, "My"), Message(rival, "Other")}
  <2>1. "My" \in Kinds /\ "Other" \in Kinds
    BY DEF Kinds
  <2> QED
    BY <2>1, TwoMessages
<1> HIDE DEF messages
<1>7. Members' = Members /\ \A d \in Client : pc'[d] \notin {"deal", "reset"}
  BY <1>1, <1>2, <1>5 DEF Members, Inv, TypeOK
<1>8. /\ \A d : d \notin Members => Due(d)' = Due(d)
      /\ Due(c)' = "My" /\ Due(rival)' = "Other"
  BY <1>3, <1>4, <1>5, <1>7 DEF Due
<1>9. \A m \in Items(messages) : TurnBy(m.kind) = Due(m.to)'
  BY <1>6, <1>8, MessageIs DEF TurnBy
<1>a. \A d \in Client : \/ Due(d)' = Due(d)
                        \/ \E m \in Items(messages) : m.to = d /\ m.kind \in TurnKinds
  BY <1>4, <1>6, <1>8, MessageIs DEF TurnKinds
<1>b. MessageInv' /\ pending' \in [Client -> Seq(Messages)]
  BY <1>1, <1>2, <1>5, <1>6, <1>9, <1>a, CollectInv DEF Inv, TypeOK
<1>c. TypeOK'
  BY <1>5, <1>b DEF Inv, TypeOK, Sections, Messages
<1>d. PlayersStay'
  BY <1>2, <1>3, <1>5, <1>7 DEF Inv, TypeOK, PlayersStay, Paired
<1>e. LockInv'
  BY <1>2, <1>3, <1>5, <1>7 DEF Inv, TypeOK, LockInv, Locked, Sections, InPlay
<1> QED
  BY <1>b, <1>c, <1>d, <1>e DEF Inv

LEMMA PassTurnInv ==
    ASSUME Inv, NEW c \in Client, PassTurn(c) PROVE Inv'
<1>1. pc[c] = "pass" /\ pending[c] = <<>>
  BY DEF PassTurn, At
<1>2. gameMutex = c /\ \A d \in Client \ {c} : pc[d] \in {"idle", "update"}
  BY <1>1, Alone DEF Locked, Sections
<1>3. turn # NoSocket /\ Paired /\ c \in Members
  BY <1>1 DEF Inv, LockInv, PlayersStay, InPlay
<1>4. PICK rival \in Client : /\ rival = Rival(c) /\ rival # c /\ Members = {c, rival}
                              /\ Rival(rival) = c /\ rival # NoSocket
  BY <1>3, RivalIsOther, RivalIsMember, OwnersAssumption DEF Inv
<1> DEFINE messages == <<Message(rival, "My")>> \o <<Message(c, "Other")>>
<1>5. /\ pc' = [pc EXCEPT ![c] = "unlock"] /\ turn' = rival
      /\ pending' = [pending EXCEPT ![c] = messages]
      /\ ready' = ready /\ gameMutex' = gameMutex /\ shown' = shown
  BY <1>3, <1>4 DEF PassTurn, Collect, TurnMessages
<1>6. /\ messages \in Seq(Messages)
      /\ Items(messages) = {Message(rival, "My"), Message(c, "Other")}
  <2>1. "My" \in Kinds /\ "Other" \in Kinds
    BY DEF Kinds
  <2> QED
    BY <2>1, TwoMessages
<1> HIDE DEF messages
<1>7. Members' = Members /\ \A d \in Client : pc'[d] \notin {"deal", "reset"}
  BY <1>1, <1>2, <1>5 DEF Members, Inv, TypeOK
<1>8. /\ \A d : d \notin Members => Due(d)' = Due(d)
      /\ Due(rival)' = "My" /\ Due(c)' = "Other"
  BY <1>4, <1>5, <1>7 DEF Due
<1>9. \A m \in Items(messages) : TurnBy(m.kind) = Due(m.to)'
  BY <1>6, <1>8, MessageIs DEF TurnBy
<1>a. \A d \in Client : \/ Due(d)' = Due(d)
                        \/ \E m \in Items(messages) : m.to = d /\ m.kind \in TurnKinds
  BY <1>4, <1>6, <1>8, MessageIs DEF TurnKinds
<1>b. MessageInv' /\ pending' \in [Client -> Seq(Messages)]
  BY <1>1, <1>2, <1>5, <1>6, <1>9, <1>a, CollectInv DEF Inv, TypeOK
<1>c. TypeOK'
  BY <1>4, <1>5, <1>b DEF Inv, TypeOK, Sections, Messages
<1>d. PlayersStay'
  BY <1>2, <1>3, <1>4, <1>5, <1>7 DEF Inv, TypeOK, PlayersStay, Paired
<1>e. LockInv'
  BY <1>2, <1>3, <1>4, <1>5, <1>7 DEF Inv, TypeOK, LockInv, Locked, Sections, InPlay
<1> QED
  BY <1>b, <1>c, <1>d, <1>e DEF Inv

LEMMA FinishGameInv ==
    ASSUME Inv, NEW c \in Client, FinishGame(c) PROVE Inv'
<1>1. pc[c] = "finish" /\ pending[c] = <<>>
  BY DEF FinishGame, At
<1>2. gameMutex = c /\ \A d \in Client \ {c} : pc[d] \in {"idle", "update"}
  BY <1>1, Alone DEF Locked, Sections
<1>3. turn # NoSocket /\ Paired /\ c \in Members
  BY <1>1 DEF Inv, LockInv, PlayersStay, InPlay
<1>4. PICK rival \in Client : rival = Rival(c) /\ Members = {c, rival}
  BY <1>3, RivalIsOther, RivalIsMember DEF Inv
<1> DEFINE messages == <<Message(c, "Final")>> \o <<Message(rival, "Final")>>
<1>5. /\ pc' = [pc EXCEPT ![c] = "reset"]
      /\ pending' = [pending EXCEPT ![c] = messages]
      /\ ready' = ready /\ turn' = turn /\ gameMutex' = gameMutex /\ shown' = shown
  BY <1>3, <1>4 DEF FinishGame, Collect
<1>6. /\ messages \in Seq(Messages)
      /\ Items(messages) = {Message(c, "Final"), Message(rival, "Final")}
  <2>1. "Final" \in Kinds
    BY DEF Kinds
  <2> QED
    BY <2>1, TwoMessages
<1> HIDE DEF messages
<1>7. Members' = Members /\ pc'[c] = "reset"
  BY <1>5 DEF Members, Inv, TypeOK
<1>8. \A d : Due(d)' = "None" /\ (d \notin Members => Due(d) = "None")
  BY <1>7 DEF Due
<1>9. \A m \in Items(messages) : TurnBy(m.kind) = Due(m.to)'
  BY <1>6, <1>8, MessageIs DEF TurnBy
<1>a. \A d \in Client : \/ Due(d)' = Due(d)
                        \/ \E m \in Items(messages) : m.to = d /\ m.kind \in TurnKinds
  BY <1>4, <1>6, <1>8, MessageIs DEF TurnKinds
<1>b. MessageInv' /\ pending' \in [Client -> Seq(Messages)]
  BY <1>1, <1>2, <1>5, <1>6, <1>9, <1>a, CollectInv DEF Inv, TypeOK
<1>c. TypeOK'
  BY <1>5, <1>b DEF Inv, TypeOK, Sections, Messages
<1>d. PlayersStay'
  BY <1>2, <1>3, <1>5, <1>7 DEF Inv, TypeOK, PlayersStay, Paired
<1>e. LockInv'
  BY <1>2, <1>3, <1>5, <1>7 DEF Inv, TypeOK, LockInv, Locked, Sections, InPlay
<1> QED
  BY <1>b, <1>c, <1>d, <1>e DEF Inv

\* What removeUser collects: whoever leaves is told so, the other that it is
\* alone and, if there was a match, that it is over.
LEMMA Farewells ==
    ASSUME NEW c \in Client, NEW rival, NEW paired \in BOOLEAN, NEW running \in BOOLEAN,
           paired => rival \in Client
    PROVE  LET messages ==
                 <<Message(c, "Exit_Room_Complete")>> \o
                 (IF paired THEN <<Message(rival, "Exited")>> ELSE <<>>) \o
                 (IF paired /\ running THEN <<Message(rival, "Aborted")>> ELSE <<>>)
           IN /\ messages \in Seq(Messages)
              /\ Items(messages) =
                    {Message(c, "Exit_Room_Complete")}
                    \cup (IF paired THEN {Message(rival, "Exited")} ELSE {})
                    \cup (IF paired /\ running THEN {Message(rival, "Aborted")} ELSE {})
<1> DEFINE goodbye == <<Message(c, "Exit_Room_Complete")>>
           alone == IF paired THEN <<Message(rival, "Exited")>> ELSE <<>>
           over == IF paired /\ running THEN <<Message(rival, "Aborted")>> ELSE <<>>
<1>1. goodbye \in Seq(Messages) /\ Items(goodbye) = {Message(c, "Exit_Room_Complete")}
  BY MessageType, ItemsOfOne DEF Kinds
<1>2. /\ alone \in Seq(Messages)
      /\ Items(alone) = IF paired THEN {Message(rival, "Exited")} ELSE {}
  <2>1. CASE paired
    BY <2>1, MessageType, ItemsOfOne DEF Kinds
  <2>2. CASE ~ paired
    BY <2>2, ItemsOfNone
  <2> QED
    BY <2>1, <2>2
<1>3. /\ over \in Seq(Messages)
      /\ Items(over) = IF paired /\ running THEN {Message(rival, "Aborted")} ELSE {}
  <2>1. CASE paired /\ running
    BY <2>1, MessageType, ItemsOfOne DEF Kinds
  <2>2. CASE ~ (paired /\ running)
    <3>1. over = <<>>
      BY <2>2
    <3> HIDE DEF over
    <3> QED
      BY <2>2, <3>1, ItemsOfNone
  <2> QED
    BY <2>1, <2>2
<1> HIDE DEF goodbye, alone, over
<1>4. /\ goodbye \o alone \in Seq(Messages)
      /\ Items(goodbye \o alone) = Items(goodbye) \cup Items(alone)
  BY ONLY <1>1, <1>2, ItemsOfConcat
<1>5. /\ (goodbye \o alone) \o over \in Seq(Messages)
      /\ Items((goodbye \o alone) \o over) = Items(goodbye \o alone) \cup Items(over)
  <2> DEFINE first == goodbye \o alone
  <2>1. over \in Seq(Messages) /\ first \in Seq(Messages)
    BY <1>3, <1>4
  <2> HIDE DEF first
  <2>2. first \o over \in Seq(Messages) /\ Items(first \o over) = Items(first) \cup Items(over)
    BY ONLY <2>1, ItemsOfConcat
  <2> QED
    BY <2>2 DEF first
<1>6. /\ (goodbye \o alone) \o over \in Seq(Messages)
      /\ Items((goodbye \o alone) \o over) =
            {Message(c, "Exit_Room_Complete")}
            \cup (IF paired THEN {Message(rival, "Exited")} ELSE {})
            \cup (IF paired /\ running THEN {Message(rival, "Aborted")} ELSE {})
  BY <1>1, <1>2, <1>3, <1>4, <1>5
<1> QED
  BY <1>6 DEF goodbye, alone, over

LEMMA RemoveUserInv ==
    ASSUME Inv, NEW c \in Client, RemoveUser(c) PROVE Inv'
<1>1. pc[c] = "remove" /\ pending[c] = <<>>
  BY DEF RemoveUser, At
<1>2. gameMutex = c /\ \A d \in Client \ {c} : pc[d] \in {"idle", "update"}
  BY <1>1, Alone DEF Locked, Sections
<1>3. c \in Members
  BY <1>1 DEF Inv, LockInv
<1>4. PICK rival : rival = Rival(c) /\ (Paired => Members = {c, rival} /\ rival \in Client)
  BY <1>3, RivalIsOther, RivalIsMember DEF Inv
<1>5. ~ Paired => turn = NoSocket
  BY <1>1, <1>2 DEF Inv, PlayersStay
<1>6. PICK messages \in Seq(Messages) :
        /\ Items(messages) =
              {Message(c, "Exit_Room_Complete")}
              \cup (IF Paired THEN {Message(rival, "Exited")} ELSE {})
              \cup (IF Paired /\ turn # NoSocket THEN {Message(rival, "Aborted")} ELSE {})
        /\ pending' = [pending EXCEPT ![c] = messages]
  <2>1. Paired \in BOOLEAN /\ (turn # NoSocket) \in BOOLEAN
    BY DEF Paired
  <2> QED
    BY <2>1, <1>4, Farewells DEF RemoveUser, Collect
<1>7. /\ pc' = [pc EXCEPT ![c] = "reset"]
      /\ ready' = [m \in Members \ {c} |-> FALSE]
      /\ turn' = turn /\ gameMutex' = gameMutex /\ shown' = shown
      /\ Members' = Members \ {c} /\ pc'[c] = "reset"
  BY DEF RemoveUser, Collect, Members, Inv, TypeOK
<1>8. \A d : Due(d)' = "None" /\ (d \notin Members \/ turn = NoSocket => Due(d) = "None")
  BY <1>7 DEF Due
<1>9. \A m \in Items(messages) : m.kind \in TurnKinds => TurnBy(m.kind) = Due(m.to)'
  BY <1>6, <1>8, MessageIs DEF TurnBy, TurnKinds
<1>a. \A d \in Client : \/ Due(d)' = Due(d)
                        \/ \E m \in Items(messages) : m.to = d /\ m.kind \in TurnKinds
  <2> SUFFICES ASSUME NEW d \in Members, turn # NoSocket
               PROVE  \E m \in Items(messages) : m.to = d /\ m.kind \in TurnKinds
    BY <1>8
  <2>1. Paired
    BY <1>5
  <2>2. CASE d = c
    <3>1. Message(c, "Exit_Room_Complete") \in Items(messages)
      BY <1>6
    <3> QED
      BY <2>2, <3>1, MessageIs DEF TurnKinds
  <2>3. CASE d = rival
    <3>1. Message(rival, "Aborted") \in Items(messages)
      BY <2>1, <1>6
    <3> QED
      BY <2>3, <3>1, MessageIs DEF TurnKinds
  <2> QED
    BY <2>1, <2>2, <2>3, <1>4
<1>b. MessageInv' /\ pending' \in [Client -> Seq(Messages)]
  <2>1. /\ pc' = [pc EXCEPT ![c] = pc'[c]] /\ pc'[c] = "reset"
        /\ pending' = [pending EXCEPT ![c] = messages]
        /\ gameMutex' = gameMutex /\ shown' = shown
    BY <1>6, <1>7
  <2> QED
    BY <1>1, <1>2, <1>9, <1>a, <2>1, CollectInv
<1>c. TypeOK'
  <2>1. IsFiniteSet(Members) /\ Cardinality(Members) \in Nat /\ Cardinality(Members) <= 2
        /\ Members \subseteq Client
    BY Seats DEF Inv
  <2>2. Cardinality(Members \ {c}) = Cardinality(Members) - 1
    BY <1>3, <2>1, FS_RemoveElement
  <2>3. Cardinality(Members \ {c}) <= 2
    BY <2>1, <2>2
  <2>4. \E seated \in SUBSET Client :
           Cardinality(seated) <= 2 /\ ready' \in [seated -> BOOLEAN]
    BY <1>7, <2>1, <2>3
  <2> QED
    BY <1>7, <1>b, <2>4 DEF Inv, TypeOK, Sections, Messages
<1>d. PlayersStay'
  BY <1>2, <1>3, <1>7 DEF Inv, TypeOK, PlayersStay
<1>e. LockInv'
  BY <1>2, <1>3, <1>7 DEF Inv, TypeOK, LockInv, Locked, Sections, InPlay
<1> QED
  BY <1>b, <1>c, <1>d, <1>e DEF Inv

LEMMA InitInv == Init => Inv
<1> SUFFICES ASSUME Init PROVE Inv
  OBVIOUS
<1>1. Members = {} /\ IsFiniteSet(Members) /\ Cardinality(Members) = 0
  BY FS_EmptySet DEF Init, Members
<1>2. ready \in [{} -> BOOLEAN] /\ Cardinality({}) <= 2
  BY <1>1 DEF Init, Members
<1>3. TypeOK
  BY <1>2 DEF Init, TypeOK, Sections, Display, Nothing
<1>4. PlayersStay
  BY DEF Init, PlayersStay
<1>5. LockInv
  BY OwnersAssumption DEF Init, LockInv, Locked, InPlay
<1>6. MessageInv
  BY ItemsOfNone DEF Init, MessageInv, Unsent, Due, Nothing
<1> QED
  BY <1>3, <1>4, <1>5, <1>6 DEF Inv

LEMMA LockedInv ==
    ASSUME Inv, NEW c \in Client, GameStartCommand(c) \/ BetCommand(c) \/ ExitCommand(c)
    PROVE  Inv'
<1>1. CASE GameStartCommand(c)
  BY <1>1, LockStepInv DEF GameStartCommand
<1>2. CASE BetCommand(c)
  BY <1>2, LockStepInv DEF BetCommand
<1>3. CASE ExitCommand(c)
  BY <1>3, LockStepInv DEF ExitCommand
<1> QED
  BY <1>1, <1>2, <1>3

LEMMA StepInv == Inv /\ [Next]_vars => Inv'
<1> SUFFICES ASSUME Inv, [Next]_vars PROVE Inv'
  OBVIOUS
<1>1. CASE UNCHANGED vars
  BY <1>1 DEF vars, Inv, TypeOK, PlayersStay, LockInv, MessageInv, Members, Paired,
      Unsent, Due
<1>2. CASE \E c \in Client : Step(c)
  BY <1>2, SendPendingInv, UserUpdateInv, CheckReadyInv, StartSessionInv, DealInv,
     PassTurnInv, ClosingInv, FinishGameInv, RemoveUserInv, ResetGameInv, UnlockInv
     DEF Step
<1>3. CASE \E c \in Client : Command(c)
  BY <1>3, AddUserInv, GetRoomCountInv, HandleUserReadyInv, LockedInv DEF Command
<1> QED
  BY <1>1, <1>2, <1>3 DEF Next

LEMMA InvHolds == Spec => []Inv
<1> QED
  BY InitInv, StepInv, PTL DEF Spec

\* However many workers there are, every variable keeps its type and the room
\* never has a third member.
THEOREM ThreadTypes == Spec => []TypeOK
<1>1. Inv => TypeOK
  BY DEF Inv
<1> QED
  BY <1>1, InvHolds, PTL

\* A handler that needs two players finds them, in every interleaving.
THEOREM PlayersAreThere == Spec => []PlayersStay
<1>1. Inv => PlayersStay
  BY DEF Inv
<1> QED
  BY <1>1, InvHolds, PTL

\* Whenever gameMutex is free every client shows the turn of the match, however
\* the messages of the workers have been queued.
THEOREM TurnIsShown == Spec => []TurnShown
<1>1. Inv => TurnShown
  <2> SUFFICES ASSUME Inv, gameMutex = NoOwner, NEW c \in Client
               PROVE  shown[c].turn = (IF c \notin Members \/ turn = NoSocket THEN "None"
                                       ELSE IF turn = c THEN "My" ELSE "Other")
    BY DEF TurnShown
  <2>1. \A d \in Client : pc[d] \notin Locked
    BY OwnersAssumption DEF Inv, LockInv
  <2>2. \A d \in Client : \A m \in Unsent(d) : m.kind \notin TurnKinds
    BY OwnersAssumption DEF Inv, MessageInv
  <2>3. shown[c].turn = Due(c)
    BY <2>2 DEF Inv, MessageInv
  <2> QED
    BY <2>1, <2>3 DEF Due, Locked, Sections
<1> QED
  BY <1>1, InvHolds, PTL
-------------------------------------------------------------------------------
(* The refinement: every step of a worker is a step of the table, or none. *)

ReadyMembers == {m \in Members : ready[m]}

\* While a handler runs, only its own place says whether a match runs.
LEMMA MatchOfHolder ==
    ASSUME TypeOK, NEW c \in Client, \A d \in Client \ {c} : pc[d] \in {"idle", "update"}
    PROVE  MatchRuns <=> /\ turn # NoSocket \/ pc[c] = "start"
                         /\ pc[c] \notin {"finish", "reset"}
BY DEF MatchRuns

\* A step that changes neither the members nor their flags nor the match.
LEMMA Stutter ==
    ASSUME ready' = ready, MatchRuns' <=> MatchRuns
    PROVE  UNCHANGED T!vars
<1>1. Members' = Members /\ ReadyMembers' = ReadyMembers
  BY DEF Members, ReadyMembers
<1>2. MatchRuns' = MatchRuns
  BY DEF MatchRuns
<1> QED
  BY <1>1, <1>2 DEF T!vars, ReadyMembers

\* A step of the holder of gameMutex to another place in its handler.
LEMMA HolderStutters ==
    ASSUME Inv, Inv', NEW c \in Client, pc[c] \in Locked, ready' = ready,
           pc' = [pc EXCEPT ![c] = pc'[c]],
           (turn' # NoSocket \/ pc'[c] = "start") /\ pc'[c] \notin {"finish", "reset"}
               <=> (turn # NoSocket \/ pc[c] = "start") /\ pc[c] \notin {"finish", "reset"}
    PROVE  UNCHANGED T!vars
<1>1. \A d \in Client \ {c} : pc[d] \in {"idle", "update"}
  BY Alone
<1>2. \A d \in Client \ {c} : pc'[d] \in {"idle", "update"}
  BY <1>1 DEF Inv, TypeOK
<1>3. MatchRuns' <=> MatchRuns
  BY <1>1, <1>2 DEF MatchRuns
<1> QED
  BY <1>3, Stutter

LEMMA InitTable == Init => T!Init
<1> SUFFICES ASSUME Init PROVE T!Init
  OBVIOUS
<1>1. Members = {} /\ ReadyMembers = {}
  BY DEF Init, Members, ReadyMembers
<1>2. MatchRuns = FALSE
  BY DEF Init, MatchRuns
<1> QED
  BY <1>1, <1>2 DEF T!Init, ReadyMembers

\* Steps outside of game handlers, and those that take or release the mutex.
LEMMA IdleTable ==
    ASSUME Inv, NEW c \in Client,
           \/ SendPending(c) \/ UserUpdate(c) \/ GetRoomCount(c)
           \/ \E section \in {"check", "pass", "close", "remove"} : Lock(c, section)
    PROVE  UNCHANGED T!vars
<1>1. CASE SendPending(c)
  BY <1>1, Stutter DEF SendPending, MatchRuns
<1>2. CASE UserUpdate(c) \/ GetRoomCount(c)
  BY <1>2, Stutter DEF UserUpdate, GetRoomCount, Collect, At, MatchRuns, Inv, TypeOK
<1>3. CASE \E section \in {"check", "pass", "close", "remove"} : Lock(c, section)
  BY <1>3, Stutter DEF Lock, At, MatchRuns, Inv, TypeOK
<1> QED
  BY <1>1, <1>2, <1>3

LEMMA AddUserTable ==
    ASSUME Inv, NEW c \in Client, AddUser(c) PROVE T!Sit(c)
<1>1. /\ c \notin Members /\ Cardinality(Members) < 2 /\ Members' = Members \cup {c}
      /\ ReadyMembers' = ReadyMembers
  BY DEF AddUser, Members, ReadyMembers
<1>2. MatchRuns' = MatchRuns
  BY DEF AddUser, MatchRuns
<1> QED
  BY <1>1, <1>2 DEF T!Sit, ReadyMembers, T!Cardinality, Cardinality

LEMMA HandleUserReadyTable ==
    ASSUME Inv, NEW c \in Client, NEW isReady \in BOOLEAN, HandleUserReady(c, isReady)
    PROVE  T!Toggle(c)
<1>1. /\ c \in Members /\ Paired /\ Members' = Members
      /\ ready' = [ready EXCEPT ![c] = isReady]
  BY DEF HandleUserReady, Members
<1>2. ReadyMembers' \in {ReadyMembers \cup {c}, ReadyMembers \ {c}}
  BY <1>1, Seats DEF ReadyMembers, Inv
<1>3. MatchRuns' = MatchRuns
  BY DEF HandleUserReady, Collect, At, MatchRuns, Inv, TypeOK
<1> QED
  BY <1>1, <1>2, <1>3 DEF T!Toggle, T!Full, Paired, ReadyMembers, T!Cardinality,
      Cardinality

\* The match begins with the ready check.
LEMMA CheckReadyTable ==
    ASSUME Inv, Inv', NEW c \in Client, CheckReady(c) PROVE T!Start \/ UNCHANGED T!vars
<1>1. /\ pc[c] = "check" /\ pc'[c] \in {"start", "unlock"}
      /\ pc' = [pc EXCEPT ![c] = pc'[c]]
      /\ pc'[c] = "start" => Paired /\ \A m \in Members : ready[m]
      /\ ready' = ready /\ turn' = turn
  BY DEF CheckReady, At, Collect, Inv, TypeOK
<1>2. /\ \A d \in Client \ {c} : pc[d] \in {"idle", "update"}
      /\ pc[c] \in Locked
  BY <1>1, Alone DEF Locked, Sections
<1>3. turn = NoSocket
  BY <1>1 DEF Inv, LockInv
<1>4. CASE pc'[c] = "start"
  <2>1. Members' = Members /\ ReadyMembers' = ReadyMembers /\ ReadyMembers = Members /\ Paired
    BY <1>1, <1>4 DEF Members, ReadyMembers
  <2>2. ~ MatchRuns
    BY <1>1, <1>2, <1>3, MatchOfHolder DEF Inv
  <2>3. \A d \in Client \ {c} : pc'[d] \in {"idle", "update"}
    BY <1>1, <1>2 DEF Inv, TypeOK
  <2>4. MatchRuns' = TRUE
    BY <1>4, <2>3 DEF MatchRuns
  <2> QED
    BY <2>1, <2>2, <2>4 DEF T!Start, T!Full, Paired, ReadyMembers, T!Cardinality,
        Cardinality
<1>5. CASE pc'[c] = "unlock"
  BY <1>1, <1>2, <1>3, <1>5, HolderStutters
<1> QED
  BY <1>1, <1>4, <1>5

\* Cleared flags, with or without the end of the match.
LEMMA ClosingTable ==
    ASSUME Inv, Inv', NEW c \in Client, EndCheck(c) \/ PrepareNextRound(c)
    PROVE  T!Close \/ UNCHANGED T!vars
<1>1. /\ pc[c] \in {"close", "next", "drawn"}
      /\ pc'[c] \in {"next", "drawn", "pass", "finish"}
      /\ pc' = [pc EXCEPT ![c] = pc'[c]]
      /\ ready' = ready \/ ready' = Unready
      /\ ready' = ready => pc'[c] # "finish" \/ ready' = Unready
      /\ turn' = turn
  BY DEF EndCheck, PrepareNextRound, At, Inv, TypeOK
<1>2. /\ \A d \in Client \ {c} : pc[d] \in {"idle", "update"}
      /\ pc[c] \in Locked
  BY <1>1, Alone DEF Locked, Sections
<1>3. turn # NoSocket
  BY <1>1 DEF Inv, LockInv, InPlay
<1>4. MatchRuns
  BY <1>1, <1>2, <1>3, MatchOfHolder DEF Inv
<1>5. CASE ready' = Unready
  <2>1. Members' = Members /\ ReadyMembers' = {}
    BY <1>5 DEF Members, ReadyMembers, Unready
  <2>2. MatchRuns' \in BOOLEAN
    BY DEF MatchRuns
  <2> QED
    BY <1>4, <2>1, <2>2 DEF T!Close, ReadyMembers
<1>6. CASE ready' = ready /\ pc'[c] # "finish"
  BY <1>1, <1>2, <1>3, <1>6, HolderStutters
<1> QED
  BY <1>1, <1>5, <1>6

LEMMA RemoveUserTable ==
    ASSUME Inv, NEW c \in Client, RemoveUser(c) PROVE T!Leave(c)
<1>1. /\ pc[c] = "remove" /\ pc'[c] = "reset"
      /\ ready' = [m \in Members \ {c} |-> FALSE]
  BY DEF RemoveUser, At, Collect, Inv, TypeOK
<1>2. c \in Members
  BY <1>1 DEF Inv, LockInv
<1>3. Members' = Members \ {c} /\ ReadyMembers' = {}
  BY <1>1 DEF Members, ReadyMembers
<1>4. MatchRuns' = FALSE
  BY <1>1 DEF MatchRuns
<1> QED
  BY <1>2, <1>3, <1>4 DEF T!Leave, ReadyMembers

\* Every other section of a game handler.
LEMMA HolderTable ==
    ASSUME Inv, Inv', NEW c \in Client,
           \/ StartSession(c) \/ Deal(c) \/ PassTurn(c) \/ FinishGame(c)
           \/ ResetGame(c) \/ Unlock(c)
    PROVE  UNCHANGED T!vars
<1>1. /\ pc[c] \in {"start", "deal", "pass", "finish", "reset", "unlock"}
      /\ ready' = ready /\ pc' = [pc EXCEPT ![c] = pc'[c]]
  BY DEF StartSession, Deal, PassTurn, FinishGame, ResetGame, Unlock, Collect, At,
     Inv, TypeOK
<1>2. pc[c] \in Locked
  BY <1>1 DEF Locked, Sections
<1>3. pc[c] \in {"deal", "pass", "finish"} => turn # NoSocket
  BY OwnersAssumption DEF Inv, LockInv, InPlay
<1>4. pc[c] = "pass" => Paired
  BY DEF Inv, PlayersStay
<1>5. (turn' # NoSocket \/ pc'[c] = "start") /\ pc'[c] \notin {"finish", "reset"}
         <=> (turn # NoSocket \/ pc[c] = "start") /\ pc[c] \notin {"finish", "reset"}
  <2>1. CASE StartSession(c)
    BY <2>1, OwnersAssumption DEF StartSession, At, Inv, TypeOK
  <2>2. CASE Deal(c)
    BY <2>2, <1>3 DEF Deal, At, Collect, Inv, TypeOK
  <2>3. CASE PassTurn(c)
    <3>1. Rival(c) \in Client /\ pc[c] = "pass" /\ Paired
      BY <2>3, <1>4, RivalIsMember DEF PassTurn, At, Inv
    <3> QED
      BY <2>3, <3>1, <1>3, OwnersAssumption DEF PassTurn, Collect, Inv, TypeOK
  <2>4. CASE FinishGame(c) \/ ResetGame(c) \/ Unlock(c)
    BY <2>4 DEF FinishGame, ResetGame, Unlock, At, Collect, Inv, TypeOK
  <2> QED
    BY <2>1, <2>2, <2>3, <2>4
<1> QED
  BY <1>1, <1>2, <1>5, HolderStutters

LEMMA StepTable == Inv /\ Inv' /\ [Next]_vars => [T!Next]_(T!vars)
<1> SUFFICES ASSUME Inv, Inv', [Next]_vars PROVE T!Next \/ UNCHANGED T!vars
  OBVIOUS
<1>1. CASE UNCHANGED vars
  BY <1>1, Stutter DEF vars, MatchRuns
<1>2. CASE \E c \in Client : Step(c)
  BY <1>2, IdleTable, CheckReadyTable, ClosingTable, RemoveUserTable, HolderTable
     DEF Step, T!Next
<1>3. CASE \E c \in Client : Command(c)
  <2> SUFFICES ASSUME NEW c \in Client, Command(c) PROVE T!Next \/ UNCHANGED T!vars
    BY <1>3
  <2>1. CASE AddUser(c)
    BY <2>1, AddUserTable DEF T!Next
  <2>2. CASE \E isReady \in BOOLEAN : HandleUserReady(c, isReady)
    BY <2>2, HandleUserReadyTable DEF T!Next
  <2>3. CASE GetRoomCount(c)
    BY <2>3, IdleTable
  <2>4. CASE GameStartCommand(c) \/ BetCommand(c) \/ ExitCommand(c)
    BY <2>4, IdleTable DEF GameStartCommand, BetCommand, ExitCommand
  <2> QED
    BY <2>1, <2>2, <2>3, <2>4 DEF Command
<1> QED
  BY <1>1, <1>2, <1>3 DEF Next

\* Critical section by critical section, and however many workers interleave,
\* the room keeps the promise of Table: a match begins between two seated players
\* who are ready at that moment and ends when one of them leaves.
THEOREM ThreadsImplementTable == Spec => ImplementsTable
<1> QED
  BY InitTable, StepTable, InvHolds, PTL DEF Spec, ImplementsTable, T!Spec
===============================================================================
