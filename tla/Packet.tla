--------------------------------- MODULE Packet -------------------------------
(***************************************************************************)
(* TwofacedPoker/Protocol/Packet.cpp: messages framed by their length on a *)
(* byte stream that takes and gives bytes in pieces of any size and may    *)
(* end anywhere.  One direction of a connection: SendPacket at one end,    *)
(* ReceivePacket, called again and again, at the other.                    *)
(*                                                                         *)
(* A byte is what it stands for: a part of the length or a part of the     *)
(* body of the k-th message.  The stream is TCP's: bytes arrive in order,  *)
(* once, up to the point where the connection is closed or lost.           *)
(***************************************************************************)
EXTENDS Integers, Sequences

CONSTANTS MAX_PACKET_SIZE,   \* 1024 in the code
          HEADER,            \* bytes of the length, 4 in the code
          WIRE,              \* bytes under way at a time (the system's buffers)
          MaxPackets         \* bound of the model: messages sent

ASSUME SizesAssumption ==
    /\ MAX_PACKET_SIZE \in Nat \ {0} /\ HEADER \in Nat \ {0}
    /\ WIRE \in Nat \ {0} /\ MaxPackets \in Nat

VARIABLES accepted,   \* the bodies SendPacket was given
          outgoing,   \* SendAll: the buffers of this packet, what is left of them
          wire,       \* bytes under way
          sender,     \* its end: open, rogue (breaks the protocol), closed or lost
          expected,   \* ReceivePacket: 0 for the header, else the body's length
          buffer,     \* RecvAll: what has arrived of the part it waits for
          received,   \* the messages ReceivePacket has returned
          receiver    \* reads until it returns nullopt

vars == <<accepted, outgoing, wire, sender, expected, buffer, received, receiver>>
sending == <<accepted, outgoing, sender>>
receiving == <<expected, buffer, received, receiver>>

Header(n) == [i \in 1..HEADER |-> [length |-> n, at |-> i]]
Body(k, n) == [i \in 1..n |-> [message |-> k, at |-> i]]

\* ntohl: four bytes that are no header read as just any number.
Lengths == 0..(MAX_PACKET_SIZE + 1)
Decoded(bytes) ==
    LET whole == {n \in Lengths : bytes = Header(n)}
    IN IF whole = {} THEN Lengths ELSE whole

\* No byte will follow those under way.
Over == sender \in {"closed", "lost"}

Init ==
    /\ accepted = <<>> /\ outgoing = <<>> /\ wire = <<>>
    /\ sender = "open"
    /\ expected = 0 /\ buffer = <<>> /\ received = <<>>
    /\ receiver = "reading"
-------------------------------------------------------------------------------
(* Sending.                                                                *)

\* Mutant of Buffers: the length counts the header too.
BuffersOffByOne(k, n) == <<Header(n + 1), Body(k, n)>>

\* The two calls of SendAll.
Buffers(k, n) == <<Header(n), Body(k, n)>>

\* An empty or too long message is refused and nothing is sent.
SendPacket(n) ==
    /\ sender = "open" /\ outgoing = <<>> /\ Len(accepted) < MaxPackets
    /\ n \in 1..MAX_PACKET_SIZE
    /\ LET k == Len(accepted) + 1
       IN /\ accepted' = Append(accepted, Body(k, n))
          /\ outgoing' = Buffers(k, n)
    /\ UNCHANGED <<wire, sender, receiving>>

\* One send() takes some bytes of the current buffer.
SendSome ==
    /\ ~ Over /\ outgoing # <<>>
    /\ LET part == Head(outgoing)
       IN \E n \in 1..Len(part) :
            /\ Len(wire) + n <= WIRE
            /\ wire' = wire \o SubSeq(part, 1, n)
            /\ outgoing' = IF n = Len(part) THEN Tail(outgoing)
                           ELSE <<SubSeq(part, n + 1, Len(part))>> \o Tail(outgoing)
    /\ UNCHANGED <<accepted, sender, receiving>>

\* The end of the sender, between two packets or inside one: what it has not
\* handed to the system is never sent.
Close ==
    /\ ~ Over
    /\ sender' = "closed" /\ outgoing' = <<>>
    /\ UNCHANGED <<accepted, wire, receiving>>

\* The connection is lost with what is under way: send and recv fail.
Lose ==
    /\ receiver = "reading"
    /\ sender' = "lost" /\ outgoing' = <<>> /\ wire' = <<>>
    /\ UNCHANGED <<accepted, receiving>>

\* External: a peer that does not keep to the protocol sends a length of no
\* packet, and something after it in which one may read headers and bodies.
SendBadLength(n) ==
    /\ sender = "open" /\ outgoing = <<>>
    /\ sender' = "rogue"
    /\ \E m \in 1..MAX_PACKET_SIZE : outgoing' = <<Header(n), Body(0, m)>>
    /\ UNCHANGED <<accepted, wire, receiving>>
-------------------------------------------------------------------------------
(* Receiving.                                                              *)

Needed == IF expected = 0 THEN HEADER ELSE expected

\* Mutant of ReceiveSome: recv may return more than is missing.
ReceiveAny ==
    /\ receiver = "reading" /\ wire # <<>>
    /\ \E n \in 1..Len(wire) :
          /\ Len(buffer) < Needed
          /\ buffer' = buffer \o SubSeq(wire, 1, n)
          /\ wire' = SubSeq(wire, n + 1, Len(wire))
    /\ UNCHANGED <<sending, expected, received, receiver>>

\* One recv() brings some of the bytes that are missing.
ReceiveSome ==
    /\ receiver = "reading" /\ Len(buffer) < Needed
    /\ \E n \in 1..Len(wire) :
          /\ Len(buffer) + n <= Needed
          /\ buffer' = buffer \o SubSeq(wire, 1, n)
          /\ wire' = SubSeq(wire, n + 1, Len(wire))
    /\ UNCHANGED <<sending, expected, received, receiver>>

\* Mutant of HeaderComplete: a length of no packet is skipped.
HeaderSkipped ==
    /\ receiver = "reading" /\ expected = 0 /\ Len(buffer) >= Needed
    /\ \E n \in Decoded(buffer) :
          expected' = (IF n \in 1..MAX_PACKET_SIZE THEN n ELSE 0)
    /\ buffer' = <<>>
    /\ UNCHANGED <<sending, wire, received, receiver>>

\* The length has arrived; a packet of that length is awaited or refused.
HeaderComplete ==
    /\ receiver = "reading" /\ expected = 0 /\ Len(buffer) >= Needed
    /\ \E n \in Decoded(buffer) :
          IF n \in 1..MAX_PACKET_SIZE
          THEN expected' = n /\ buffer' = <<>> /\ UNCHANGED receiver
          ELSE receiver' = "ended" /\ UNCHANGED <<expected, buffer>>
    /\ UNCHANGED <<sending, wire, received>>

BodyComplete ==
    /\ receiver = "reading" /\ expected > 0 /\ Len(buffer) >= Needed
    /\ received' = Append(received, buffer)
    /\ expected' = 0 /\ buffer' = <<>>
    /\ UNCHANGED <<sending, wire, receiver>>

\* Mutant of ReceiveEnds: what has arrived of a body is returned as a message.
ReceiveCutOff ==
    /\ receiver = "reading" /\ Over /\ wire = <<>>
    /\ Len(buffer) < Needed
    /\ receiver' = "ended"
    /\ received' = IF expected > 0 THEN Append(received, buffer) ELSE received
    /\ UNCHANGED <<sending, wire, expected, buffer>>

\* recv returns 0, or an error, while bytes are missing.
ReceiveEnds ==
    /\ receiver = "reading" /\ Over /\ wire = <<>>
    /\ Len(buffer) < Needed
    /\ receiver' = "ended"
    /\ UNCHANGED <<sending, wire, expected, buffer, received>>

Receive == ReceiveSome \/ HeaderComplete \/ BodyComplete \/ ReceiveEnds

Next ==
    \/ \E n \in Lengths : SendPacket(n)
    \/ \E n \in Lengths \ (1..MAX_PACKET_SIZE) : SendBadLength(n)
    \/ SendSome \/ Close \/ Lose \/ Receive

\* The receiving thread is in recv whenever it is not serving a message.  Who
\* sends goes on with what it has begun, a length of no packet included, as long
\* as the system takes bytes; nobody has to send or to close.
Spec == Init /\ [][Next]_vars /\ WF_vars(Receive) /\ WF_vars(SendSome)
-------------------------------------------------------------------------------
(* Properties.                                                             *)

Byte == [length : Lengths, at : 1..HEADER]
            \cup [message : 0..MaxPackets, at : 1..MAX_PACKET_SIZE]
Message == {Body(k, n) : k \in 1..MaxPackets, n \in 1..MAX_PACKET_SIZE}

\* Every variable has its type; no more bytes arrive than there is room for in
\* the buffer of the part awaited.
TypeOK ==
    /\ accepted \in Seq(Message)
    /\ outgoing \in Seq(Seq(Byte))
    /\ wire \in Seq(Byte) /\ Len(wire) <= WIRE
    /\ sender \in {"open", "rogue", "closed", "lost"}
    /\ expected \in 0..MAX_PACKET_SIZE
    /\ buffer \in Seq(Byte) /\ Len(buffer) <= Needed
    /\ received \in Seq(Seq(Byte))
    /\ receiver \in {"reading", "ended"}

\* However the stream cuts the packets up, the receiver gets the messages the
\* sender was given, whole, once and in order, and after a close or a bad
\* length in the middle nothing at all (RecvAll, ReceivePacket, SendAll).
L == INSTANCE Link WITH broken <- sender # "open"

ImplementsLink == L!Spec

\* What was sent in full arrives in full, unless the connection is lost: a
\* receiver never ends, and never waits, in front of a whole packet, whatever the
\* sender does after it.
WholePacketsArrive ==
    \A k \in 1..MaxPackets :
        (Len(accepted) = k /\ outgoing = <<>> /\ sender = "open")
            ~> (Len(received) >= k \/ sender = "lost")

\* The receiver notices the end of the stream, wherever it stands, and a length
\* of no packet, whatever comes after it: its worker is not stuck in a packet that
\* will never be complete, and does not serve a peer that breaks the protocol
\* (Packet.cpp:17-29, 79-83).
ReceiverEnds == sender # "open" ~> receiver = "ended"
===============================================================================
