------------------------------ MODULE PacketProofs ----------------------------
(***************************************************************************)
(* The framing implements a first-in first-out link, for every size of the *)
(* header, of the packets and of what the stream holds.  The bytes between *)
(* the two ends are a section of one stream, and a function says where in  *)
(* it the frame of each message starts.                                    *)
(***************************************************************************)
EXTENDS Packet, SequenceTheorems, TLAPS

\* What SendAll has still to hand over.
Rest(buffers) ==
    IF buffers = <<>> THEN <<>>
    ELSE IF Len(buffers) = 1 THEN buffers[1] ELSE buffers[1] \o buffers[2]

\* The bytes that have been sent, or are about to be, and not been used yet.
Pending == (buffer \o wire) \o Rest(outgoing)

\* starts[k] bytes come before the frame of the k-th message; one more entry is
\* for the frame to come.
Frames(starts) ==
    /\ starts \in [1..(Len(accepted) + 1) -> Nat]
    /\ \A k \in 1..Len(accepted) :
          /\ starts[k + 1] = starts[k] + HEADER + Len(accepted[k])
          /\ starts[k + 1] <= starts[Len(accepted) + 1]

\* How many bytes have been used: whole frames, and perhaps a header.
Used(starts) == starts[Len(received) + 1] + (IF expected = 0 THEN 0 ELSE HEADER)

\* b may be the byte at place pos of a stream of these messages, if a peer that
\* breaks the protocol sends the length bad after them.
Fits(messages, starts, bad, pos, b) ==
    /\ \A k \in 1..Len(messages), i \in 1..HEADER :
          pos = starts[k] + i => b = [length |-> Len(messages[k]), at |-> i]
    /\ \A k \in 1..Len(messages), i \in 1..MAX_PACKET_SIZE :
          i <= Len(messages[k]) /\ pos = starts[k] + HEADER + i
              => b = [message |-> k, at |-> i]
    /\ \A i \in 1..HEADER :
          pos = starts[Len(messages) + 1] + i => b = [length |-> bad, at |-> i]

StreamInv(starts, bad) ==
    /\ Frames(starts)
    /\ \A j \in 1..Len(Pending) : Fits(accepted, starts, bad, Used(starts) + j, Pending[j])
    /\ sender = "open" => Used(starts) + Len(Pending) = starts[Len(accepted) + 1]

\* The receiver has a prefix of what was accepted, and knows the length of the
\* message it waits for.  It gives up on nobody who keeps to the protocol.
ReceiverInv ==
    /\ Len(received) <= Len(accepted)
    /\ \A k \in 1..Len(received) : received[k] = accepted[k]
    /\ expected > 0 => /\ Len(received) < Len(accepted)
                       /\ expected = Len(accepted[Len(received) + 1])
    /\ receiver = "ended" => sender # "open"

MessagesInv ==
    /\ Len(outgoing) <= 2
    /\ \A k \in 1..Len(accepted) :
          Len(accepted[k]) \in 1..MAX_PACKET_SIZE /\ accepted[k] = Body(k, Len(accepted[k]))

BadLengths == Lengths \ (1..MAX_PACKET_SIZE)

PacketInv ==
    /\ TypeOK /\ MessagesInv /\ ReceiverInv
    /\ \E starts \in [1..(Len(accepted) + 1) -> Nat], bad \in BadLengths :
          StreamInv(starts, bad)
-------------------------------------------------------------------------------
(* Types.                                                                  *)

LEMMA Regrouped ==
    ASSUME NEW u \in Seq(Byte), NEW v \in Seq(Byte), NEW w \in Seq(Byte)
    PROVE  (u \o v) \o w = u \o (v \o w)
  BY ConcatAssociative, SMTT(30)

LEMMA BytesTyped ==
    ASSUME NEW n \in Lengths
    PROVE  Header(n) \in Seq(Byte) /\ Len(Header(n)) = HEADER
<1>1. \A i \in 1..HEADER : [length |-> n, at |-> i] \in Byte
  BY DEF Byte
<1> QED
  BY <1>1, SizesAssumption DEF Header

LEMMA BodyTyped ==
    ASSUME NEW k \in 0..MaxPackets, NEW n \in 1..MAX_PACKET_SIZE
    PROVE  Body(k, n) \in Seq(Byte) /\ Len(Body(k, n)) = n
<1>1. \A i \in 1..n : [message |-> k, at |-> i] \in Byte
  BY SizesAssumption DEF Byte
<1>2. n \in Nat
  BY SizesAssumption
<1> QED
  BY <1>1, <1>2 DEF Body

LEMMA MessageTyped ==
    /\ Message \subseteq Seq(Byte)
    /\ \A m \in Message : Len(m) \in 1..MAX_PACKET_SIZE
<1>1. ASSUME NEW k \in 1..MaxPackets, NEW n \in 1..MAX_PACKET_SIZE
      PROVE  Body(k, n) \in Seq(Byte) /\ Len(Body(k, n)) = n
  BY BodyTyped, SizesAssumption
<1> QED
  BY <1>1 DEF Message

LEMMA TypesInit == Init => TypeOK
  BY SizesAssumption DEF Init, TypeOK, Needed

LEMMA SendPacketTypes ==
    ASSUME TypeOK, NEW n \in Lengths, SendPacket(n) PROVE TypeOK'
<1>1. n \in 1..MAX_PACKET_SIZE /\ Len(accepted) + 1 \in 1..MaxPackets
  BY SizesAssumption DEF SendPacket, TypeOK
<1>2. Body(Len(accepted) + 1, n) \in Message
  BY <1>1 DEF Message
<1>3. Header(n) \in Seq(Byte) /\ Body(Len(accepted) + 1, n) \in Seq(Byte)
  BY <1>1, <1>2, BytesTyped, MessageTyped
<1>4. Append(accepted, Body(Len(accepted) + 1, n)) \in Seq(Message)
  BY <1>2 DEF TypeOK
<1>5. <<Header(n), Body(Len(accepted) + 1, n)>> \in Seq(Seq(Byte))
  BY <1>3
<1> QED
  BY <1>4, <1>5 DEF SendPacket, Buffers, TypeOK, receiving, Needed

LEMMA SendBadLengthTypes ==
    ASSUME TypeOK, NEW n \in BadLengths, SendBadLength(n) PROVE TypeOK'
<1>1. Header(n) \in Seq(Byte)
  BY BytesTyped DEF BadLengths
<1>2. PICK junk \in 1..MAX_PACKET_SIZE : outgoing' = <<Header(n), Body(0, junk)>>
  BY DEF SendBadLength
<1>3. Body(0, junk) \in Seq(Byte)
  BY BodyTyped, SizesAssumption
<1>4. outgoing' \in Seq(Seq(Byte))
  BY <1>1, <1>2, <1>3
<1> QED
  BY <1>4 DEF SendBadLength, TypeOK, receiving, Needed

\* Taking some elements from the front of a sequence loses none.
LEMMA Cut ==
    ASSUME NEW S, NEW s \in Seq(S), NEW n \in 1..Len(s)
    PROVE  /\ SubSeq(s, 1, n) \in Seq(S) /\ Len(SubSeq(s, 1, n)) = n
           /\ SubSeq(s, n + 1, Len(s)) \in Seq(S)
           /\ Len(SubSeq(s, n + 1, Len(s))) = Len(s) - n
           /\ SubSeq(s, 1, n) \o SubSeq(s, n + 1, Len(s)) = s
<1>1. Len(s) \in Nat /\ \A i \in 1..Len(s) : s[i] \in S
  OBVIOUS
<1>2. SubSeq(s, 1, n) \o SubSeq(s, n + 1, Len(s)) = SubSeq(s, 1, Len(s))
  BY <1>1, ConcatAdjacentSubSeq
<1>3. SubSeq(s, 1, Len(s)) = s
  BY SubSeqFull
<1>4. SubSeq(s, 1, n) \in Seq(S) /\ Len(SubSeq(s, 1, n)) = n
  BY <1>1, SubSeqProperties
<1>5. SubSeq(s, n + 1, Len(s)) \in Seq(S) /\ Len(SubSeq(s, n + 1, Len(s))) = Len(s) - n
  BY <1>1, SubSeqProperties
<1> QED
  BY <1>2, <1>3, <1>4, <1>5

LEMMA FirstElement ==
    ASSUME NEW S, NEW s \in Seq(S), s # <<>>
    PROVE  Len(s) \in Nat \ {0} /\ Head(s) = s[1] /\ s[1] \in S
  OBVIOUS

LEMMA Pair ==
    ASSUME NEW S, NEW a \in S, NEW b \in S
    PROVE  <<a>> \o <<b>> = <<a, b>>
<1>1. <<a>> \in Seq(S) /\ <<b>> \in Seq(S) /\ <<a, b>> \in Seq(S)
  OBVIOUS
<1>2. <<a>> \o <<b>> \in Seq(S) /\ Len(<<a>> \o <<b>>) = Len(<<a, b>>)
  BY <1>1
<1>3. \A i \in 1..2 : (<<a>> \o <<b>>)[i] = <<a, b>>[i]
  BY <1>1
<1> QED
  BY <1>1, <1>2, <1>3, SeqEqual

LEMMA OneElement ==
    ASSUME NEW S, NEW s \in Seq(S), Len(s) = 1
    PROVE  s[1] \in S /\ s = <<s[1]>> /\ Tail(s) = <<>>
<1>1. s[1] \in S /\ <<s[1]>> \in Seq(S) /\ Len(<<s[1]>>) = 1
  OBVIOUS
<1>2. \A i \in 1..Len(s) : s[i] = <<s[1]>>[i]
  OBVIOUS
<1>3. s = <<s[1]>>
  BY <1>1, <1>2, SeqEqual
<1>4. Tail(<<s[1]>>) = <<>>
  BY <1>1, TailIsSubSeq, SubSeqEmpty
<1> QED
  BY <1>1, <1>3, <1>4

LEMMA TwoElements ==
    ASSUME NEW S, NEW s \in Seq(S), Len(s) = 2
    PROVE  s[1] \in S /\ s[2] \in S /\ s = <<s[1], s[2]>> /\ Tail(s) = <<s[2]>>
<1>1. s[1] \in S /\ s[2] \in S /\ <<s[1], s[2]>> \in Seq(S) /\ Len(<<s[1], s[2]>>) = 2
  OBVIOUS
<1>2. \A i \in 1..Len(s) : s[i] = <<s[1], s[2]>>[i]
  OBVIOUS
<1>3. s = <<s[1], s[2]>>
  BY <1>1, <1>2, SeqEqual
<1>4. Tail(s) \in Seq(S) /\ Len(Tail(s)) = 1 /\ Tail(s)[1] = s[2]
  BY HeadTailProperties
<1> QED
  BY <1>1, <1>3, <1>4, OneElement

\* send() moves bytes from the packet to the stream.
LEMMA SendSomeMoves ==
    ASSUME TypeOK, Len(outgoing) <= 2, SendSome
    PROVE  /\ wire' \in Seq(Byte) /\ Len(wire') <= WIRE
           /\ outgoing' \in Seq(Seq(Byte)) /\ Len(outgoing') <= 2
           /\ Rest(outgoing) \in Seq(Byte) /\ Rest(outgoing') \in Seq(Byte)
           /\ wire' \o Rest(outgoing') = wire \o Rest(outgoing)
<1> DEFINE part == outgoing[1]
<1>1. outgoing # <<>> /\ part \in Seq(Byte) /\ part = Head(outgoing)
      /\ Len(outgoing) \in {1, 2} /\ wire \in Seq(Byte)
  <2>1. outgoing # <<>> /\ outgoing \in Seq(Seq(Byte)) /\ wire \in Seq(Byte)
    BY DEF SendSome, TypeOK, Over
  <2>2. Len(outgoing) \in Nat \ {0}
    BY ONLY <2>1, FirstElement
  <2>3. Head(outgoing) = outgoing[1] /\ outgoing[1] \in Seq(Byte)
    BY ONLY <2>1, FirstElement
  <2>4. Len(outgoing) \in {1, 2}
    <3>1. PICK size \in Nat \ {0} : size = Len(outgoing)
      BY <2>2
    <3>2. size <= 2
      BY <3>1
    <3>3. size \in {1, 2}
      BY ONLY <3>2
    <3> QED
      BY <3>1, <3>3
  <2> HIDE DEF part
  <2>5. part = outgoing[1]
    BY DEF part
  <2> QED
    BY <2>1, <2>3, <2>4, <2>5
<1>0. outgoing \in Seq(Seq(Byte))
  BY DEF TypeOK
<1>2. PICK n \in 1..Len(part) :
          /\ Len(wire) + n <= WIRE
          /\ wire' = wire \o SubSeq(part, 1, n)
          /\ outgoing' = IF n = Len(part) THEN Tail(outgoing)
                         ELSE <<SubSeq(part, n + 1, Len(part))>> \o Tail(outgoing)
  BY <1>1 DEF SendSome, Over
<1> DEFINE first == SubSeq(part, 1, n)
           rest == SubSeq(part, n + 1, Len(part))
<1>3. /\ first \in Seq(Byte) /\ Len(first) = n /\ rest \in Seq(Byte)
      /\ Len(rest) = Len(part) - n /\ first \o rest = part
  BY <1>1, Cut
<1> HIDE DEF part, first, rest
<1>4. wire' \in Seq(Byte) /\ Len(wire') <= WIRE
  BY <1>1, <1>2, <1>3 DEF first
<1>5. /\ Rest(outgoing) \in Seq(Byte) /\ Rest(outgoing') \in Seq(Byte)
      /\ outgoing' \in Seq(Seq(Byte)) /\ Len(outgoing') <= 2
      /\ Rest(outgoing) = first \o Rest(outgoing')
  <2>1. CASE Len(outgoing) = 1
    <3>1. outgoing = <<part>> /\ Tail(outgoing) = <<>>
      BY <1>0, <2>1, OneElement DEF part
    <3>2. CASE n = Len(part)
      <4>1. outgoing' = <<>> /\ rest = <<>>
        BY <1>1, <1>2, <1>3, <3>1, <3>2
      <4> QED
        BY <1>1, <1>3, <3>1, <4>1 DEF Rest
    <3>3. CASE n # Len(part)
      <4>1. outgoing' = <<rest>>
        BY <1>2, <1>3, <3>1, <3>3 DEF rest
      <4> QED
        BY <1>1, <1>3, <3>1, <4>1 DEF Rest
    <3> QED
      BY <3>2, <3>3
  <2>2. CASE Len(outgoing) = 2
    <3> DEFINE last == outgoing[2]
    <3>1. outgoing = <<part, last>> /\ Tail(outgoing) = <<last>> /\ last \in Seq(Byte)
      BY <1>0, <2>2, TwoElements DEF part
    <3> HIDE DEF last
    <3>2. Rest(outgoing) = part \o last
      BY <3>1 DEF Rest
    <3>3. CASE n = Len(part)
      <4>1. outgoing' = <<last>>
        BY <1>2, <3>1, <3>3
      <4>2. rest = <<>> /\ first = part
        BY <1>1, <1>3, <3>3
      <4> QED
        BY <1>1, <3>1, <3>2, <4>1, <4>2 DEF Rest
    <3>4. CASE n # Len(part)
      <4>1. outgoing' = <<rest, last>>
        <5>1. outgoing' = <<rest>> \o <<last>>
          BY <1>2, <3>1, <3>4, Zenon DEF rest
        <5> QED
          BY <1>3, <3>1, <5>1, Pair
      <4>2. Rest(outgoing') = rest \o last
        BY <4>1 DEF Rest
      <4>3. (first \o rest) \o last = first \o (rest \o last)
        <5>1. first \in Seq(Byte) /\ rest \in Seq(Byte) /\ last \in Seq(Byte)
          BY <1>3, <3>1
        <5> QED
          BY ONLY <5>1, Regrouped, SMTT(30)
      <4>4. rest \o last \in Seq(Byte) /\ part \o last \in Seq(Byte)
        BY <1>1, <1>3, <3>1
      <4>5. outgoing' \in Seq(Seq(Byte)) /\ Len(outgoing') = 2
        BY <1>3, <3>1, <4>1
      <4>6. part \o last = first \o (rest \o last)
        BY <1>3, <4>3
      <4> QED
        BY ONLY <3>2, <4>2, <4>4, <4>5, <4>6
    <3> QED
      BY <3>3, <3>4
  <2> QED
    BY <1>1, <2>1, <2>2
<1>6. (wire \o first) \o Rest(outgoing') = wire \o (first \o Rest(outgoing'))
  <2>1. wire \in Seq(Byte) /\ first \in Seq(Byte) /\ Rest(outgoing') \in Seq(Byte)
    BY <1>1, <1>3, <1>5
  <2> QED
    BY ONLY <2>1, Regrouped, SMTT(30)
<1> QED
  BY <1>2, <1>4, <1>5, <1>6 DEF first

\* recv() moves bytes from the stream to the buffer.
LEMMA ReceiveSomeMoves ==
    ASSUME TypeOK, ReceiveSome
    PROVE  TypeOK' /\ buffer' \o wire' = buffer \o wire
<1>1. wire \in Seq(Byte) /\ buffer \in Seq(Byte) /\ Len(wire) <= WIRE
  BY DEF TypeOK
<1>2. PICK n \in 1..Len(wire) :
          /\ Len(buffer) + n <= Needed
          /\ buffer' = buffer \o SubSeq(wire, 1, n)
          /\ wire' = SubSeq(wire, n + 1, Len(wire))
  BY DEF ReceiveSome
<1> DEFINE first == SubSeq(wire, 1, n)
           rest == SubSeq(wire, n + 1, Len(wire))
<1>3. /\ first \in Seq(Byte) /\ Len(first) = n /\ rest \in Seq(Byte)
      /\ Len(rest) = Len(wire) - n /\ first \o rest = wire
  BY <1>1, Cut
<1> HIDE DEF first, rest
<1>4. buffer' = buffer \o first /\ wire' = rest
  BY <1>2 DEF first, rest
<1>5. (buffer \o first) \o rest = buffer \o (first \o rest)
  <2>1. buffer \in Seq(Byte) /\ first \in Seq(Byte) /\ rest \in Seq(Byte)
    BY <1>1, <1>3
  <2> QED
    BY ONLY <2>1, Regrouped, SMTT(30)
<1>6. buffer' \in Seq(Byte) /\ Len(buffer') <= Needed
  <2>0. buffer \in Seq(Byte) /\ first \in Seq(Byte)
    BY <1>1, <1>3
  <2>1. Len(buffer \o first) = Len(buffer) + Len(first) /\ buffer \o first \in Seq(Byte)
    BY ONLY <2>0
  <2> QED
    BY <1>2, <1>3, <1>4, <2>1
<1>7. wire' \in Seq(Byte) /\ Len(wire') <= WIRE
  <2>1. Len(wire) \in Nat
    BY <1>1
  <2> QED
    BY <1>1, <1>3, <1>4, <2>1, SizesAssumption
<1>8. Needed' = Needed /\ UNCHANGED <<accepted, outgoing, sender, expected, received, receiver>>
  BY DEF ReceiveSome, sending, Needed
<1>9. TypeOK'
  BY <1>6, <1>7, <1>8 DEF TypeOK
<1> QED
  BY <1>3, <1>4, <1>5, <1>9

LEMMA HeaderCompleteTypes ==
    ASSUME TypeOK, HeaderComplete PROVE TypeOK'
<1>1. UNCHANGED <<accepted, outgoing, sender, wire, received>>
  BY DEF HeaderComplete, sending
<1>2. \/ /\ expected' \in 1..MAX_PACKET_SIZE /\ buffer' = <<>> /\ receiver' = receiver
      \/ /\ receiver' = "ended" /\ expected' = expected /\ buffer' = buffer
  BY DEF HeaderComplete
<1>3. CASE expected' \in 1..MAX_PACKET_SIZE /\ buffer' = <<>> /\ receiver' = receiver
  BY <1>1, <1>3, SizesAssumption DEF TypeOK, Needed
<1>4. CASE receiver' = "ended" /\ expected' = expected /\ buffer' = buffer
  BY <1>1, <1>4 DEF TypeOK, Needed
<1> QED
  BY <1>2, <1>3, <1>4

LEMMA BodyCompleteTypes ==
    ASSUME TypeOK, BodyComplete PROVE TypeOK'
<1>1. Append(received, buffer) \in Seq(Seq(Byte))
  BY DEF TypeOK
<1> QED
  BY <1>1, SizesAssumption DEF BodyComplete, TypeOK, Needed, sending

LEMMA EndTypes ==
    ASSUME TypeOK, Close \/ Lose \/ ReceiveEnds PROVE TypeOK'
<1>1. <<>> \in Seq(Byte) /\ Len(<<>>) = 0 /\ <<>> \in Seq(Seq(Byte))
  OBVIOUS
<1>2. CASE Close
  BY <1>1, <1>2 DEF Close, TypeOK, Needed, receiving, Over
<1>3. CASE Lose
  BY <1>1, <1>3, SizesAssumption DEF Lose, TypeOK, Needed, receiving, Over
<1>4. CASE ReceiveEnds
  BY <1>4 DEF ReceiveEnds, TypeOK, Needed, sending, Over
<1> QED
  BY <1>2, <1>3, <1>4
-------------------------------------------------------------------------------
(* The stream.                                                             *)

LEMMA RestTyped ==
    ASSUME NEW buffers \in Seq(Seq(Byte)), Len(buffers) <= 2
    PROVE  Rest(buffers) \in Seq(Byte)
<1>1. CASE buffers = <<>>
  BY <1>1 DEF Rest
<1>2. CASE buffers # <<>>
  <2>1. PICK size \in Nat \ {0} : size = Len(buffers)
    BY <1>2, FirstElement
  <2>2. size <= 2
    BY <2>1
  <2>3. size = 1 \/ size = 2
    BY ONLY <2>2
  <2>4. CASE size = 1
    BY <1>2, <2>1, <2>4, OneElement DEF Rest
  <2>5. CASE size = 2
    <3>0. Len(buffers) = 2
      BY <2>1, <2>5
    <3>1. buffers[1] \in Seq(Byte) /\ buffers[2] \in Seq(Byte)
      BY ONLY <3>0, buffers \in Seq(Seq(Byte)), TwoElements
    <3>2. Rest(buffers) = buffers[1] \o buffers[2]
      BY ONLY <1>2, <3>0 DEF Rest
    <3> QED
      BY <3>1, <3>2
  <2> QED
    BY <2>3, <2>4, <2>5
<1> QED
  BY <1>1, <1>2

LEMMA PendingTyped ==
    ASSUME TypeOK, Len(outgoing) <= 2
    PROVE  /\ buffer \in Seq(Byte) /\ wire \in Seq(Byte) /\ Rest(outgoing) \in Seq(Byte)
           /\ buffer \o wire \in Seq(Byte) /\ Pending \in Seq(Byte)
           /\ Len(Pending) = Len(buffer) + Len(wire) + Len(Rest(outgoing))
           /\ Len(buffer) \in Nat /\ Len(wire) \in Nat /\ Len(Rest(outgoing)) \in Nat
<1>1. buffer \in Seq(Byte) /\ wire \in Seq(Byte) /\ Rest(outgoing) \in Seq(Byte)
  BY RestTyped DEF TypeOK
<1>2. buffer \o wire \in Seq(Byte) /\ Len(buffer \o wire) = Len(buffer) + Len(wire)
  BY <1>1
<1>3. Pending \in Seq(Byte) /\ Len(Pending) = Len(buffer \o wire) + Len(Rest(outgoing))
  BY <1>1, <1>2 DEF Pending
<1> QED
  BY <1>1, <1>2, <1>3

\* The frames of the accepted messages end where the next one is to start.
LEMMA FramesEnd ==
    ASSUME TypeOK, NEW starts, Frames(starts)
    PROVE  /\ Len(accepted) \in Nat /\ starts[Len(accepted) + 1] \in Nat
           /\ \A k \in 1..Len(accepted) :
                 /\ starts[k] \in Nat /\ Len(accepted[k]) \in 1..MAX_PACKET_SIZE
                 /\ \A i \in 1..HEADER : starts[k] + i <= starts[Len(accepted) + 1]
                 /\ \A i \in 1..MAX_PACKET_SIZE :
                       i <= Len(accepted[k])
                           => starts[k] + HEADER + i <= starts[Len(accepted) + 1]
<1>1. Len(accepted) \in Nat /\ \A k \in 1..Len(accepted) : accepted[k] \in Message
  BY DEF TypeOK
<1>2. \A k \in 1..Len(accepted) : Len(accepted[k]) \in 1..MAX_PACKET_SIZE
  BY <1>1, MessageTyped
<1>3. starts[Len(accepted) + 1] \in Nat /\ \A k \in 1..Len(accepted) : starts[k] \in Nat
  BY <1>1 DEF Frames
<1>4. ASSUME NEW k \in 1..Len(accepted)
      PROVE  /\ starts[k] + HEADER + Len(accepted[k]) <= starts[Len(accepted) + 1]
             /\ \A i \in 1..HEADER : starts[k] + i <= starts[Len(accepted) + 1]
             /\ \A i \in 1..MAX_PACKET_SIZE :
                   i <= Len(accepted[k])
                       => starts[k] + HEADER + i <= starts[Len(accepted) + 1]
  <2>1. starts[k] + HEADER + Len(accepted[k]) <= starts[Len(accepted) + 1]
    BY DEF Frames
  <2>2. PICK s \in Nat : s = starts[k]
    BY <1>3
  <2>3. PICK n \in 1..MAX_PACKET_SIZE : n = Len(accepted[k])
    BY <1>2
  <2>4. PICK e \in Nat : e = starts[Len(accepted) + 1]
    BY <1>3
  <2>5. s + HEADER + n <= e
    BY <2>1, <2>2, <2>3, <2>4
  <2>6. /\ \A i \in 1..HEADER : s + i <= e
        /\ \A i \in 1..MAX_PACKET_SIZE : i <= n => s + HEADER + i <= e
    BY <2>5, SizesAssumption
  <2> QED
    BY <2>1, <2>2, <2>3, <2>4, <2>6
<1> QED
  BY <1>1, <1>2, <1>3, <1>4

\* Bytes are used from the front, and lost at the end; they stay in order.
LEMMA Moves ==
    ASSUME NEW starts, NEW bad, StreamInv(starts, bad), accepted' = accepted,
           NEW d \in Nat, Used(starts)' = Used(starts) + d,
           Used(starts) \in Nat, Len(Pending) \in Nat, Len(Pending') \in Nat,
           Len(Pending') + d <= Len(Pending),
           \A j \in 1..Len(Pending') : Pending'[j] = Pending[j + d],
           sender' = "open" => sender = "open" /\ Len(Pending') + d = Len(Pending)
    PROVE  StreamInv(starts, bad)'
<1>1. Frames(starts)'
  BY DEF StreamInv, Frames
<1>2. ASSUME NEW j \in 1..Len(Pending')
      PROVE  Fits(accepted, starts, bad, Used(starts)' + j, Pending'[j])
  <2>1. PICK u \in Nat, v \in Nat, m \in Nat, n \in Nat :
           u = Used(starts) /\ v = Used(starts)' /\ m = Len(Pending) /\ n = Len(Pending')
    OBVIOUS
  <2>2. v = u + d /\ n + d <= m /\ j \in 1..n /\ Pending'[j] = Pending[j + d]
    BY <2>1
  <2>3. j + d \in 1..m /\ u + (j + d) = v + j
    BY ONLY <2>2, d \in Nat, u \in Nat, v \in Nat, m \in Nat, n \in Nat
  <2>4. \A i \in 1..Len(Pending) : Fits(accepted, starts, bad, Used(starts) + i, Pending[i])
    BY DEF StreamInv
  <2>5. Fits(accepted, starts, bad, u + (j + d), Pending[j + d])
    BY ONLY <2>1, <2>3, <2>4
  <2> QED
    BY ONLY <2>1, <2>2, <2>3, <2>5
<1>3. sender' = "open" => Used(starts)' + Len(Pending') = starts[Len(accepted') + 1]
  <2>1. PICK u \in Nat, v \in Nat, m \in Nat, n \in Nat :
           u = Used(starts) /\ v = Used(starts)' /\ m = Len(Pending) /\ n = Len(Pending')
    OBVIOUS
  <2>2. v = u + d
    BY <2>1
  <2>3. sender' = "open" => n + d = m /\ u + m = starts[Len(accepted) + 1]
    BY <2>1 DEF StreamInv
  <2> QED
    BY ONLY <2>1, <2>2, <2>3, accepted' = accepted,
            d \in Nat, u \in Nat, v \in Nat, m \in Nat, n \in Nat, SMTT(30)
<1> QED
  BY <1>1, <1>2, <1>3 DEF StreamInv

LEMMA UsedTyped ==
    ASSUME TypeOK, ReceiverInv, NEW starts, Frames(starts)
    PROVE  Used(starts) \in Nat
<1>1. Len(accepted) \in Nat /\ Len(received) \in Nat
  BY DEF TypeOK
<1>2. PICK m \in Nat, n \in Nat : m = Len(received) /\ n = Len(accepted)
  BY <1>1
<1>3. m <= n
  BY <1>2 DEF ReceiverInv
<1>4. m + 1 \in 1..(n + 1)
  BY ONLY <1>3, m \in Nat, n \in Nat
<1>5. starts \in [1..(n + 1) -> Nat]
  BY <1>2 DEF Frames
<1>6. starts[m + 1] \in Nat
  BY ONLY <1>4, <1>5
<1> QED
  BY <1>2, <1>6, SizesAssumption DEF Used

\* Nothing is used, and at most the end of the stream is lost.
LEMMA Shortens ==
    ASSUME NEW starts, NEW bad, StreamInv(starts, bad), accepted' = accepted,
           Used(starts)' = Used(starts), Used(starts) \in Nat,
           Len(Pending) \in Nat, Len(Pending') \in Nat, Len(Pending') <= Len(Pending),
           \A j \in 1..Len(Pending') : Pending'[j] = Pending[j],
           sender' = "open" => sender = "open" /\ Len(Pending') = Len(Pending)
    PROVE  StreamInv(starts, bad)'
<1>1. PICK m \in Nat, n \in Nat, u \in Nat :
         m = Len(Pending) /\ n = Len(Pending') /\ u = Used(starts)
  OBVIOUS
<1>2. n <= m /\ m + 0 = m /\ n + 0 = n /\ u + 0 = u
  BY <1>1
<1>3. \A j \in 1..n : j + 0 = j
  BY ONLY n \in Nat
<1>4. Len(Pending') + 0 <= Len(Pending) /\ Used(starts)' = Used(starts) + 0
  BY <1>1, <1>2
<1>5. \A j \in 1..Len(Pending') : Pending'[j] = Pending[j + 0]
  BY <1>1, <1>3
<1>6. sender' = "open" => sender = "open" /\ Len(Pending') + 0 = Len(Pending)
  BY <1>1, <1>2
<1> QED
  BY <1>4, <1>5, <1>6, Moves

LEMMA SendSomeStream ==
    ASSUME TypeOK, Len(outgoing) <= 2, ReceiverInv, SendSome,
           NEW starts, NEW bad, StreamInv(starts, bad)
    PROVE  StreamInv(starts, bad)'
<1>1. UNCHANGED <<accepted, sender, expected, buffer, received>>
  BY DEF SendSome, receiving, Over
<1>2. /\ buffer \in Seq(Byte) /\ wire \in Seq(Byte) /\ Rest(outgoing) \in Seq(Byte)
      /\ Pending \in Seq(Byte) /\ Len(Pending) \in Nat
  BY PendingTyped
<1>3. /\ wire' \in Seq(Byte) /\ Rest(outgoing') \in Seq(Byte)
      /\ wire' \o Rest(outgoing') = wire \o Rest(outgoing)
  BY SendSomeMoves
<1>4. (buffer \o wire) \o Rest(outgoing) = buffer \o (wire \o Rest(outgoing))
  BY ONLY <1>2, Regrouped, SMTT(30)
<1>5. (buffer \o wire') \o Rest(outgoing') = buffer \o (wire' \o Rest(outgoing'))
  <2>1. PICK w \in Seq(Byte), r \in Seq(Byte) : w = wire' /\ r = Rest(outgoing')
    BY <1>3
  <2>2. (buffer \o w) \o r = buffer \o (w \o r)
    BY ONLY <1>2, w \in Seq(Byte), r \in Seq(Byte), Regrouped, SMTT(30)
  <2> QED
    BY ONLY <2>1, <2>2
<1>6. Pending' = (buffer \o wire') \o Rest(outgoing')
  BY <1>1 DEF Pending
<1>7. Pending' = Pending
  BY ONLY <1>3, <1>4, <1>5, <1>6 DEF Pending
<1>8. Used(starts)' = Used(starts) /\ Used(starts) \in Nat
  BY <1>1, UsedTyped DEF Used, StreamInv
<1> QED
  BY <1>1, <1>2, <1>7, <1>8, Shortens

LEMMA ReceiveSomeStream ==
    ASSUME TypeOK, Len(outgoing) <= 2, ReceiverInv, ReceiveSome,
           NEW starts, NEW bad, StreamInv(starts, bad)
    PROVE  StreamInv(starts, bad)'
<1>1. UNCHANGED <<accepted, outgoing, sender, expected, received>>
  BY DEF ReceiveSome, sending
<1>2. Pending \in Seq(Byte) /\ Len(Pending) \in Nat
  BY PendingTyped
<1>3. buffer' \o wire' = buffer \o wire
  BY ReceiveSomeMoves
<1>4. Pending' = Pending
  BY <1>1, <1>3 DEF Pending
<1>5. Used(starts)' = Used(starts) /\ Used(starts) \in Nat
  BY <1>1, UsedTyped DEF Used, StreamInv
<1> QED
  BY <1>1, <1>2, <1>4, <1>5, Shortens

LEMMA EndStream ==
    ASSUME TypeOK, Len(outgoing) <= 2, ReceiverInv, Close \/ Lose \/ ReceiveEnds,
           NEW starts, NEW bad, StreamInv(starts, bad)
    PROVE  StreamInv(starts, bad)'
<1>1. UNCHANGED <<accepted, expected, buffer, received>>
  BY DEF Close, Lose, ReceiveEnds, sending, receiving, Over
<1>2. /\ buffer \in Seq(Byte) /\ wire \in Seq(Byte) /\ Rest(outgoing) \in Seq(Byte)
      /\ buffer \o wire \in Seq(Byte) /\ Pending \in Seq(Byte) /\ Len(Pending) \in Nat
      /\ Len(Pending) = Len(buffer) + Len(wire) + Len(Rest(outgoing))
      /\ Len(buffer) \in Nat /\ Len(wire) \in Nat /\ Len(Rest(outgoing)) \in Nat
  BY PendingTyped
<1>3. Used(starts)' = Used(starts) /\ Used(starts) \in Nat
  BY <1>1, UsedTyped DEF Used, StreamInv
<1>4. /\ Len(Pending') \in Nat /\ Len(Pending') <= Len(Pending)
      /\ \A j \in 1..Len(Pending') : Pending'[j] = Pending[j]
      /\ sender' = "open" => sender = "open" /\ Len(Pending') = Len(Pending)
  <2>1. CASE Close
    <3>1. Pending' = (buffer \o wire) \o <<>> /\ sender' # "open"
      BY <1>1, <2>1 DEF Close, Pending, Rest, Over
    <3>2. Pending' = buffer \o wire
      BY <1>2, <3>1, ConcatEmptySeq
    <3>3. Len(buffer \o wire) = Len(buffer) + Len(wire)
      BY <1>2, ConcatProperties
    <3>4. \A j \in 1..Len(buffer \o wire) : ((buffer \o wire) \o Rest(outgoing))[j] = (buffer \o wire)[j]
      BY <1>2, ConcatProperties
    <3> QED
      BY <1>2, <3>1, <3>2, <3>3, <3>4 DEF Pending
  <2>2. CASE Lose
    <3>1. Pending' = (buffer \o <<>>) \o <<>> /\ sender' # "open"
      BY <1>1, <2>2 DEF Lose, Pending, Rest, Over
    <3>2. Pending' = buffer
      BY <1>2, <3>1, ConcatEmptySeq
    <3>3. (buffer \o wire) \o Rest(outgoing) = buffer \o (wire \o Rest(outgoing))
      BY ONLY <1>2, Regrouped, SMTT(30)
    <3>4. wire \o Rest(outgoing) \in Seq(Byte)
      BY <1>2
    <3>5. \A j \in 1..Len(buffer) : (buffer \o (wire \o Rest(outgoing)))[j] = buffer[j]
      BY <1>2, <3>4, ConcatProperties
    <3>6. \A j \in 1..Len(buffer) : Pending[j] = buffer[j]
      BY ONLY <3>3, <3>5 DEF Pending
    <3> QED
      BY <1>2, <3>1, <3>2, <3>6
  <2>3. CASE ReceiveEnds
    <3>1. Pending' = Pending /\ sender' = sender
      BY <1>1, <2>3 DEF ReceiveEnds, sending, Pending, Over
    <3> QED
      BY <1>2, <3>1
  <2> QED
    BY <2>1, <2>2, <2>3
<1> QED
  BY <1>1, <1>2, <1>3, <1>4, Shortens

\* A part that has been read in full is taken from the front of the stream.
LEMMA Consumes ==
    ASSUME TypeOK, Len(outgoing) <= 2, buffer' = <<>>, UNCHANGED <<wire, outgoing>>
    PROVE  /\ Len(Pending) \in Nat /\ Len(Pending') \in Nat /\ Len(buffer) \in Nat
           /\ Len(Pending') + Len(buffer) = Len(Pending)
           /\ \A j \in 1..Len(Pending') : Pending'[j] = Pending[j + Len(buffer)]
<1> DEFINE tail == wire \o Rest(outgoing)
<1>1. /\ buffer \in Seq(Byte) /\ wire \in Seq(Byte) /\ Rest(outgoing) \in Seq(Byte)
      /\ Len(buffer) \in Nat
  BY PendingTyped
<1>2. (buffer \o wire) \o Rest(outgoing) = buffer \o (wire \o Rest(outgoing))
  BY ONLY <1>1, Regrouped, SMTT(30)
<1>3. tail \in Seq(Byte) /\ Len(tail) \in Nat
  BY ONLY <1>1
<1>4. Pending' = (<<>> \o wire) \o Rest(outgoing)
  BY DEF Pending
<1>5. <<>> \o wire = wire
  BY ONLY <1>1, ConcatEmptySeq
<1>6. Pending' = tail
  BY ONLY <1>4, <1>5
<1>7. Pending = buffer \o tail
  BY ONLY <1>2 DEF Pending
<1> HIDE DEF tail
<1>8. /\ Len(buffer \o tail) = Len(buffer) + Len(tail)
      /\ \A i \in 1..(Len(buffer) + Len(tail)) :
            (buffer \o tail)[i] = IF i <= Len(buffer) THEN buffer[i] ELSE tail[i - Len(buffer)]
  BY ONLY <1>1, <1>3, ConcatProperties
<1>9. \A j \in 1..Len(tail) : (buffer \o tail)[j + Len(buffer)] = tail[j]
  <2>1. PICK m \in Nat, n \in Nat : m = Len(buffer) /\ n = Len(tail)
    BY <1>1, <1>3
  <2>2. \A j \in 1..n : j + m \in 1..(m + n) /\ ~(j + m <= m) /\ (j + m) - m = j
    BY ONLY m \in Nat, n \in Nat
  <2> QED
    BY ONLY <1>8, <2>1, <2>2
<1>10. Len(tail) + Len(buffer) = Len(buffer \o tail)
  BY ONLY <1>1, <1>3, <1>8
<1>11. Len(Pending) \in Nat
  BY PendingTyped
<1> QED
  BY ONLY <1>1, <1>3, <1>6, <1>7, <1>9, <1>10, <1>11

LEMMA HeaderCompleteStream ==
    ASSUME TypeOK, Len(outgoing) <= 2, ReceiverInv, HeaderComplete,
           NEW starts, NEW bad, StreamInv(starts, bad)
    PROVE  StreamInv(starts, bad)'
<1>1. UNCHANGED <<accepted, outgoing, sender, wire, received>> /\ expected = 0
  BY DEF HeaderComplete, sending
<1>2. Pending \in Seq(Byte) /\ Len(Pending) \in Nat
  BY PendingTyped
<1>3. Used(starts) \in Nat
  BY UsedTyped DEF StreamInv
<1>4. \/ expected' \in 1..MAX_PACKET_SIZE /\ buffer' = <<>>
      \/ expected' = expected /\ buffer' = buffer
  BY DEF HeaderComplete
<1>5. CASE expected' \in 1..MAX_PACKET_SIZE /\ buffer' = <<>>
  <2>1. Len(buffer) = HEADER
    BY <1>1, SizesAssumption DEF HeaderComplete, Needed, TypeOK
  <2>2. Used(starts)' = Used(starts) + HEADER
    <3>1. expected' # 0
      BY <1>5, SizesAssumption
    <3>2. Used(starts) = starts[Len(received) + 1] + 0
      BY <1>1 DEF Used
    <3>3. Used(starts)' = starts[Len(received) + 1] + HEADER
      BY <1>1, <3>1 DEF Used
    <3>4. starts[Len(received) + 1] \in Nat
      <4>1. Frames(starts)
        BY DEF StreamInv
      <4>2. PICK m \in Nat, n \in Nat : m = Len(received) /\ n = Len(accepted)
        BY DEF TypeOK
      <4>3. m <= n
        BY <4>2 DEF ReceiverInv
      <4>4. m + 1 \in 1..(n + 1)
        BY ONLY <4>3, m \in Nat, n \in Nat
      <4> QED
        BY <4>1, <4>2, <4>4 DEF Frames
    <3> QED
      BY <3>2, <3>3, <3>4, SizesAssumption
  <2>3. /\ Len(Pending') \in Nat /\ Len(Pending') + HEADER = Len(Pending)
        /\ \A j \in 1..Len(Pending') : Pending'[j] = Pending[j + HEADER]
    BY <1>1, <1>5, <2>1, Consumes
  <2>4. HEADER \in Nat
    BY SizesAssumption
  <2>5. Len(Pending') + HEADER <= Len(Pending)
    BY <1>2, <2>3
  <2> QED
    BY <1>1, <1>2, <1>3, <2>2, <2>3, <2>4, <2>5, Moves
<1>6. CASE expected' = expected /\ buffer' = buffer
  <2>1. Pending' = Pending /\ Used(starts)' = Used(starts)
    BY <1>1, <1>6 DEF Pending, Used
  <2> QED
    BY <1>1, <1>2, <1>3, <2>1, Shortens
<1> QED
  BY <1>4, <1>5, <1>6

LEMMA BodyCompleteStream ==
    ASSUME TypeOK, Len(outgoing) <= 2, ReceiverInv, BodyComplete,
           NEW starts, NEW bad, StreamInv(starts, bad)
    PROVE  StreamInv(starts, bad)'
<1>1. UNCHANGED <<accepted, outgoing, sender, wire>> /\ buffer' = <<>> /\ expected' = 0
      /\ expected \in Nat \ {0} /\ received' = Append(received, buffer)
  BY DEF BodyComplete, sending, TypeOK
<1>2. Used(starts) \in Nat
  BY UsedTyped DEF StreamInv
<1>3. Len(buffer) = expected
  BY <1>1 DEF BodyComplete, Needed, TypeOK
<1>4. /\ Len(Pending) \in Nat /\ Len(Pending') \in Nat
      /\ Len(Pending') + expected = Len(Pending)
      /\ \A j \in 1..Len(Pending') : Pending'[j] = Pending[j + expected]
  BY <1>1, <1>3, Consumes
<1>5. Used(starts)' = Used(starts) + expected
  <2>1. PICK m \in Nat, n \in Nat : m = Len(received) /\ n = Len(accepted)
    BY DEF TypeOK
  <2>2. m < n /\ expected = Len(accepted[m + 1])
    BY <1>1, <2>1 DEF ReceiverInv
  <2>3. m + 1 \in 1..n /\ m + 1 \in 1..(n + 1)
    BY ONLY <2>2, m \in Nat, n \in Nat
  <2>4. starts[(m + 1) + 1] = starts[m + 1] + HEADER + expected
    BY <2>1, <2>2, <2>3 DEF StreamInv, Frames
  <2>5. Used(starts) = starts[m + 1] + HEADER
    BY <1>1, <2>1 DEF Used
  <2>6. received' \in Seq(Seq(Byte)) /\ Len(received') = m + 1
    BY <1>1, <2>1 DEF TypeOK
  <2>7. Used(starts)' = starts[(m + 1) + 1] + 0
    BY <1>1, <2>6 DEF Used
  <2>8. starts[(m + 1) + 1] \in Nat
    <3>1. starts \in [1..(n + 1) -> Nat]
      BY <2>1 DEF StreamInv, Frames
    <3>2. (m + 1) + 1 \in 1..(n + 1)
      BY ONLY <2>2, m \in Nat, n \in Nat
    <3> QED
      BY <3>1, <3>2
  <2> QED
    BY <2>4, <2>5, <2>7, <2>8
<1>6. Len(Pending') + expected <= Len(Pending)
  BY <1>4
<1> QED
  BY <1>1, <1>2, <1>4, <1>5, <1>6, Moves

\* A new packet comes after everything that is under way.
LEMMA Appends ==
    ASSUME TypeOK, outgoing = <<>>, UNCHANGED <<buffer, wire>>,
           NEW h \in Seq(Byte), NEW b \in Seq(Byte), outgoing' = <<h, b>>
    PROVE  /\ Len(Pending) \in Nat /\ Len(h) \in Nat /\ Len(b) \in Nat
           /\ Len(Pending') = Len(Pending) + Len(h) + Len(b)
           /\ \A j \in 1..Len(Pending) : Pending'[j] = Pending[j]
           /\ \A i \in 1..Len(h) : Pending'[Len(Pending) + i] = h[i]
           /\ \A i \in 1..Len(b) : Pending'[Len(Pending) + Len(h) + i] = b[i]
<1> DEFINE past == buffer \o wire
           more == h \o b
<1>1. buffer \in Seq(Byte) /\ wire \in Seq(Byte)
  BY DEF TypeOK
<1>2. past \in Seq(Byte) /\ more \in Seq(Byte)
  BY <1>1
<1>3. Rest(outgoing) = <<>> /\ Rest(outgoing') = more
  BY DEF Rest
<1>4. Pending = past \o <<>> /\ Pending' = past \o more
  BY <1>3 DEF Pending
<1>5. /\ Len(more) = Len(h) + Len(b)
      /\ \A i \in 1..(Len(h) + Len(b)) :
            more[i] = IF i <= Len(h) THEN h[i] ELSE b[i - Len(h)]
  BY ONLY h \in Seq(Byte), b \in Seq(Byte), ConcatProperties
<1> HIDE DEF past, more
<1>6. Pending = past
  BY ONLY <1>2, <1>4, ConcatEmptySeq
<1>7. /\ Len(past \o more) = Len(past) + Len(more)
      /\ \A i \in 1..(Len(past) + Len(more)) :
            (past \o more)[i] = IF i <= Len(past) THEN past[i] ELSE more[i - Len(past)]
  BY ONLY <1>2, ConcatProperties
<1>8. PICK m \in Nat, x \in Nat, y \in Nat : m = Len(past) /\ x = Len(h) /\ y = Len(b)
  BY <1>2
<1>9. Len(more) = x + y
  BY ONLY <1>5, <1>8
<1>10. /\ \A i \in 1..m : i \in 1..(m + (x + y)) /\ i <= m
       /\ \A i \in 1..x : m + i \in 1..(m + (x + y)) /\ ~(m + i <= m)
                          /\ (m + i) - m = i /\ i \in 1..(x + y) /\ i <= x
       /\ \A i \in 1..y : m + x + i \in 1..(m + (x + y)) /\ ~(m + x + i <= m)
                          /\ (m + x + i) - m = x + i /\ x + i \in 1..(x + y)
                          /\ ~(x + i <= x) /\ (x + i) - x = i
  BY ONLY m \in Nat, x \in Nat, y \in Nat
<1>11. \A i \in 1..m : (past \o more)[i] = past[i]
  BY ONLY <1>7, <1>8, <1>9, <1>10
<1>12. \A i \in 1..x : (past \o more)[m + i] = h[i]
  BY ONLY <1>5, <1>7, <1>8, <1>9, <1>10
<1>13. ASSUME NEW i \in 1..y PROVE (past \o more)[m + x + i] = b[i]
  <2>1. (past \o more)[m + x + i] = more[x + i]
    <3>1. /\ m + x + i \in 1..(m + (x + y)) /\ ~(m + x + i <= m)
          /\ (m + x + i) - m = x + i
      BY ONLY <1>10, i \in 1..y
    <3> QED
      BY ONLY <1>7, <1>8, <1>9, <3>1
  <2>2. more[x + i] = b[i]
    <3>1. x + i \in 1..(x + y) /\ ~(x + i <= x) /\ (x + i) - x = i
      BY ONLY <1>10, i \in 1..y
    <3> QED
      BY ONLY <1>5, <1>8, <3>1
  <2> QED
    BY ONLY <2>1, <2>2
<1>14. Len(past \o more) = m + x + y
  BY ONLY <1>7, <1>8, <1>9, m \in Nat, x \in Nat, y \in Nat
<1> QED
  BY ONLY <1>4, <1>6, <1>8, <1>11, <1>12, <1>13, <1>14

\* Places before the end of the frames say nothing of the frame to come.
LEMMA FitsBefore ==
    ASSUME TypeOK, NEW starts, Frames(starts), NEW bad, NEW bad2, NEW pos \in Nat, NEW b,
           pos <= starts[Len(accepted) + 1], Fits(accepted, starts, bad, pos, b)
    PROVE  Fits(accepted, starts, bad2, pos, b)
<1>1. starts[Len(accepted) + 1] \in Nat
  BY FramesEnd
<1>2. \A i \in 1..HEADER : pos # starts[Len(accepted) + 1] + i
  BY <1>1, SizesAssumption
<1> QED
  BY <1>2 DEF Fits

LEMMA SendBadLengthStream ==
    ASSUME TypeOK, ReceiverInv, NEW n \in BadLengths, SendBadLength(n),
           NEW starts, NEW bad, StreamInv(starts, bad)
    PROVE  StreamInv(starts, n)'
<1>1. UNCHANGED <<accepted, wire, expected, buffer, received>> /\ sender = "open"
      /\ sender' = "rogue" /\ outgoing = <<>>
  BY DEF SendBadLength, receiving
<1>0. PICK junk \in 1..MAX_PACKET_SIZE : outgoing' = <<Header(n), Body(0, junk)>>
  BY DEF SendBadLength
<1>2. /\ Header(n) \in Seq(Byte) /\ Len(Header(n)) = HEADER
      /\ Body(0, junk) \in Seq(Byte) /\ Len(Body(0, junk)) = junk
  <2>1. n \in Lengths /\ 0 \in 0..MaxPackets /\ junk \in 1..MAX_PACKET_SIZE
    BY SizesAssumption DEF BadLengths
  <2> QED
    BY <2>1, BytesTyped, BodyTyped
<1>3. /\ Len(Pending) \in Nat
      /\ Len(Pending') = Len(Pending) + HEADER + junk
      /\ \A j \in 1..Len(Pending) : Pending'[j] = Pending[j]
      /\ \A i \in 1..HEADER : Pending'[Len(Pending) + i] = Header(n)[i]
  BY <1>0, <1>1, <1>2, Appends, ZenonT(40)
<1>4. Frames(starts) /\ Frames(starts)'
  BY <1>1 DEF StreamInv, Frames
<1>5. Used(starts)' = Used(starts) /\ Used(starts) \in Nat
  BY <1>1, <1>4, UsedTyped DEF Used
<1>6. PICK u \in Nat, m \in Nat, e \in Nat :
         u = Used(starts) /\ m = Len(Pending) /\ e = starts[Len(accepted) + 1]
  BY <1>3, <1>4, <1>5, FramesEnd
<1>7. u + m = e
  BY <1>1, <1>6 DEF StreamInv
<1>8. HEADER \in Nat /\ junk \in Nat
  BY SizesAssumption
<1>9. ASSUME NEW j \in 1..(m + HEADER + junk)
      PROVE  Fits(accepted, starts, n, u + j, Pending'[j])
  <2>1. CASE j \in 1..m
    <3>1. Fits(accepted, starts, bad, u + j, Pending[j])
      BY <1>6, <2>1 DEF StreamInv
    <3>2. u + j \in Nat /\ u + j <= e
      BY ONLY <1>7, <2>1, u \in Nat, m \in Nat
    <3>3. Fits(accepted, starts, n, u + j, Pending[j])
      BY <1>4, <1>6, <3>1, <3>2, FitsBefore
    <3> QED
      BY <1>3, <1>6, <2>1, <3>3
  <2>2. CASE j > m
    <3>1. PICK i \in 1..(HEADER + junk) : j = m + i
      <4>1. j - m \in 1..(HEADER + junk) /\ j = m + (j - m)
        BY ONLY <1>8, <2>2, m \in Nat, j \in 1..(m + HEADER + junk)
      <4> QED
        BY <4>1
    <3>2. u + j = e + i
      BY ONLY <1>7, <1>8, <3>1, u \in Nat, m \in Nat
    <3>3. /\ \A k \in 1..Len(accepted), l \in 1..HEADER : e + i # starts[k] + l
          /\ \A k \in 1..Len(accepted), l \in 1..MAX_PACKET_SIZE :
                l <= Len(accepted[k]) => e + i # starts[k] + HEADER + l
      <4>1. \A x \in Int : x <= e => e + i # x
        BY <1>8
      <4>2. \A k \in 1..Len(accepted) : starts[k] \in Nat
        BY <1>4, FramesEnd
      <4> QED
        BY <1>4, <1>6, <1>8, <4>1, <4>2, FramesEnd, SizesAssumption, SMTT(30)
    <3>4. ASSUME NEW l \in 1..HEADER, e + i = e + l
          PROVE  Pending'[j] = [length |-> n, at |-> l]
      <4>1. i = l
        BY ONLY <3>4, <1>8, i \in 1..(HEADER + junk), l \in 1..HEADER, e \in Nat
      <4>2. Pending'[m + l] = Header(n)[l]
        BY <1>3, <1>6
      <4> QED
        BY <3>1, <4>1, <4>2 DEF Header
    <3> QED
      BY <1>6, <3>2, <3>3, <3>4 DEF Fits
  <2> QED
    BY <2>1, <2>2
<1>10. \A j \in 1..Len(Pending') : Fits(accepted, starts, n, Used(starts)' + j, Pending'[j])
  BY <1>3, <1>5, <1>6, <1>9
<1> QED
  BY <1>1, <1>4, <1>10 DEF StreamInv

LEMMA SendPacketStream ==
    ASSUME TypeOK, MessagesInv, ReceiverInv, NEW n \in Lengths, SendPacket(n),
           NEW starts, NEW bad, StreamInv(starts, bad)
    PROVE  \E starts2 \in [1..(Len(accepted') + 1) -> Nat] : StreamInv(starts2, bad)'
<1>1. PICK size \in Nat, got \in Nat : size = Len(accepted) /\ got = Len(received)
  BY DEF TypeOK
<1>2. /\ UNCHANGED <<wire, sender, expected, buffer, received>>
      /\ sender = "open" /\ outgoing = <<>> /\ n \in 1..MAX_PACKET_SIZE
      /\ size + 1 \in 1..MaxPackets
      /\ accepted' = Append(accepted, Body(size + 1, n))
      /\ outgoing' = <<Header(n), Body(size + 1, n)>>
  BY <1>1, SizesAssumption DEF SendPacket, Buffers, receiving
<1>3. /\ Header(n) \in Seq(Byte) /\ Len(Header(n)) = HEADER
      /\ Body(size + 1, n) \in Seq(Byte) /\ Len(Body(size + 1, n)) = n
      /\ Body(size + 1, n) \in Message
  <2>1. size + 1 \in 0..MaxPackets
    BY <1>2, SizesAssumption
  <2> QED
    BY <1>2, <2>1, BytesTyped, BodyTyped DEF Message
<1>4. /\ Len(accepted') = size + 1
      /\ \A k \in 1..size : accepted'[k] = accepted[k]
      /\ accepted'[size + 1] = Body(size + 1, n)
  <2>1. accepted \in Seq(Message)
    BY DEF TypeOK
  <2> QED
    BY <1>1, <1>2, <1>3, <2>1, AppendProperties
<1>5. /\ Len(Pending) \in Nat
      /\ Len(Pending') = Len(Pending) + HEADER + n
      /\ \A j \in 1..Len(Pending) : Pending'[j] = Pending[j]
      /\ \A i \in 1..HEADER : Pending'[Len(Pending) + i] = Header(n)[i]
      /\ \A i \in 1..n : Pending'[Len(Pending) + HEADER + i] = Body(size + 1, n)[i]
  BY <1>2, <1>3, Appends, ZenonT(40)
<1>6. Frames(starts) /\ starts \in [1..(size + 1) -> Nat]
  BY <1>1 DEF StreamInv, Frames
<1>7. PICK u \in Nat, m \in Nat, end \in Nat :
         u = Used(starts) /\ m = Len(Pending) /\ end = starts[size + 1]
  <2>1. size + 1 \in 1..(size + 1)
    BY ONLY size \in Nat
  <2> QED
    BY <1>5, <1>6, <2>1, UsedTyped
<1>8. u + m = end
  BY <1>1, <1>2, <1>7 DEF StreamInv
<1>9. HEADER \in Nat \ {0} /\ MAX_PACKET_SIZE \in Nat \ {0} /\ n \in Nat \ {0}
  BY <1>2, SizesAssumption
<1>10. PICK starts2 \in [1..(size + 2) -> Nat] :
          /\ \A k \in 1..(size + 1) : starts2[k] = starts[k]
          /\ starts2[size + 2] = end + HEADER + n
  <2> DEFINE f == [k \in 1..(size + 2) |->
                      IF k \in 1..(size + 1) THEN starts[k] ELSE end + HEADER + n]
  <2>1. \A k \in 1..(size + 1) : k \in 1..(size + 2) /\ starts[k] \in Nat
    BY ONLY <1>6, size \in Nat
  <2>2. size + 2 \in 1..(size + 2) /\ size + 2 \notin 1..(size + 1)
    BY ONLY size \in Nat
  <2>3. end + HEADER + n \in Nat
    BY ONLY <1>9, end \in Nat
  <2>4. f \in [1..(size + 2) -> Nat]
    BY ONLY <2>1, <2>3
  <2>5. \A k \in 1..(size + 1) : f[k] = starts[k]
    BY ONLY <2>1
  <2>6. f[size + 2] = end + HEADER + n
    BY ONLY <2>2
  <2> HIDE DEF f
  <2> QED
    BY ONLY <2>4, <2>5, <2>6
<1>11. /\ starts2 \in [1..(Len(accepted') + 1) -> Nat]
       /\ \A k \in 1..Len(accepted') :
             /\ starts2[k + 1] = starts2[k] + HEADER + Len(accepted'[k])
             /\ starts2[k + 1] <= starts2[Len(accepted') + 1]
  <2>1. (size + 1) + 1 = size + 2
    BY ONLY size \in Nat
  <2>2. starts2 \in [1..(Len(accepted') + 1) -> Nat]
    BY ONLY <1>4, <2>1, starts2 \in [1..(size + 2) -> Nat]
  <2>3. ASSUME NEW k \in 1..size
        PROVE  /\ starts2[k + 1] = starts2[k] + HEADER + Len(accepted'[k])
               /\ starts2[k + 1] <= starts2[size + 2]
    <3>1. k \in 1..(size + 1) /\ k + 1 \in 1..(size + 1)
      BY ONLY size \in Nat, k \in 1..size
    <3>2. starts2[k] = starts[k] /\ starts2[k + 1] = starts[k + 1]
      BY <1>10, <3>1
    <3>3. starts[k + 1] = starts[k] + HEADER + Len(accepted[k]) /\ starts[k + 1] <= end
      BY <1>1, <1>6, <1>7 DEF Frames
    <3>4. starts[k + 1] \in Nat
      BY <1>6, <3>1
    <3>5. starts[k + 1] <= end + HEADER + n
      <4>1. PICK x \in Nat : x = starts[k + 1]
        BY <3>4
      <4>2. x <= end
        BY <3>3, <4>1
      <4>3. x <= end + HEADER + n
        BY ONLY <1>9, <4>2, x \in Nat, end \in Nat
      <4> QED
        BY <4>1, <4>3
    <3> QED
      BY <1>4, <1>10, <3>2, <3>3, <3>5
  <2>4. /\ starts2[(size + 1) + 1] = starts2[size + 1] + HEADER + Len(accepted'[size + 1])
        /\ starts2[(size + 1) + 1] <= starts2[size + 2]
    <3>1. size + 1 \in 1..(size + 1)
      BY ONLY size \in Nat
    <3>2. starts2[size + 1] = end
      BY <1>7, <1>10, <3>1
    <3>3. Len(accepted'[size + 1]) = n
      BY <1>3, <1>4
    <3>4. end + HEADER + n <= end + HEADER + n
      BY ONLY <1>9, end \in Nat
    <3> QED
      BY ONLY <1>10, <2>1, <3>2, <3>3, <3>4
  <2>5. \A k \in 1..(size + 1) : k \in 1..size \/ k = size + 1
    BY ONLY size \in Nat
  <2> QED
    BY <1>4, <2>1, <2>2, <2>3, <2>4, <2>5
<1>12. Used(starts2)' = u
  <2>1. got <= size
    BY <1>1 DEF ReceiverInv
  <2>2. got + 1 \in 1..(size + 1)
    BY ONLY <2>1, got \in Nat, size \in Nat
  <2>3. starts2[got + 1] = starts[got + 1]
    BY <1>10, <2>2
  <2> QED
    BY <1>1, <1>2, <1>7, <2>3 DEF Used
<1>13. ASSUME NEW j \in 1..(m + HEADER + n)
       PROVE  Fits(accepted', starts2, bad, u + j, Pending'[j])
  <2> DEFINE pos == u + j
             b == Pending'[j]
  <2>0. pos \in Nat /\ pos <= end + HEADER + n
    BY ONLY <1>8, <1>9, u \in Nat, m \in Nat, j \in 1..(m + HEADER + n)
  <2>1. \A k \in 1..size :
           /\ \A i \in 1..HEADER : starts[k] + i <= end
           /\ \A i \in 1..MAX_PACKET_SIZE :
                 i <= Len(accepted[k]) => starts[k] + HEADER + i <= end
    BY <1>1, <1>6, <1>7, FramesEnd
  <2> DEFINE Old == /\ \A k \in 1..size, i \in 1..HEADER :
                         pos = starts[k] + i => b = [length |-> Len(accepted[k]), at |-> i]
                    /\ \A k \in 1..size, i \in 1..MAX_PACKET_SIZE :
                         i <= Len(accepted[k]) /\ pos = starts[k] + HEADER + i
                             => b = [message |-> k, at |-> i]
             New == /\ \A i \in 1..HEADER : pos = end + i => b = [length |-> n, at |-> i]
                    /\ \A i \in 1..n :
                          pos = end + HEADER + i => b = [message |-> size + 1, at |-> i]
  <2>2. Old
    <3>1. CASE j <= m
      <4>1. j \in 1..m
        BY ONLY <3>1, j \in 1..(m + HEADER + n), m \in Nat, <1>9
      <4>2. Fits(accepted, starts, bad, u + j, Pending[j])
        BY <1>7, <4>1 DEF StreamInv
      <4>3. Pending'[j] = Pending[j]
        BY <1>5, <1>7, <4>1
      <4> QED
        BY <1>1, <4>2, <4>3 DEF Fits
    <3>2. CASE ~(j <= m)
      <4>1. \A x : x <= end => pos # x
        <5>1. ~(pos <= end)
          BY ONLY <1>8, <3>2, j \in 1..(m + HEADER + n), m \in Nat, u \in Nat, <1>9
        <5> QED
          BY ONLY <5>1
      <4> HIDE DEF pos
      <4> QED
        BY ONLY <2>1, <4>1
    <3> QED
      BY <3>1, <3>2
  <2>3. New
    <3>1. ASSUME NEW i \in 1..HEADER, pos = end + i
          PROVE  b = [length |-> n, at |-> i]
      <4>1. j = m + i
        BY ONLY <1>8, <1>9, <3>1, j \in 1..(m + HEADER + n), m \in Nat, u \in Nat, i \in 1..HEADER
      <4>2. Pending'[m + i] = Header(n)[i]
        BY <1>5, <1>7
      <4> QED
        BY <4>1, <4>2 DEF Header
    <3>2. ASSUME NEW i \in 1..n, pos = end + HEADER + i
          PROVE  b = [message |-> size + 1, at |-> i]
      <4>1. j = m + HEADER + i
        BY ONLY <1>8, <1>9, <3>2, j \in 1..(m + HEADER + n), m \in Nat, u \in Nat, i \in 1..n
      <4>2. Pending'[m + HEADER + i] = Body(size + 1, n)[i]
        BY <1>5, <1>7
      <4> QED
        BY <4>1, <4>2 DEF Body
    <3> HIDE DEF pos, b
    <3> QED
      BY <3>1, <3>2
  <2>4. Len(accepted'[size + 1]) = n
    BY <1>3, <1>4
  <2> HIDE DEF pos, b
  <2>5. Fits(accepted', starts2, bad, pos, b)
    <3>1. PICK messages : messages = accepted'
      OBVIOUS
    <3>2. /\ Len(messages) = size + 1 /\ Len(messages[size + 1]) = n
          /\ \A k \in 1..size : messages[k] = accepted[k]
      BY ONLY <1>4, <2>4, <3>1
    <3>3. /\ size \in Nat /\ size = Len(accepted) /\ n \in 1..MAX_PACKET_SIZE
          /\ end \in Nat /\ end = starts[size + 1]
          /\ \A k \in 1..(size + 1) : starts2[k] = starts[k]
          /\ starts2[size + 2] = end + HEADER + n
      BY <1>1, <1>2, <1>7, <1>10
    <3>0. \A k \in 1..(size + 1) : k \in 1..size \/ k = size + 1
      BY ONLY size \in Nat
    <3>4. ASSUME NEW k \in 1..(size + 1), NEW i \in 1..HEADER, pos = starts2[k] + i
          PROVE  b = [length |-> Len(messages[k]), at |-> i]
      <4>1. CASE k \in 1..size
        <5>1. starts2[k] = starts[k] /\ messages[k] = accepted[k]
          BY ONLY <3>2, <3>3, <4>1, k \in 1..(size + 1)
        <5>2. pos = starts[k] + i
          BY ONLY <3>4, <5>1
        <5> QED
          BY ONLY <2>2, <4>1, <5>1, <5>2, i \in 1..HEADER
      <4>2. CASE k = size + 1
        <5>1. starts2[k] = end
          BY ONLY <3>3, <4>2, k \in 1..(size + 1)
        <5>2. pos = end + i
          BY ONLY <3>4, <5>1
        <5> QED
          BY ONLY <2>3, <3>2, <4>2, <5>2, i \in 1..HEADER
      <4> QED
        BY ONLY <3>0, <4>1, <4>2, k \in 1..(size + 1)
    <3>5. ASSUME NEW k \in 1..(size + 1), NEW i \in 1..MAX_PACKET_SIZE,
                 i <= Len(messages[k]), pos = starts2[k] + HEADER + i
          PROVE  b = [message |-> k, at |-> i]
      <4>1. CASE k \in 1..size
        <5>1. starts2[k] = starts[k] /\ messages[k] = accepted[k]
          BY ONLY <3>2, <3>3, <4>1, k \in 1..(size + 1)
        <5>2. pos = starts[k] + HEADER + i /\ i <= Len(accepted[k])
          BY ONLY <3>5, <5>1
        <5> QED
          BY ONLY <2>2, <4>1, <5>2, i \in 1..MAX_PACKET_SIZE
      <4>2. CASE k = size + 1
        <5>1. starts2[k] = end /\ i <= n
          BY ONLY <3>2, <3>3, <3>5, <4>2, k \in 1..(size + 1)
        <5>2. pos = end + HEADER + i
          BY ONLY <3>5, <5>1
        <5>3. i \in 1..n
          BY ONLY <1>9, <5>1, i \in 1..MAX_PACKET_SIZE
        <5> QED
          BY ONLY <2>3, <4>2, <5>2, <5>3
      <4> QED
        BY ONLY <3>0, <4>1, <4>2, k \in 1..(size + 1)
    <3>6. ASSUME NEW i \in 1..HEADER
          PROVE  pos # starts2[Len(messages) + 1] + i
      <4>1. Len(messages) + 1 = size + 2
        BY ONLY <3>2, size \in Nat
      <4>2. pos # end + HEADER + n + i
        BY ONLY <1>9, <2>0, end \in Nat, i \in 1..HEADER
      <4> QED
        BY ONLY <3>3, <4>1, <4>2
    <3>7. Fits(messages, starts2, bad, pos, b)
      BY ONLY <3>2, <3>4, <3>5, <3>6 DEF Fits
    <3> QED
      BY ONLY <3>1, <3>7
  <2> QED
    BY ONLY <2>5 DEF pos, b
<1>14. \A j \in 1..Len(Pending') : Fits(accepted', starts2, bad, Used(starts2)' + j, Pending'[j])
  BY ONLY <1>5, <1>7, <1>12, <1>13
<1>15. Used(starts2)' + Len(Pending') = starts2[Len(accepted') + 1]
  <2>1. u + (m + HEADER + n) = end + HEADER + n
    BY ONLY <1>8, <1>9, u \in Nat, m \in Nat
  <2>2. Len(Pending') = m + HEADER + n /\ Len(accepted') + 1 = size + 2
    BY <1>4, <1>5, <1>7
  <2> QED
    BY ONLY <1>10, <1>12, <2>1, <2>2
<1>16. StreamInv(starts2, bad)'
  BY <1>11, <1>14, <1>15 DEF StreamInv, Frames
<1> QED
  BY <1>11, <1>16
-------------------------------------------------------------------------------
(* What has arrived.                                                       *)

LEMMA BufferFirst ==
    ASSUME TypeOK, Len(outgoing) <= 2
    PROVE  /\ Len(buffer) \in Nat /\ Len(Pending) \in Nat /\ Len(buffer) <= Len(Pending)
           /\ \A j \in 1..Len(buffer) : Pending[j] = buffer[j]
<1> DEFINE tail == wire \o Rest(outgoing)
<1>1. /\ buffer \in Seq(Byte) /\ wire \in Seq(Byte) /\ Rest(outgoing) \in Seq(Byte)
      /\ Len(buffer) \in Nat /\ Len(Pending) \in Nat
  BY PendingTyped
<1>2. (buffer \o wire) \o Rest(outgoing) = buffer \o (wire \o Rest(outgoing))
  BY ONLY <1>1, Regrouped, SMTT(30)
<1>3. tail \in Seq(Byte) /\ Len(tail) \in Nat
  BY ONLY <1>1
<1>4. Pending = buffer \o tail
  BY ONLY <1>2 DEF Pending
<1> HIDE DEF tail
<1>5. /\ Len(buffer \o tail) = Len(buffer) + Len(tail)
      /\ \A i \in 1..(Len(buffer) + Len(tail)) :
            (buffer \o tail)[i] = IF i <= Len(buffer) THEN buffer[i] ELSE tail[i - Len(buffer)]
  BY ONLY <1>1, <1>3, ConcatProperties
<1>6. \A j \in 1..Len(buffer) : (buffer \o tail)[j] = buffer[j]
  BY ONLY <1>1, <1>3, <1>5
<1>7. Len(buffer) <= Len(buffer \o tail)
  BY ONLY <1>1, <1>3, <1>5
<1> QED
  BY ONLY <1>1, <1>4, <1>6, <1>7

LEMMA HeadersDiffer ==
    ASSUME NEW m, NEW n, Header(m) = Header(n) PROVE m = n
<1>1. 1 \in 1..HEADER
  BY SizesAssumption
<1>2. Header(m)[1] = [length |-> m, at |-> 1] /\ Header(n)[1] = [length |-> n, at |-> 1]
  BY <1>1 DEF Header
<1>3. [length |-> m, at |-> 1].length = [length |-> n, at |-> 1].length
  BY <1>2
<1> QED
  BY ONLY <1>3

\* A header that has arrived says how long the next message is; where no message
\* is to come it is the one of a peer that breaks the protocol.
LEMMA HeaderArrived ==
    ASSUME TypeOK, MessagesInv, ReceiverInv, NEW starts, NEW bad \in BadLengths,
           StreamInv(starts, bad), expected = 0, Len(buffer) = HEADER
    PROVE  \/ /\ Len(received) < Len(accepted)
              /\ Decoded(buffer) = {Len(accepted[Len(received) + 1])}
           \/ Len(received) = Len(accepted) /\ sender # "open" /\ Decoded(buffer) = {bad}
<1>1. PICK size \in Nat, got \in Nat : size = Len(accepted) /\ got = Len(received)
  BY DEF TypeOK
<1>2. got < size \/ got = size
  <2>1. got <= size
    BY <1>1 DEF ReceiverInv
  <2> QED
    BY ONLY <2>1, size \in Nat, got \in Nat
<1>3. PICK s \in Nat : s = starts[got + 1]
  <2>1. got + 1 \in 1..(size + 1)
    BY ONLY <1>2, size \in Nat, got \in Nat
  <2> QED
    BY <1>1, <2>1 DEF StreamInv, Frames
<1>4. Used(starts) = s
  BY <1>1, <1>3 DEF Used
<1>5. HEADER \in Nat \ {0} /\ Len(Pending) \in Nat /\ HEADER <= Len(Pending)
      /\ \A j \in 1..HEADER : Pending[j] = buffer[j]
  BY BufferFirst, SizesAssumption DEF MessagesInv
<1>6. \A j \in 1..HEADER : Fits(accepted, starts, bad, s + j, buffer[j])
  <2>1. \A j \in 1..HEADER : j \in 1..Len(Pending)
    BY ONLY <1>5
  <2> QED
    BY <1>4, <1>5, <2>1 DEF StreamInv
<1>7. ASSUME NEW n \in Lengths, \A j \in 1..HEADER : buffer[j] = [length |-> n, at |-> j]
      PROVE  Decoded(buffer) = {n}
  <2>1. Header(n) \in Seq(Byte) /\ Len(Header(n)) = HEADER /\ buffer \in Seq(Byte)
    BY BytesTyped DEF TypeOK
  <2>2. \A j \in 1..Len(buffer) : buffer[j] = Header(n)[j]
    BY <1>7 DEF Header
  <2>3. buffer = Header(n)
    BY <2>1, <2>2, SeqEqual
  <2>4. {x \in Lengths : buffer = Header(x)} = {n}
    BY <2>3, HeadersDiffer
  <2> QED
    BY <2>4 DEF Decoded
<1>8. CASE got < size
  <2>1. got + 1 \in 1..size
    BY ONLY <1>8, size \in Nat, got \in Nat
  <2>2. Len(accepted[got + 1]) \in Lengths
    BY <1>1, <2>1, SizesAssumption DEF MessagesInv, Lengths
  <2>3. \A j \in 1..HEADER : buffer[j] = [length |-> Len(accepted[got + 1]), at |-> j]
    BY <1>1, <1>3, <1>6, <2>1 DEF Fits
  <2>4. Decoded(buffer) = {Len(accepted[got + 1])}
    BY <1>7, <2>2, <2>3
  <2> QED
    BY <1>1, <1>8, <2>4
<1>9. CASE got = size
  <2>1. \A j \in 1..HEADER : buffer[j] = [length |-> bad, at |-> j]
    BY <1>1, <1>3, <1>6, <1>9 DEF Fits
  <2>2. Decoded(buffer) = {bad}
    BY <1>7, <2>1 DEF BadLengths
  <2>3. sender # "open"
    <3>1. sender = "open" => s + Len(Pending) = s
      BY <1>1, <1>3, <1>4, <1>9 DEF StreamInv
    <3> QED
      BY ONLY <1>5, <3>1, s \in Nat
  <2> QED
    BY <1>1, <1>9, <2>2, <2>3
<1> QED
  BY <1>2, <1>8, <1>9

\* A body that has arrived is the next message.
LEMMA BodyArrived ==
    ASSUME TypeOK, MessagesInv, ReceiverInv, NEW starts, NEW bad,
           StreamInv(starts, bad), expected > 0, Len(buffer) = expected
    PROVE  Len(received) < Len(accepted) /\ buffer = accepted[Len(received) + 1]
<1>1. PICK size \in Nat, got \in Nat : size = Len(accepted) /\ got = Len(received)
  BY DEF TypeOK
<1>2. got < size /\ expected = Len(accepted[got + 1])
  BY <1>1 DEF ReceiverInv
<1>3. got + 1 \in 1..size /\ got + 1 \in 1..(size + 1)
  BY ONLY <1>2, size \in Nat, got \in Nat
<1>4. /\ expected \in 1..MAX_PACKET_SIZE /\ accepted[got + 1] = Body(got + 1, expected)
      /\ got + 1 \in 0..MaxPackets
  <2>1. accepted[got + 1] \in Message /\ expected \in 1..MAX_PACKET_SIZE
    BY <1>1, <1>2, <1>3, MessageTyped DEF TypeOK
  <2>2. accepted[got + 1] = Body(got + 1, expected)
    BY <1>1, <1>2, <1>3 DEF MessagesInv
  <2>3. PICK k \in 1..MaxPackets, n \in 1..MAX_PACKET_SIZE : accepted[got + 1] = Body(k, n)
    BY <2>1 DEF Message
  <2>4. 1 \in 1..n /\ 1 \in 1..expected
    BY <2>1, SizesAssumption
  <2>5. Body(k, n)[1].message = k /\ Body(got + 1, expected)[1].message = got + 1
    BY <2>4 DEF Body
  <2>6. k = got + 1
    BY ONLY <2>2, <2>3, <2>5
  <2> QED
    BY <2>1, <2>2, <2>6, SizesAssumption
<1>5. PICK s \in Nat : s = starts[got + 1]
  BY <1>1, <1>3 DEF StreamInv, Frames
<1>6. Used(starts) = s + HEADER
  BY <1>1, <1>4, <1>5, SizesAssumption DEF Used
<1>7. \A j \in 1..expected : Fits(accepted, starts, bad, (s + HEADER) + j, buffer[j])
  <2>1. expected \in Nat /\ expected <= Len(Pending) /\ Len(Pending) \in Nat
        /\ \A j \in 1..expected : Pending[j] = buffer[j]
    BY BufferFirst DEF MessagesInv
  <2>2. \A j \in 1..expected : j \in 1..Len(Pending)
    BY ONLY <2>1
  <2> QED
    BY <1>6, <2>1, <2>2 DEF StreamInv
<1>8. ASSUME NEW j \in 1..expected PROVE buffer[j] = Body(got + 1, expected)[j]
  <2>1. j \in 1..MAX_PACKET_SIZE /\ j <= Len(accepted[got + 1])
        /\ (s + HEADER) + j = starts[got + 1] + HEADER + j
    BY <1>2, <1>4, <1>5, SizesAssumption
  <2>2. buffer[j] = [message |-> got + 1, at |-> j]
    BY <1>1, <1>3, <1>7, <2>1 DEF Fits
  <2> QED
    BY <2>2 DEF Body
<1>9. /\ Body(got + 1, expected) \in Seq(Byte) /\ Len(Body(got + 1, expected)) = expected
      /\ buffer \in Seq(Byte)
  BY <1>4, BodyTyped DEF TypeOK
<1>10. buffer = Body(got + 1, expected)
  BY <1>8, <1>9, SeqEqual
<1> QED
  BY <1>1, <1>2, <1>4, <1>10
-------------------------------------------------------------------------------
(* The invariant.                                                          *)

LEMMA InvariantInit == Init => PacketInv
<1> SUFFICES ASSUME Init PROVE PacketInv
  OBVIOUS
<1>1. TypeOK
  BY TypesInit
<1>2. /\ accepted = <<>> /\ received = <<>> /\ outgoing = <<>> /\ wire = <<>> /\ buffer = <<>>
      /\ sender = "open" /\ expected = 0 /\ receiver = "reading"
  BY DEF Init
<1>3. Len(accepted) = 0 /\ Len(received) = 0 /\ Len(outgoing) = 0
  BY <1>2
<1>4. MessagesInv /\ ReceiverInv
  <2>1. ~(expected > 0) /\ receiver # "ended" /\ \A k \in 1..0 : FALSE
    BY ONLY <1>2
  <2>2. MessagesInv
    BY ONLY <1>3, <2>1 DEF MessagesInv
  <2>3. ReceiverInv
    BY ONLY <1>3, <2>1 DEF ReceiverInv
  <2> QED
    BY <2>2, <2>3
<1>5. PICK starts \in [1..(Len(accepted) + 1) -> Nat] : starts = [k \in 1..1 |-> 0]
  <2>1. Len(accepted) + 1 = 1
    BY ONLY <1>3
  <2>2. [k \in 1..1 |-> 0] \in [1..1 -> Nat]
    OBVIOUS
  <2> QED
    BY ONLY <2>1, <2>2
<1>6. 0 \in BadLengths
  BY SizesAssumption DEF BadLengths, Lengths
<1>7. Pending = (<<>> \o <<>>) \o <<>>
  BY <1>2 DEF Pending, Rest
<1>8. Pending = <<>> /\ Len(Pending) = 0
  <2>1. <<>> \in Seq(Byte)
    OBVIOUS
  <2> QED
    BY <1>7, <2>1, ConcatEmptySeq
<1>9. Frames(starts)
  BY <1>3, <1>5 DEF Frames
<1>10. Used(starts) = 0 /\ starts[Len(accepted) + 1] = 0
  BY <1>2, <1>3, <1>5 DEF Used
<1>11. StreamInv(starts, 0)
  BY <1>8, <1>9, <1>10 DEF StreamInv
<1> QED
  BY <1>1, <1>4, <1>6, <1>11 DEF PacketInv

LEMMA SendPacketInv ==
    ASSUME PacketInv, NEW n \in Lengths, SendPacket(n) PROVE PacketInv'
<1>1. TypeOK /\ MessagesInv /\ ReceiverInv
  BY DEF PacketInv
<1>2. PICK starts \in [1..(Len(accepted) + 1) -> Nat], bad \in BadLengths : StreamInv(starts, bad)
  BY DEF PacketInv
<1>3. TypeOK'
  BY <1>1, SendPacketTypes
<1>4. \E starts2 \in [1..(Len(accepted') + 1) -> Nat] : StreamInv(starts2, bad)'
  BY <1>1, <1>2, SendPacketStream
<1>5. PICK size \in Nat : size = Len(accepted)
  BY <1>1 DEF TypeOK
<1>6. /\ UNCHANGED <<expected, received, receiver, sender>> /\ sender = "open"
      /\ n \in 1..MAX_PACKET_SIZE /\ size + 1 \in 1..MaxPackets
      /\ accepted' = Append(accepted, Body(size + 1, n))
      /\ outgoing' = <<Header(n), Body(size + 1, n)>>
  BY <1>5, SizesAssumption DEF SendPacket, Buffers, receiving
<1>7. Body(size + 1, n) \in Message /\ Len(Body(size + 1, n)) = n
  <2>1. size + 1 \in 0..MaxPackets
    BY <1>6, SizesAssumption
  <2> QED
    BY <1>6, <2>1, BodyTyped DEF Message
<1>8. /\ Len(accepted') = size + 1
      /\ \A k \in 1..size : accepted'[k] = accepted[k]
      /\ accepted'[size + 1] = Body(size + 1, n)
  <2>1. accepted \in Seq(Message)
    BY <1>1 DEF TypeOK
  <2> QED
    BY <1>5, <1>6, <1>7, <2>1, AppendProperties
<1>9. \A k \in 1..(size + 1) : k \in 1..size \/ k = size + 1
  BY ONLY size \in Nat
<1>10. MessagesInv'
  <2>1. Len(outgoing') <= 2
    BY <1>6
  <2>2. ASSUME NEW k \in 1..(size + 1)
        PROVE  Len(accepted'[k]) \in 1..MAX_PACKET_SIZE
               /\ accepted'[k] = Body(k, Len(accepted'[k]))
    <3>1. CASE k \in 1..size
      BY <1>1, <1>5, <1>8, <3>1 DEF MessagesInv
    <3>2. CASE k = size + 1
      BY <1>6, <1>7, <1>8, <3>2
    <3> QED
      BY <1>9, <3>1, <3>2
  <2> QED
    BY <1>8, <2>1, <2>2 DEF MessagesInv
<1>11. ReceiverInv'
  <2>1. PICK got \in Nat : got = Len(received) /\ got <= size
    BY <1>1, <1>5 DEF TypeOK, ReceiverInv
  <2>2. got <= size + 1 /\ \A k \in 1..got : k \in 1..size
    BY ONLY <2>1, size \in Nat, got \in Nat
  <2>3. \A k \in 1..got : received[k] = accepted'[k]
    BY <1>1, <1>8, <2>1, <2>2 DEF ReceiverInv
  <2>4. ASSUME expected > 0
        PROVE  got < size + 1 /\ expected = Len(accepted'[got + 1])
    <3>1. got < size /\ expected = Len(accepted[got + 1])
      BY <1>1, <1>5, <2>1, <2>4 DEF ReceiverInv
    <3>2. got + 1 \in 1..size /\ got < size + 1
      BY ONLY <3>1, size \in Nat, got \in Nat
    <3> QED
      BY <1>8, <3>1, <3>2
  <2>5. receiver # "ended"
    BY <1>1, <1>6 DEF ReceiverInv
  <2> QED
    BY <1>6, <1>8, <2>1, <2>2, <2>3, <2>4, <2>5 DEF ReceiverInv
<1> QED
  BY <1>2, <1>3, <1>4, <1>10, <1>11 DEF PacketInv

\* Steps that neither accept nor deliver a message nor read a header.
LEMMA SameMessages ==
    ASSUME MessagesInv, ReceiverInv, UNCHANGED <<accepted, received, expected>>,
           Len(outgoing') <= 2, receiver' = "ended" => sender' # "open"
    PROVE  MessagesInv' /\ ReceiverInv'
  BY DEF MessagesInv, ReceiverInv

LEMMA SendBadLengthInv ==
    ASSUME PacketInv, NEW n \in BadLengths, SendBadLength(n) PROVE PacketInv'
<1>1. TypeOK /\ MessagesInv /\ ReceiverInv
  BY DEF PacketInv
<1>2. PICK starts \in [1..(Len(accepted) + 1) -> Nat], bad \in BadLengths : StreamInv(starts, bad)
  BY DEF PacketInv
<1>3. TypeOK' /\ StreamInv(starts, n)'
  BY <1>1, <1>2, SendBadLengthTypes, SendBadLengthStream
<1>4. /\ UNCHANGED <<accepted, received, expected>> /\ Len(outgoing') <= 2
      /\ sender' # "open"
  BY DEF SendBadLength, receiving
<1>5. MessagesInv' /\ ReceiverInv'
  BY <1>1, <1>4, SameMessages
<1> QED
  BY <1>3, <1>4, <1>5 DEF PacketInv

LEMMA SendSomeInv == ASSUME PacketInv, SendSome PROVE PacketInv'
<1>1. TypeOK /\ MessagesInv /\ ReceiverInv /\ Len(outgoing) <= 2
  BY DEF PacketInv, MessagesInv
<1>2. PICK starts \in [1..(Len(accepted) + 1) -> Nat], bad \in BadLengths : StreamInv(starts, bad)
  BY DEF PacketInv
<1>3. UNCHANGED <<accepted, sender, expected, buffer, received, receiver>>
  BY DEF SendSome, receiving, Over
<1>4. /\ wire' \in Seq(Byte) /\ Len(wire') <= WIRE
      /\ outgoing' \in Seq(Seq(Byte)) /\ Len(outgoing') <= 2
  BY <1>1, SendSomeMoves
<1>5. TypeOK'
  BY <1>1, <1>3, <1>4 DEF TypeOK, Needed
<1>6. StreamInv(starts, bad)'
  BY <1>1, <1>2, SendSomeStream
<1>7. receiver' = "ended" => sender' # "open"
  BY <1>1, <1>3 DEF ReceiverInv
<1>8. MessagesInv' /\ ReceiverInv'
  BY <1>1, <1>3, <1>4, <1>7, SameMessages
<1> QED
  BY <1>2, <1>3, <1>5, <1>6, <1>8 DEF PacketInv

LEMMA ReceiveSomeInv == ASSUME PacketInv, ReceiveSome PROVE PacketInv'
<1>1. TypeOK /\ MessagesInv /\ ReceiverInv /\ Len(outgoing) <= 2
  BY DEF PacketInv, MessagesInv
<1>2. PICK starts \in [1..(Len(accepted) + 1) -> Nat], bad \in BadLengths : StreamInv(starts, bad)
  BY DEF PacketInv
<1>3. UNCHANGED <<accepted, sender, outgoing, expected, received, receiver>>
  BY DEF ReceiveSome, sending
<1>4. TypeOK' /\ StreamInv(starts, bad)'
  BY <1>1, <1>2, ReceiveSomeMoves, ReceiveSomeStream
<1>5. receiver' = "ended" => sender' # "open"
  BY <1>1, <1>3 DEF ReceiverInv
<1>6. MessagesInv' /\ ReceiverInv'
  BY <1>1, <1>3, <1>5, SameMessages
<1> QED
  BY <1>2, <1>3, <1>4, <1>6 DEF PacketInv

LEMMA EndInv == ASSUME PacketInv, Close \/ Lose \/ ReceiveEnds PROVE PacketInv'
<1>1. TypeOK /\ MessagesInv /\ ReceiverInv /\ Len(outgoing) <= 2
  BY DEF PacketInv, MessagesInv
<1>2. PICK starts \in [1..(Len(accepted) + 1) -> Nat], bad \in BadLengths : StreamInv(starts, bad)
  BY DEF PacketInv
<1>3. /\ UNCHANGED <<accepted, expected, received>> /\ sender' # "open"
      /\ Len(outgoing') <= 2
  BY <1>1 DEF Close, Lose, ReceiveEnds, sending, receiving, Over
<1>4. TypeOK' /\ StreamInv(starts, bad)'
  BY <1>1, <1>2, EndTypes, EndStream
<1>5. MessagesInv' /\ ReceiverInv'
  BY <1>1, <1>3, SameMessages
<1> QED
  BY <1>2, <1>3, <1>4, <1>5 DEF PacketInv

LEMMA HeaderCompleteInv == ASSUME PacketInv, HeaderComplete PROVE PacketInv'
<1>1. TypeOK /\ MessagesInv /\ ReceiverInv /\ Len(outgoing) <= 2
  BY DEF PacketInv, MessagesInv
<1>2. PICK starts \in [1..(Len(accepted) + 1) -> Nat], bad \in BadLengths : StreamInv(starts, bad)
  BY DEF PacketInv
<1>3. UNCHANGED <<accepted, outgoing, sender, received>> /\ expected = 0
  BY DEF HeaderComplete, sending
<1>4. TypeOK' /\ StreamInv(starts, bad)'
  BY <1>1, <1>2, HeaderCompleteTypes, HeaderCompleteStream
<1>5. Len(buffer) = HEADER
  BY <1>1, <1>3, SizesAssumption DEF HeaderComplete, Needed, TypeOK
<1>6. PICK n \in Decoded(buffer) :
         IF n \in 1..MAX_PACKET_SIZE
         THEN expected' = n /\ buffer' = <<>> /\ UNCHANGED receiver
         ELSE receiver' = "ended" /\ UNCHANGED <<expected, buffer>>
  BY DEF HeaderComplete
<1>7. \/ /\ Len(received) < Len(accepted) /\ n = Len(accepted[Len(received) + 1])
         /\ n \in 1..MAX_PACKET_SIZE
      \/ sender # "open" /\ n \notin 1..MAX_PACKET_SIZE
  <2>1. CASE /\ Len(received) < Len(accepted)
             /\ Decoded(buffer) = {Len(accepted[Len(received) + 1])}
    <3>1. PICK size \in Nat, got \in Nat : size = Len(accepted) /\ got = Len(received)
      BY <1>1 DEF TypeOK
    <3>2. got + 1 \in 1..size
      <4>1. got < size
        BY <2>1, <3>1
      <4> QED
        BY ONLY <4>1, size \in Nat, got \in Nat
    <3> QED
      BY <1>1, <1>6, <2>1, <3>1, <3>2 DEF MessagesInv
  <2>2. CASE sender # "open" /\ Decoded(buffer) = {bad}
    BY <1>6, <2>2 DEF BadLengths
  <2> QED
    BY <1>1, <1>2, <1>3, <1>5, <2>1, <2>2, HeaderArrived
<1>8. MessagesInv'
  BY <1>1, <1>3 DEF MessagesInv
<1>9. ReceiverInv'
  BY <1>1, <1>3, <1>6, <1>7 DEF ReceiverInv
<1> QED
  BY <1>2, <1>3, <1>4, <1>8, <1>9 DEF PacketInv

LEMMA BodyCompleteInv ==
    ASSUME PacketInv, BodyComplete
    PROVE  PacketInv' /\ Len(received) < Len(accepted) /\ buffer = accepted[Len(received) + 1]
<1>1. TypeOK /\ MessagesInv /\ ReceiverInv /\ Len(outgoing) <= 2
  BY DEF PacketInv, MessagesInv
<1>2. PICK starts \in [1..(Len(accepted) + 1) -> Nat], bad \in BadLengths : StreamInv(starts, bad)
  BY DEF PacketInv
<1>3. /\ UNCHANGED <<accepted, outgoing, sender, receiver>> /\ expected > 0 /\ expected' = 0
      /\ received' = Append(received, buffer)
  BY DEF BodyComplete, sending
<1>4. TypeOK' /\ StreamInv(starts, bad)'
  BY <1>1, <1>2, BodyCompleteTypes, BodyCompleteStream
<1>5. Len(buffer) = expected
  BY <1>1, <1>3 DEF BodyComplete, Needed, TypeOK
<1>6. Len(received) < Len(accepted) /\ buffer = accepted[Len(received) + 1]
  BY <1>1, <1>2, <1>3, <1>5, BodyArrived
<1>7. MessagesInv'
  BY <1>1, <1>3 DEF MessagesInv
<1>8. ReceiverInv'
  <2>1. PICK size \in Nat, got \in Nat : size = Len(accepted) /\ got = Len(received)
    BY <1>1 DEF TypeOK
  <2>2. received \in Seq(Seq(Byte)) /\ buffer \in Seq(Byte)
    BY <1>1 DEF TypeOK
  <2>3. /\ Len(received') = got + 1 /\ received'[got + 1] = buffer
        /\ \A k \in 1..got : received'[k] = received[k]
    BY <1>3, <2>1, <2>2, AppendProperties
  <2>4. got + 1 <= size /\ \A k \in 1..(got + 1) : k \in 1..got \/ k = got + 1
    <3>1. got < size
      BY <1>6, <2>1
    <3> QED
      BY ONLY <3>1, size \in Nat, got \in Nat
  <2>5. ASSUME NEW k \in 1..(got + 1) PROVE received'[k] = accepted[k]
    <3>1. CASE k \in 1..got
      BY <1>1, <2>1, <2>3, <3>1 DEF ReceiverInv
    <3>2. CASE k = got + 1
      BY <1>6, <2>1, <2>3, <3>2
    <3> QED
      BY <2>4, <3>1, <3>2
  <2>6. receiver' = "ended" => sender' # "open"
    BY <1>1, <1>3 DEF ReceiverInv
  <2> QED
    BY <1>3, <2>1, <2>3, <2>4, <2>5, <2>6 DEF ReceiverInv
<1> QED
  BY <1>2, <1>3, <1>4, <1>6, <1>7, <1>8 DEF PacketInv

LEMMA InvariantStep == ASSUME PacketInv, [Next]_vars PROVE PacketInv'
<1>1. CASE UNCHANGED vars
  <2>1. UNCHANGED <<accepted, outgoing, wire, sender, expected, buffer, received, receiver>>
    BY <1>1 DEF vars
  <2> QED
    BY <2>1 DEF PacketInv, TypeOK, Needed, MessagesInv, ReceiverInv, StreamInv, Frames, Used,
                Pending
<1>2. ASSUME NEW n \in Lengths, SendPacket(n) PROVE PacketInv'
  BY <1>2, SendPacketInv
<1>3. ASSUME NEW n \in Lengths \ (1..MAX_PACKET_SIZE), SendBadLength(n) PROVE PacketInv'
  BY <1>3, SendBadLengthInv DEF BadLengths
<1>4. CASE SendSome
  BY <1>4, SendSomeInv
<1>5. CASE Close \/ Lose \/ ReceiveEnds
  BY <1>5, EndInv
<1>6. CASE ReceiveSome
  BY <1>6, ReceiveSomeInv
<1>7. CASE HeaderComplete
  BY <1>7, HeaderCompleteInv
<1>8. CASE BodyComplete
  BY <1>8, BodyCompleteInv
<1> QED
  BY <1>1, <1>2, <1>3, <1>4, <1>5, <1>6, <1>7, <1>8 DEF Next, Receive
-------------------------------------------------------------------------------
(* The theorems.                                                           *)

LEMMA PacketInvariant == Spec => []PacketInv
<1>1. PacketInv /\ [Next]_vars => PacketInv'
  BY InvariantStep
<1> QED
  BY <1>1, InvariantInit, PTL DEF Spec

\* What is under way, awaited and returned has its type, and the buffer of the
\* part awaited never overflows (RecvAll).
THEOREM PacketTypes == Spec => []TypeOK
<1>1. PacketInv => TypeOK
  BY DEF PacketInv
<1> QED
  BY <1>1, PacketInvariant, PTL

\* Every step of the framing is a step of the link, or none of it.
LEMMA LinkStep == ASSUME PacketInv, [Next]_vars PROVE [L!Next]_(L!linkVars)
<1> DEFINE Quiet == UNCHANGED <<accepted, received>>
<1>1. ASSUME NEW n \in Lengths, SendPacket(n) PROVE L!Next
  <2>1. PICK size \in Nat : size = Len(accepted)
    BY DEF PacketInv, TypeOK
  <2>2. n \in 1..MAX_PACKET_SIZE /\ size + 1 \in 1..MaxPackets
    BY <1>1, <2>1, SizesAssumption DEF SendPacket
  <2>3. Body(size + 1, n) \in Message
    BY <2>2 DEF Message
  <2>4. L!Accept(Body(size + 1, n))
    BY <1>1, <2>1 DEF SendPacket, receiving, L!Accept
  <2> QED
    BY <2>3, <2>4 DEF L!Next
<1>2. CASE BodyComplete
  <2>1. Len(received) < Len(accepted) /\ buffer = accepted[Len(received) + 1]
    BY <1>2, BodyCompleteInv
  <2>2. /\ received' = Append(received, buffer) /\ UNCHANGED <<accepted, sender>>
    BY <1>2 DEF BodyComplete, sending
  <2>3. L!Deliver
    BY <2>1, <2>2 DEF L!Deliver
  <2> QED
    BY <2>3 DEF L!Next
<1>3. CASE Quiet /\ (sender' = "open" <=> sender = "open")
  BY <1>3 DEF L!linkVars
<1>4. CASE Quiet /\ sender = "open" /\ sender' # "open"
  BY <1>4 DEF L!Next, L!Break
<1>5. \/ \E n \in Lengths : SendPacket(n)
      \/ BodyComplete
      \/ Quiet /\ (sender' = "open" <=> sender = "open")
      \/ Quiet /\ sender = "open" /\ sender' # "open"
  <2>1. CASE UNCHANGED vars
    BY <2>1 DEF vars
  <2>2. ASSUME NEW n \in Lengths, SendBadLength(n) PROVE Quiet /\ sender = "open" /\ sender' # "open"
    BY <2>2 DEF SendBadLength, receiving
  <2>3. CASE SendSome
    BY <2>3 DEF SendSome, receiving, Over
  <2>4. CASE Close
    BY <2>4 DEF Close, receiving, Over
  <2>5. CASE Lose
    BY <2>5 DEF Lose, receiving, Over
  <2>6. CASE ReceiveSome
    BY <2>6 DEF ReceiveSome, sending
  <2>7. CASE HeaderComplete
    BY <2>7 DEF HeaderComplete, sending
  <2>8. CASE ReceiveEnds
    BY <2>8 DEF ReceiveEnds, sending, Over
  <2> QED
    BY <2>1, <2>2, <2>3, <2>4, <2>5, <2>6, <2>7, <2>8 DEF Next, Receive
<1> QED
  BY <1>1, <1>2, <1>3, <1>4, <1>5

\* However the stream cuts the packets up, and wherever it ends, the receiver
\* gets the messages the sender was given, whole, once and in order
\* (SendPacket, SendAll, ReceivePacket, RecvAll).
THEOREM FramingImplementsLink == Spec => ImplementsLink
<1>1. Init => L!Init
  BY DEF Init, L!Init
<1>2. PacketInv /\ [Next]_vars => [L!Next]_(L!linkVars)
  BY LinkStep
<1> QED
  BY <1>1, <1>2, PacketInvariant, PTL DEF Spec, ImplementsLink, L!Spec

\* A receiver that keeps waiting while nothing is under way has returned
\* everything that was sent and holds no part of a packet.
NothingIsHeldBack ==
    sender = "open" /\ outgoing = <<>> /\ wire = <<>> =>
        /\ receiver = "reading"
        /\ \/ received = accepted /\ expected = 0 /\ buffer = <<>>
           \/ Len(buffer) = Needed

\* What the wait of ReceivePacket relies on: a whole packet that has arrived is
\* never waited for, and nobody gives up on it.
THEOREM NothingHeldBack == Spec => []NothingIsHeldBack
<1>1. PacketInv => NothingIsHeldBack
  <2> SUFFICES ASSUME PacketInv, sender = "open", outgoing = <<>>, wire = <<>>
               PROVE  /\ receiver = "reading"
                      /\ \/ received = accepted /\ expected = 0 /\ buffer = <<>>
                         \/ Len(buffer) = Needed
    BY DEF NothingIsHeldBack
  <2>1. TypeOK /\ MessagesInv /\ ReceiverInv
    BY DEF PacketInv
  <2>2. PICK starts \in [1..(Len(accepted) + 1) -> Nat], bad \in BadLengths : StreamInv(starts, bad)
    BY DEF PacketInv
  <2>3. receiver = "reading"
    BY <2>1 DEF TypeOK, ReceiverInv
  <2>4. PICK size \in Nat, got \in Nat, m \in Nat :
           size = Len(accepted) /\ got = Len(received) /\ m = Len(buffer)
    BY <2>1 DEF TypeOK
  <2>5. Pending = buffer
    <3>1. buffer \in Seq(Byte) /\ <<>> \in Seq(Byte)
      BY <2>1 DEF TypeOK
    <3>2. Pending = (buffer \o <<>>) \o <<>>
      BY DEF Pending, Rest
    <3> QED
      BY <3>1, <3>2, ConcatEmptySeq
  <2>6. Frames(starts) /\ Used(starts) + m = starts[size + 1]
    BY <2>2, <2>4, <2>5 DEF StreamInv
  <2>7. got < size \/ got = size
    <3>1. got <= size
      BY <2>1, <2>4 DEF ReceiverInv
    <3> QED
      BY ONLY <3>1, size \in Nat, got \in Nat
  <2>8. PICK s \in Nat, end \in Nat : s = starts[got + 1] /\ end = starts[size + 1]
    <3>1. got + 1 \in 1..(size + 1) /\ size + 1 \in 1..(size + 1)
      BY ONLY <2>7, size \in Nat, got \in Nat
    <3> QED
      BY <2>4, <2>6, <3>1 DEF Frames
  <2>9. HEADER \in Nat \ {0} /\ MAX_PACKET_SIZE \in Nat \ {0} /\ expected \in Nat /\ m <= Needed
    BY <2>1, <2>4, SizesAssumption DEF TypeOK
  <2>10. CASE got < size
    <3>1. got + 1 \in 1..size
      BY ONLY <2>10, size \in Nat, got \in Nat
    <3>2. PICK n \in 1..MAX_PACKET_SIZE : n = Len(accepted[got + 1])
      BY <2>1, <2>4, <3>1 DEF MessagesInv
    <3>3. s + HEADER + n <= end
      BY <2>4, <2>6, <2>8, <3>1, <3>2 DEF Frames
    <3>4. CASE expected = 0
      <4>1. s + 0 + m = end /\ m <= HEADER
        BY <2>4, <2>6, <2>8, <2>9, <3>4 DEF Used, Needed
      <4> QED
        BY ONLY <2>9, <3>3, <4>1, s \in Nat, m \in Nat, n \in 1..MAX_PACKET_SIZE
    <3>5. CASE expected # 0
      <4>1. expected = n /\ Needed = n
        BY <2>1, <2>4, <2>9, <3>2, <3>5 DEF ReceiverInv, Needed
      <4>2. s + HEADER + m = end /\ m <= n
        BY <2>4, <2>6, <2>8, <2>9, <3>5, <4>1 DEF Used
      <4>3. m = n
        BY ONLY <2>9, <3>3, <4>2, s \in Nat, m \in Nat, n \in 1..MAX_PACKET_SIZE
      <4> QED
        BY <2>3, <2>4, <4>1, <4>3
    <3> QED
      BY <3>4, <3>5
  <2>11. CASE got = size
    <3>1. expected = 0
      <4>1. expected > 0 => got < size
        BY <2>1, <2>4 DEF ReceiverInv
      <4> QED
        BY ONLY <2>9, <2>11, <4>1, size \in Nat
    <3>2. s = end /\ s + 0 + m = end
      BY <2>4, <2>6, <2>8, <2>11, <3>1 DEF Used
    <3>3. m = 0
      BY ONLY <3>2, s \in Nat, m \in Nat
    <3>4. received \in Seq(Seq(Byte)) /\ accepted \in Seq(Seq(Byte)) /\ buffer \in Seq(Byte)
      <4>1. \A k \in 1..size : accepted[k] \in Seq(Byte)
        BY <2>1, <2>4, MessageTyped DEF TypeOK
      <4>2. accepted \in Seq(Seq(Byte))
        BY <2>1, <2>4, <4>1 DEF TypeOK
      <4> QED
        BY <2>1, <4>2 DEF TypeOK
    <3>5. \A k \in 1..Len(received) : received[k] = accepted[k]
      BY <2>1 DEF ReceiverInv
    <3>6. received = accepted
      BY <2>4, <2>11, <3>4, <3>5, SeqEqual
    <3>7. buffer = <<>>
      <4>1. <<>> \in Seq(Byte) /\ Len(buffer) = 0
        BY <2>4, <3>3
      <4> QED
        BY ONLY <3>4, <4>1, EmptySeq
    <3> QED
      BY <2>3, <3>1, <3>6, <3>7
  <2> QED
    BY <2>7, <2>10, <2>11
<1> QED
  BY <1>1, PacketInvariant, PTL
===============================================================================
