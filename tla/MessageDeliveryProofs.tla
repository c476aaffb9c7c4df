------------------------- MODULE MessageDeliveryProofs -------------------------
(***************************************************************************)
(* Theorems about MessageDelivery, for any number of message ids, of       *)
(* publications in both directions, of partial writes and of losses.       *)
(***************************************************************************)
EXTENDS MessageDelivery, FiniteSetTheorems, WellFoundedInduction, TLAPS

\* Why one acknowledgement at most is ever queued: queueing one ends the turn of
\* the receive thread, which takes no other while the write it waits for is
\* pending.
QueueInv ==
  /\ dropped = {}
  /\ outboundQueue = <<>> \/ \E packet : outboundQueue = <<packet>>
  /\ outboundQueue # <<>> => pending /\ ~ready

LEMMA LenFacts ==
  /\ Len(<<>>) = 0
  /\ \A packet : Len(<<packet>>) = 1 /\ <<packet>> # <<>>
  /\ \A packet : Append(<<>>, packet) = <<packet>>
OBVIOUS

\* A packet is handled: whatever is sent finds the queue empty.
LEMMA SendStep ==
  ASSUME QueueInv, ready, ready' = FALSE, NEW packet, Send(packet)
  PROVE  QueueInv'
<1>1. outboundQueue = <<>>
  BY DEF QueueInv
<1>2. CASE pending
  <2>1. /\ outboundQueue' = <<packet>> /\ pending' = pending /\ dropped' = dropped
    BY <1>1, <1>2, LenFacts DEF Send
  <2> QED BY <1>2, <2>1 DEF QueueInv
<1>3. CASE ~pending
  <2>1. outboundQueue' = <<>> /\ dropped' = dropped
    BY <1>1, <1>3 DEF Send, Write
  <2> QED BY <2>1 DEF QueueInv
<1> QED BY <1>2, <1>3

\* Nothing is sent, and the receive thread is where it was, or done.
LEMMA SilentStep ==
  ASSUME QueueInv, UNCHANGED <<outboundQueue, dropped>>,
         outboundQueue # <<>> => pending' /\ ~ready'
  PROVE  QueueInv'
BY DEF QueueInv

LEMMA ReceiveStep ==
  ASSUME QueueInv, Receive
  PROVE  QueueInv'
<1>0. ASSUME NEW type, Take(type) PROVE ready /\ ready' = FALSE
  BY <1>0 DEF Take
<1>1. ASSUME ready, ready' = FALSE, UNCHANGED socket PROVE QueueInv'
  BY <1>1, SilentStep DEF socket, QueueInv
<1>2. CASE HandlePublishes
  <2>1. ready /\ ready' = FALSE
    BY <1>0, <1>2 DEF HandlePublishes
  <2>2. UNCHANGED socket \/ Send(Ack("PUBACK", Head(toClient).id))
                         \/ Send(Ack("PUBREC", Head(toClient).id))
    BY <1>2 DEF HandlePublishes
  <2> QED BY <1>1, <2>1, <2>2, SendStep
<1>3. CASE HandlePubrels
  <2>1. ready /\ ready' = FALSE /\ Send(Ack("PUBCOMP", Head(toClient).id))
    BY <1>0, <1>3 DEF HandlePubrels
  <2> QED BY <2>1, SendStep
<1>4. CASE HandlePubacks \/ HandlePubcomps
  BY <1>0, <1>1, <1>4 DEF HandlePubacks, HandlePubcomps
<1>5. CASE HandlePubrecs
  <2>1. ready /\ ready' = FALSE /\ Send(Ack("PUBREL", Head(toClient).id))
    BY <1>0, <1>5 DEF HandlePubrecs
  <2> QED BY <2>1, SendStep
<1> QED BY <1>2, <1>3, <1>4, <1>5 DEF Receive

\* One acknowledgement that waits is either sent as the last of the queue, or
\* not yet: none stays behind.
LEMMA WriteAvailableStep ==
  ASSUME QueueInv, WriteAvailable
  PROVE  QueueInv'
<1>1. PICK k \in 0 .. Len(outboundQueue) :
        /\ dropped' = dropped \cup {outboundQueue[j] : j \in k + 1 .. Len(outboundQueue)}
        /\ k = Len(outboundQueue) \/ k > 0
  BY DEF WriteAvailable
<1>2. Len(outboundQueue) \in 0 .. 1
  BY LenFacts DEF QueueInv
<1>3. k = Len(outboundQueue)
  BY <1>1, <1>2
<1>4. k + 1 .. Len(outboundQueue) = {}
  BY <1>2, <1>3
<1>5. dropped' = {}
  BY <1>1, <1>4 DEF QueueInv
<1>6. outboundQueue' = <<>>
  BY DEF WriteAvailable
<1> QED BY <1>5, <1>6 DEF QueueInv

LEMMA QueueStep ==
  ASSUME QueueInv, [Next]_vars
  PROVE  QueueInv'
<1>1. CASE ReadySocket
  BY <1>1, SilentStep DEF ReadySocket, QueueInv, socket
<1>2. CASE Receive
  BY <1>2, ReceiveStep
<1>3. CASE WriteAvailable
  BY <1>3, WriteAvailableStep
<1>4. CASE StartPublish \/ StartPublishQoS0
  <2>1. ~pending /\ UNCHANGED <<outboundQueue, dropped>>
    BY <1>4 DEF StartPublish, StartPublishQoS0, TakeCommand, Write
  <2> QED BY <2>1, SilentStep DEF QueueInv
<1>9. CASE WriteComplete
  BY <1>9, SilentStep DEF WriteComplete, QueueInv, socket
<1>5. CASE BrokerReads
  BY <1>5, SilentStep DEF BrokerReads, QueueInv
<1>6. CASE Lose
  BY <1>6 DEF Lose, QueueInv
<1>7. ASSUME NEW qos \in Qos, Forward(qos) \/ SendMessage(qos) PROVE QueueInv'
  BY <1>7, SilentStep DEF Forward, SendMessage, QueueInv, socket
<1>8. CASE UNCHANGED vars
  BY <1>8, SilentStep DEF vars, socket, QueueInv
<1> QED BY <1>1, <1>2, <1>3, <1>4, <1>5, <1>6, <1>7, <1>8, <1>9 DEF Next

\* No acknowledgement is thrown away: writeAvailable empties a queue it may not
\* have sent, but never with more than one acknowledgement in it.
THEOREM DroppedNever == Spec => []NothingDropped
<1>1. Init => QueueInv
  BY DEF Init, QueueInv
<1>2. QueueInv => NothingDropped
  <2> SUFFICES ASSUME QueueInv PROVE dropped = {} /\ Len(outboundQueue) <= 1
    BY DEF NothingDropped
  <2>1. dropped = {}
    BY DEF QueueInv
  <2>2. Len(outboundQueue) = 0 \/ Len(outboundQueue) = 1
    BY LenFacts DEF QueueInv
  <2>3. 0 <= 1 /\ 1 <= 1
    OBVIOUS
  <2>4. Len(outboundQueue) <= 1
    BY <2>2, <2>3, Zenon
  <2> QED BY <2>1, <2>4
<1> QED BY <1>1, <1>2, QueueStep, PTL DEF Spec

-----------------------------------------------------------------------------
(* The types *)

ClientPacket == AckPacket \cup Publication(ins)
BrokerPacket == AckPacket \cup Publication(outs)

SocketType ==
  /\ toBroker \in Seq(BrokerPacket)
  /\ pending \in BOOLEAN /\ (pending => toBroker # <<>>)
  /\ outboundQueue \in Seq(AckPacket) /\ (outboundQueue # <<>> => pending)
  /\ dropped \subseteq AckPacket /\ partials \in 0 .. MaxPartial

ReceiveType ==
  /\ toClient \in Seq(ClientPacket)
  /\ ready \in BOOLEAN /\ (ready => toClient # <<>> /\ ~finished)
  /\ inboundMsgs \in [MsgId -> 0 .. ins] /\ received \in Seq(1 .. ins)

OutboundType ==
  /\ outboundMsgs \in [MsgId -> Exchange(outs)] /\ responses \in [MsgId -> 0 .. outs]
  /\ completed \in Seq(1 .. outs)
  /\ unnumbered \subseteq 1 .. outs /\ pendingWrite \in 0 .. outs /\ finished \in BOOLEAN

RequestType ==
  /\ commands \in Seq(Publication(outs)) /\ msgID \in 0 .. MaxMsgId /\ outs \in 0 .. MaxOut
  /\ askedQos \in [1 .. outs -> Qos]

BrokerType ==
  /\ sending \in [MsgId -> Exchange(ins)] /\ stored \in [MsgId -> 0 .. outs]
  /\ published \in Seq(1 .. outs) /\ ins \in 0 .. MaxIn /\ qosOf \in [1 .. ins -> Qos]

LEMMA TypeParts ==
  TypeOK <=> /\ SocketType /\ ReceiveType /\ OutboundType /\ RequestType /\ BrokerType
             /\ losses \in 0 .. MaxLosses
BY DEF TypeOK, SocketType, ReceiveType, OutboundType, RequestType, BrokerType, ClientPacket,
       BrokerPacket

LEMMA TypePartsNext ==
  ASSUME SocketType', ReceiveType', OutboundType', RequestType', BrokerType',
         losses' \in 0 .. MaxLosses
  PROVE  TypeOK'
BY DEF TypeOK, SocketType, ReceiveType, OutboundType, RequestType, BrokerType, ClientPacket,
       BrokerPacket

LEMMA Bounds ==
  /\ MaxMsgId \in Nat /\ MaxMsgId >= 1 /\ 1 \in MsgId /\ Qos \subseteq 0 .. 2
  /\ MaxIn \in Nat /\ MaxOut \in Nat /\ MaxPartial \in Nat /\ MaxLosses \in Nat
BY IdAssumption, QosAssumption, BoundAssumption DEF MsgId

LEMMA SeqSubset ==
  ASSUME NEW A, NEW B, A \subseteq B, NEW s \in Seq(A)
  PROVE  s \in Seq(B)
OBVIOUS

LEMMA HeadTail ==
  ASSUME NEW A, NEW s \in Seq(A), s # <<>>
  PROVE  Head(s) \in A /\ Tail(s) \in Seq(A)
OBVIOUS

LEMMA AppendType ==
  ASSUME NEW A, NEW s \in Seq(A), NEW x \in A
  PROVE  Append(s, x) \in Seq(A) /\ Append(s, x) # <<>>
<1>1. Append(s, x) \in Seq(A) /\ Len(Append(s, x)) = Len(s) + 1 /\ Len(s) \in Nat
  OBVIOUS
<1>2. Append(s, x) # <<>>
  <2>1. Len(Append(s, x)) # 0
    BY <1>1
  <2>2. Len(<<>>) = 0
    OBVIOUS
  <2> QED BY <2>1, <2>2
<1> QED BY <1>1, <1>2

LEMMA ConcatType ==
  ASSUME NEW A, NEW s \in Seq(A), NEW t \in Seq(A)
  PROVE  s \o t \in Seq(A)
OBVIOUS

\* Packets name an id, but for a publication that is not acknowledged.
LEMMA PacketFacts ==
  ASSUME NEW n \in Nat, NEW p \in AckPacket \cup Publication(n)
  PROVE  /\ p.type # "PUBLISH" => p \in AckPacket
         /\ p.type = "PUBLISH" => p \in Publication(n) /\ p.msg \in 1 .. n
         /\ p.type # "PUBLISH" \/ p.qos # 0 => p.id \in MsgId
         /\ p.type = "PUBLISH" /\ p.qos = 0 => p.id = 0
         /\ p.qos \in 0 .. 2
<1>1. CASE p \in AckPacket
  BY <1>1 DEF AckPacket, AckType
<1>2. CASE p \in Publication(n)
  <2>1. CASE p \in Numbered(n)
    BY <1>2, <2>1 DEF Numbered
  <2>2. CASE p \notin Numbered(n)
    BY <1>2, <2>2 DEF Publication
  <2> QED BY <2>1, <2>2
<1> QED BY <1>1, <1>2

LEMMA AckTypes ==
  ASSUME NEW type \in AckType, NEW id \in MsgId
  PROVE  Ack(type, id) \in AckPacket
BY DEF Ack, AckPacket

LEMMA WriteType ==
  ASSUME SocketType, NEW packet \in BrokerPacket, Write(packet), outs' = outs, outboundQueue = <<>>
  PROVE  SocketType'
<1>1. toBroker' \in Seq(BrokerPacket) /\ toBroker' # <<>>
  BY AppendType DEF Write, SocketType
<1>2. pending' \in BOOLEAN /\ partials' \in 0 .. MaxPartial
  BY Bounds DEF Write, Written, SocketType
<1>3. BrokerPacket' = BrokerPacket
  BY DEF BrokerPacket
<1> QED BY <1>1, <1>2, <1>3 DEF SocketType, Write

LEMMA SendType ==
  ASSUME SocketType, NEW packet \in AckPacket, Send(packet), outs' = outs
  PROVE  SocketType'
<1>1. CASE pending
  <2>1. /\ outboundQueue' = Append(outboundQueue, packet)
        /\ UNCHANGED <<toBroker, pending, dropped, partials>>
    BY <1>1 DEF Send
  <2>2. outboundQueue' \in Seq(AckPacket)
    BY <2>1, AppendType DEF SocketType
  <2>3. BrokerPacket' = BrokerPacket
    BY DEF BrokerPacket
  <2> QED BY <1>1, <2>1, <2>2, <2>3 DEF SocketType
<1>2. CASE ~pending
  BY <1>2, WriteType DEF Send, SocketType, BrokerPacket
<1> QED BY <1>1, <1>2

LEMMA SocketSame ==
  ASSUME SocketType, UNCHANGED <<socket, outs>>
  PROVE  SocketType'
BY DEF SocketType, socket, BrokerPacket

LEMMA ReceiveSame ==
  ASSUME ReceiveType, UNCHANGED <<toClient, ready, inboundMsgs, received, ins>>,
         finished' => finished \/ ~ready
  PROVE  ReceiveType'
BY DEF ReceiveType, ClientPacket

LEMMA OutboundSame ==
  ASSUME OutboundType, UNCHANGED <<outbound, outs>>
  PROVE  OutboundType'
BY DEF OutboundType, outbound, direct

LEMMA RequestSame ==
  ASSUME RequestType, UNCHANGED requests
  PROVE  RequestType'
BY DEF RequestType, requests

LEMMA BrokerSame ==
  ASSUME BrokerType, UNCHANGED <<broker, outs>>
  PROVE  BrokerType'
BY DEF BrokerType, broker

\* A packet is taken off toClient, and at most one message is given on.
LEMMA TakeType ==
  ASSUME ReceiveType, ins \in Nat, ins' = ins, NEW type, Take(type),
         inboundMsgs' \in [MsgId -> 0 .. ins],
         received' = received \/ \E m \in 1 .. ins : received' = Append(received, m)
  PROVE  ReceiveType'
<1>1. toClient # <<>> /\ toClient \in Seq(ClientPacket)
  BY DEF Take, ReceiveType
<1>2. toClient' \in Seq(ClientPacket) /\ ready' = FALSE
  BY <1>1, HeadTail DEF Take
<1>3. received' \in Seq(1 .. ins)
  BY AppendType DEF ReceiveType
<1>4. ClientPacket' = ClientPacket
  BY DEF ClientPacket
<1> QED BY <1>2, <1>3, <1>4 DEF ReceiveType

LEMMA TakeHead ==
  ASSUME ReceiveType, ins \in Nat, NEW type, Take(type)
  PROVE  /\ Head(toClient) \in ClientPacket /\ Head(toClient).type = type
         /\ type # "PUBLISH" \/ Head(toClient).qos # 0 => Head(toClient).id \in MsgId
         /\ type = "PUBLISH" => Head(toClient).msg \in 1 .. ins
<1>1. Head(toClient) \in ClientPacket /\ Head(toClient).type = type
  BY HeadTail DEF Take, ReceiveType
<1> QED BY <1>1, PacketFacts DEF ClientPacket

LEMMA CompleteType ==
  ASSUME OutboundType, outs \in Nat, NEW id \in MsgId, Complete(id)
  PROVE  responses' \in [MsgId -> 0 .. outs] /\ completed' \in Seq(1 .. outs)
<1>1. responses[id] \in 0 .. outs
  BY DEF OutboundType
<1>2. responses' \in [MsgId -> 0 .. outs]
  <2>1. 0 \in 0 .. outs
    OBVIOUS
  <2> QED BY <2>1 DEF Complete, OutboundType
<1>3. completed' \in Seq(1 .. outs)
  <2>1. CASE responses[id] = 0
    BY <2>1 DEF Complete, OutboundType
  <2>2. CASE responses[id] # 0
    <3>1. responses[id] \in 1 .. outs
      BY <1>1, <2>2
    <3> QED BY <2>2, <3>1, AppendType DEF Complete, OutboundType
  <2> QED BY <2>1, <2>2
<1> QED BY <1>2, <1>3

LEMMA HandlePublishesType ==
  ASSUME TypeOK, HandlePublishes
  PROVE  TypeOK'
<1>0. /\ SocketType /\ ReceiveType /\ OutboundType /\ RequestType /\ BrokerType
      /\ losses \in 0 .. MaxLosses
      /\ ins \in Nat
  BY TypeParts, Bounds DEF BrokerType
<1> DEFINE p == Head(toClient)
<1>1. /\ Take("PUBLISH") /\ UNCHANGED <<outbound, requests, broker, losses>>
      /\ outs' = outs /\ ins' = ins
  BY DEF HandlePublishes, requests, broker
<1>2. /\ p.msg \in 1 .. ins /\ (p.qos # 0 => p.id \in MsgId)
  BY <1>0, <1>1, TakeHead
<1>3. OutboundType' /\ RequestType' /\ BrokerType' /\ losses' \in 0 .. MaxLosses
  BY <1>0, <1>1, OutboundSame, RequestSame, BrokerSame
<1>4. inboundMsgs \in [MsgId -> 0 .. ins] /\ p.msg \in 0 .. ins
  BY <1>0, <1>2 DEF ReceiveType
<1> HIDE DEF p
<1>5. \/ UNCHANGED socket
      \/ p.qos # 0 /\ (Send(Ack("PUBACK", p.id)) \/ Send(Ack("PUBREC", p.id)))
  BY DEF HandlePublishes, p
<1>6. received' = received \/ received' = Append(received, p.msg)
  BY DEF HandlePublishes, p
<1>7. inboundMsgs' = inboundMsgs \/ inboundMsgs' = [inboundMsgs EXCEPT ![p.id] = p.msg]
  BY DEF HandlePublishes, p
<1>8. SocketType'
  BY <1>0, <1>1, <1>2, <1>5, SocketSame, SendType, AckTypes DEF AckType
<1>9. inboundMsgs' \in [MsgId -> 0 .. ins]
  BY <1>4, <1>7
<1>10. ReceiveType'
  BY <1>0, <1>1, <1>2, <1>6, <1>9, TakeType
<1> QED BY <1>3, <1>8, <1>10, TypePartsNext

LEMMA HandleAcksType ==
  ASSUME TypeOK, HandlePubrels \/ HandlePubacks \/ HandlePubrecs \/ HandlePubcomps
  PROVE  TypeOK'
<1>0. /\ SocketType /\ ReceiveType /\ OutboundType /\ RequestType /\ BrokerType
      /\ losses \in 0 .. MaxLosses
      /\ ins \in Nat /\ outs \in Nat
  BY TypeParts, Bounds DEF BrokerType, RequestType
<1>1. PICK type \in AckType : Take(type) /\ type # "PUBLISH"
  BY DEF HandlePubrels, HandlePubacks, HandlePubrecs, HandlePubcomps, AckType
<1> DEFINE id == Head(toClient).id
<1>2. id \in MsgId
  BY <1>0, <1>1, TakeHead
<1> HIDE DEF id
<1>3. /\ UNCHANGED <<requests, broker, losses>> /\ outs' = outs /\ ins' = ins
  BY DEF HandlePubrels, HandlePubacks, HandlePubrecs, HandlePubcomps, requests, broker
<1>4. RequestType' /\ BrokerType' /\ losses' \in 0 .. MaxLosses
  BY <1>0, <1>3, RequestSame, BrokerSame
<1>5. UNCHANGED socket \/ Send(Ack("PUBREL", id)) \/ Send(Ack("PUBCOMP", id))
  BY DEF HandlePubrels, HandlePubacks, HandlePubrecs, HandlePubcomps, id
<1>6. SocketType'
  BY <1>0, <1>2, <1>3, <1>5, SocketSame, SendType, AckTypes DEF AckType
<1>7. CASE HandlePubrels
  <2>1. /\ \/ UNCHANGED <<received, inboundMsgs>>
           \/ /\ inboundMsgs[id] # 0 /\ received' = Append(received, inboundMsgs[id])
              /\ inboundMsgs' = [inboundMsgs EXCEPT ![id] = 0]
        /\ UNCHANGED outbound
    BY <1>7 DEF HandlePubrels, id
  <2>2. inboundMsgs \in [MsgId -> 0 .. ins] /\ inboundMsgs[id] \in 0 .. ins /\ 0 \in 0 .. ins
    BY <1>0, <1>2 DEF ReceiveType
  <2>3. /\ inboundMsgs' \in [MsgId -> 0 .. ins]
        /\ received' = received \/ \E m \in 1 .. ins : received' = Append(received, m)
    BY <2>1, <2>2
  <2>4. ReceiveType'
    BY <1>0, <1>1, <1>3, <2>3, TakeType
  <2> QED BY <1>0, <1>3, <1>4, <1>6, <2>1, <2>4, OutboundSame, TypePartsNext
<1>8. CASE HandlePubacks \/ HandlePubrecs \/ HandlePubcomps
  <2>1. UNCHANGED <<inboundMsgs, received>>
    BY <1>8 DEF HandlePubacks, HandlePubrecs, HandlePubcomps
  <2>2. inboundMsgs' \in [MsgId -> 0 .. ins]
    BY <1>0, <2>1 DEF ReceiveType
  <2>3. ReceiveType'
    BY <1>0, <1>1, <1>3, <2>1, <2>2, TakeType
  <2>4. PICK e \in Exchange(outs) : outboundMsgs' = [outboundMsgs EXCEPT ![id] = e]
    <3>1. outboundMsgs[id] \in Exchange(outs)
      BY <1>0, <1>2 DEF OutboundType
    <3>2. Free \in Exchange(outs)
      BY <1>0 DEF Free, Exchange
    <3>3. [outboundMsgs[id] EXCEPT !.next = "PUBCOMP"] \in Exchange(outs)
      BY <3>1 DEF Exchange, AckType
    <3>4. \E e \in {outboundMsgs[id], Free, [outboundMsgs[id] EXCEPT !.next = "PUBCOMP"]} :
            outboundMsgs' = [outboundMsgs EXCEPT ![id] = e]
      BY <1>8 DEF HandlePubacks, HandlePubrecs, HandlePubcomps, id
    <3> QED BY <3>1, <3>2, <3>3, <3>4
  <2>5. outboundMsgs' \in [MsgId -> Exchange(outs)]
    BY <1>0, <2>4 DEF OutboundType
  <2>6. Complete(id) \/ UNCHANGED <<responses, completed>>
    BY <1>8 DEF HandlePubacks, HandlePubrecs, HandlePubcomps, id
  <2>7. responses' \in [MsgId -> 0 .. outs] /\ completed' \in Seq(1 .. outs)
    BY <1>0, <1>2, <2>6, CompleteType DEF OutboundType
  <2>8. OutboundType'
    <3>1. UNCHANGED direct
      BY <1>8 DEF HandlePubacks, HandlePubrecs, HandlePubcomps
    <3> QED BY <1>0, <1>3, <2>5, <2>7, <3>1 DEF OutboundType, direct
  <2> QED BY <1>4, <1>6, <2>3, <2>8, TypePartsNext
<1> QED BY <1>7, <1>8

LEMMA WriteAvailableType ==
  ASSUME TypeOK, WriteAvailable
  PROVE  TypeOK'
<1>0. /\ SocketType /\ ReceiveType /\ OutboundType /\ RequestType /\ BrokerType
      /\ losses \in 0 .. MaxLosses
  BY TypeParts
<1>1. /\ UNCHANGED <<toClient, ready, inboundMsgs, received, outboundMsgs, responses, completed,
                     unnumbered, pendingWrite, requests, broker, losses>>
      /\ outs' = outs /\ ins' = ins /\ outboundQueue' = <<>> /\ ~ready /\ finished' = TRUE
  BY DEF WriteAvailable, requests, broker
<1>2. PICK k \in 0 .. Len(outboundQueue) :
        /\ toBroker' = toBroker \o SubSeq(outboundQueue, 1, k)
        /\ dropped' = dropped \cup {outboundQueue[j] : j \in k + 1 .. Len(outboundQueue)}
        /\ \/ Written(FALSE)
           \/ Written(TRUE)
  BY DEF WriteAvailable
<1>3. outboundQueue \in Seq(AckPacket) /\ toBroker \in Seq(BrokerPacket) /\ toBroker # <<>>
  BY <1>0 DEF SocketType, WriteAvailable
<1>4. SubSeq(outboundQueue, 1, k) \in Seq(BrokerPacket)
  <2>1. SubSeq(outboundQueue, 1, k) \in Seq(AckPacket)
    BY <1>3
  <2> QED BY <2>1, SeqSubset DEF BrokerPacket
<1>5. toBroker' \in Seq(BrokerPacket) /\ toBroker' # <<>>
  <2>1. toBroker' \in Seq(BrokerPacket)
    BY <1>2, <1>3, <1>4, ConcatType
  <2>2. Len(toBroker') = Len(toBroker) + Len(SubSeq(outboundQueue, 1, k))
    BY <1>2, <1>3, <1>4
  <2>3. Len(toBroker) > 0 /\ Len(SubSeq(outboundQueue, 1, k)) \in Nat /\ Len(toBroker) \in Nat
    BY <1>3, <1>4
  <2>4. Len(toBroker') # 0 /\ Len(<<>>) = 0
    BY <2>2, <2>3
  <2> QED BY <2>1, <2>4
<1>6. dropped' \subseteq AckPacket
  BY <1>0, <1>2, <1>3 DEF SocketType
<1>7. pending' \in BOOLEAN /\ partials' \in 0 .. MaxPartial
  <2>1. partials \in 0 .. MaxPartial
    BY <1>0 DEF SocketType
  <2>2. CASE Written(FALSE)
    BY <2>1, <2>2 DEF Written
  <2>3. CASE Written(TRUE)
    BY <2>1, <2>3, Bounds DEF Written
  <2> QED BY <1>2, <2>2, <2>3
<1>8. <<>> \in Seq(AckPacket)
  OBVIOUS
<1>9. SocketType'
  <2>1. BrokerPacket' = BrokerPacket
    BY <1>1 DEF BrokerPacket
  <2> QED BY <1>1, <1>5, <1>6, <1>7, <1>8, <2>1 DEF SocketType
<1>10. OutboundType'
  BY <1>0, <1>1 DEF OutboundType
<1> QED BY <1>0, <1>1, <1>9, <1>10, ReceiveSame, RequestSame, BrokerSame, TypePartsNext

LEMMA WriteCompleteType ==
  ASSUME TypeOK, WriteComplete
  PROVE  TypeOK'
<1>0. /\ SocketType /\ ReceiveType /\ OutboundType /\ RequestType /\ BrokerType
      /\ losses \in 0 .. MaxLosses /\ outs \in Nat
  BY TypeParts, Bounds DEF RequestType
<1>1. /\ UNCHANGED <<toClient, ready, socket, inboundMsgs, received, outboundMsgs, responses,
                     requests, broker, losses>>
      /\ outs' = outs /\ ins' = ins /\ finished' = FALSE /\ pendingWrite' = 0
      /\ unnumbered' = unnumbered \ {pendingWrite}
      /\ completed' = IF pendingWrite = 0 THEN completed ELSE Append(completed, pendingWrite)
  BY DEF WriteComplete, requests, broker
<1>2. completed' \in Seq(1 .. outs)
  <2>1. completed \in Seq(1 .. outs) /\ pendingWrite \in 0 .. outs
    BY <1>0 DEF OutboundType
  <2>2. pendingWrite # 0 => pendingWrite \in 1 .. outs
    BY <1>0, <2>1
  <2> QED BY <1>1, <2>1, <2>2, AppendType
<1>3. OutboundType'
  <2>1. unnumbered' \subseteq 1 .. outs
    <3>1. unnumbered \subseteq 1 .. outs
      BY <1>0 DEF OutboundType
    <3>2. unnumbered \ {pendingWrite} \subseteq unnumbered
      OBVIOUS
    <3>3. unnumbered' \subseteq unnumbered
      BY <1>1, <3>2
    <3> QED BY <3>1, <3>3
  <2>2. 0 \in 0 .. outs
    BY <1>0
  <2> QED BY <1>0, <1>1, <1>2, <2>1, <2>2 DEF OutboundType
<1> QED BY <1>0, <1>1, <1>3, SocketSame, ReceiveSame, RequestSame, BrokerSame, TypePartsNext

\* An id that assignMsgId tries.
LEMMA TriedType ==
  ASSUME RequestType, NEW k \in 1 .. MaxMsgId
  PROVE  Tried(k) \in MsgId
<1>1. msgID + k - 1 \in Nat /\ MaxMsgId \in Nat /\ MaxMsgId >= 1
  BY Bounds DEF RequestType
<1>2. (msgID + k - 1) % MaxMsgId \in 0 .. MaxMsgId - 1
  BY <1>1
<1> QED BY <1>1, <1>2 DEF Tried, MsgId


LEMMA LeastNat ==
  ASSUME NEW S, S \subseteq Nat, S # {}
  PROVE  \E k \in S : \A j \in S : k <= j
<1> DEFINE R == OpToRel(<, Nat)
<1>1. \E k \in S : \A j \in S : ~(<<j, k>> \in R)
  <2> HIDE DEF R
  <2>1. IsWellFoundedOn(R, Nat)
    BY NatLessThanWellFounded DEF R
  <2> QED BY <2>1, WFMin
<1>2. ASSUME NEW j \in Nat, NEW k \in Nat, ~(<<j, k>> \in R) PROVE k <= j
  BY <1>2 DEF OpToRel
<1> HIDE DEF R
<1> QED BY <1>1, <1>2

\* The id that assignMsgId returns is not in use.
LEMMA UsableFacts ==
  ASSUME RequestType, Usable # {}
  PROVE  LET id == Tried(CHOOSE k \in Usable : \A j \in Usable : k <= j)
         IN  id \in MsgId /\ ~InUse(id)
<1>1. Usable \subseteq Nat /\ Usable \subseteq 1 .. MaxMsgId
  BY Bounds DEF Usable
<1>2. \E k \in Usable : \A j \in Usable : k <= j
  BY <1>1, LeastNat
<1> DEFINE least == CHOOSE k \in Usable : \A j \in Usable : k <= j
<1>3. least \in Usable
  BY <1>2
<1> HIDE DEF least
<1>4. Tried(least) \in MsgId
  BY <1>1, <1>3, TriedType
<1>5. ~InUse(Tried(least))
  BY <1>3 DEF Usable
<1> QED BY <1>4, <1>5 DEF least

\* What is about publications of ours remains so when there is one more.
LEMMA Growth ==
  ASSUME NEW n \in Nat
  PROVE  /\ 0 .. n \subseteq 0 .. n + 1 /\ 1 .. n \subseteq 1 .. n + 1 /\ n + 1 \in 1 .. n + 1
         /\ Numbered(n) \subseteq Numbered(n + 1) /\ Publication(n) \subseteq Publication(n + 1)
         /\ Exchange(n) \subseteq Exchange(n + 1)
BY DEF Numbered, Publication, Exchange

LEMMA FunctionSubset ==
  ASSUME NEW S, NEW A, NEW B, A \subseteq B, NEW f \in [S -> A]
  PROVE  f \in [S -> B]
OBVIOUS

\* The packet that MQTTAsync_send queues.
LEMMA SendMessagePacket ==
  ASSUME RequestType, NEW qos \in Qos, SendMessage(qos)
  PROVE  \E id \in 0 .. MaxMsgId :
           /\ commands' = Append(commands, Publish(id, outs + 1, qos))
           /\ IF qos = 0 THEN id = 0 /\ msgID' = msgID
                         ELSE id \in MsgId /\ ~InUse(id) /\ msgID' = id
<1>1. 0 \in 0 .. MaxMsgId /\ MsgId \subseteq 0 .. MaxMsgId /\ qos \in 0 .. 2
  BY Bounds DEF MsgId
<1>2. CASE qos = 0
  BY <1>1, <1>2 DEF SendMessage
<1>3. CASE qos # 0
  <2>1. Usable # {}
    BY <1>3 DEF SendMessage
  <2>2. PICK id \in MsgId : /\ commands' = Append(commands, Publish(id, outs + 1, qos))
                            /\ msgID' = id /\ ~InUse(id)
    BY <1>3, <2>1, UsableFacts DEF SendMessage
  <2> QED BY <1>1, <1>3, <2>2
<1> QED BY <1>2, <1>3

LEMMA SendMessageType ==
  ASSUME TypeOK, NEW qos \in Qos, SendMessage(qos)
  PROVE  TypeOK'
<1>0. /\ SocketType /\ ReceiveType /\ OutboundType /\ RequestType /\ BrokerType
      /\ losses \in 0 .. MaxLosses /\ outs \in Nat
  BY TypeParts, Bounds DEF RequestType
<1>1. /\ UNCHANGED <<toClient, ready, socket, inboundMsgs, received, outbound, broker, losses>>
      /\ outs' = outs + 1 /\ ins' = ins /\ outs < MaxOut
      /\ askedQos' = [m \in 1 .. outs + 1 |-> IF m = outs + 1 THEN qos ELSE askedQos[m]]
  BY DEF SendMessage, broker
<1>2. PICK id \in 0 .. MaxMsgId :
        /\ commands' = Append(commands, Publish(id, outs + 1, qos))
        /\ IF qos = 0 THEN id = 0 /\ msgID' = msgID
                      ELSE id \in MsgId /\ ~InUse(id) /\ msgID' = id
  BY <1>0, SendMessagePacket
<1>3. RequestType'
  <2>1. Publish(id, outs + 1, qos) \in Publication(outs + 1)
    <3>1. outs + 1 \in 1 .. outs + 1 /\ (qos # 0 => qos \in {1, 2})
      BY <1>0, Bounds
    <3> QED BY <1>2, <3>1 DEF Publish, Publication, Numbered
  <2>2. commands \in Seq(Publication(outs + 1))
    <3>1. commands \in Seq(Publication(outs))
      BY <1>0 DEF RequestType
    <3> QED BY <1>0, <3>1, Growth, SeqSubset
  <2>3. commands' \in Seq(Publication(outs'))
    BY <1>1, <1>2, <2>1, <2>2, AppendType
  <2>4. outs' \in 0 .. MaxOut /\ msgID' \in 0 .. MaxMsgId
    BY <1>0, <1>1, <1>2, Bounds DEF MsgId, RequestType
  <2>5. askedQos' \in [1 .. outs' -> Qos]
    <3>1. \A m \in 1 .. outs + 1 : m # outs + 1 => m \in 1 .. outs
      BY <1>0
    <3>2. askedQos \in [1 .. outs -> Qos]
      BY <1>0 DEF RequestType
    <3> QED BY <1>1, <3>1, <3>2
  <2> QED BY <2>3, <2>4, <2>5 DEF RequestType
<1>4. SocketType'
  <2>1. BrokerPacket \subseteq AckPacket \cup Publication(outs + 1)
    BY <1>0, Growth DEF BrokerPacket
  <2>2. toBroker \in Seq(AckPacket \cup Publication(outs + 1))
    BY <1>0, <2>1, SeqSubset DEF SocketType
  <2> QED BY <1>0, <1>1, <2>2 DEF SocketType, socket, BrokerPacket
<1>5. OutboundType'
  <2>1. /\ outboundMsgs \in [MsgId -> Exchange(outs)] /\ responses \in [MsgId -> 0 .. outs]
        /\ completed \in Seq(1 .. outs)
        /\ unnumbered \subseteq 1 .. outs /\ pendingWrite \in 0 .. outs /\ finished \in BOOLEAN
    BY <1>0 DEF OutboundType
  <2>4. unnumbered \subseteq 1 .. outs + 1 /\ pendingWrite \in 0 .. outs + 1
    BY <1>0, <2>1, Growth
  <2>2. outboundMsgs \in [MsgId -> Exchange(outs + 1)] /\ responses \in [MsgId -> 0 .. outs + 1]
    BY <1>0, <2>1, Growth, FunctionSubset
  <2>3. completed \in Seq(1 .. outs + 1)
    BY <1>0, <2>1, Growth, SeqSubset
  <2> QED BY <1>1, <2>1, <2>2, <2>3, <2>4 DEF OutboundType, outbound, direct
<1>6. BrokerType'
  <2>1. stored \in [MsgId -> 0 .. outs] /\ published \in Seq(1 .. outs)
    BY <1>0 DEF BrokerType
  <2>2. stored \in [MsgId -> 0 .. outs + 1]
    BY <1>0, <2>1, Growth, FunctionSubset
  <2>3. published \in Seq(1 .. outs + 1)
    BY <1>0, <2>1, Growth, SeqSubset
  <2> QED BY <1>0, <1>1, <2>2, <2>3 DEF BrokerType, broker
<1>7. ReceiveType'
  BY <1>0, <1>1, ReceiveSame DEF outbound, direct
<1> QED BY <1>0, <1>1, <1>3, <1>4, <1>5, <1>6, <1>7, TypePartsNext

\* The first command, and what is left of them.
LEMMA TakeCommandType ==
  ASSUME TypeOK, TakeCommand, outs' = outs
  PROVE  /\ commands # <<>> /\ ~pending /\ Write(Head(commands)) /\ commands' = Tail(commands)
         /\ Head(commands) \in Publication(outs) /\ commands' \in Seq(Publication(outs))
         /\ Head(commands).msg \in 1 .. outs /\ Head(commands).qos \in 0 .. 2
         /\ IF Head(commands).qos = 0 THEN Head(commands).id = 0 ELSE Head(commands).id \in MsgId
         /\ SocketType'
<1>0. SocketType /\ RequestType /\ outs \in Nat
  BY TypeParts, Bounds DEF RequestType
<1>1. commands # <<>> /\ ~pending /\ Write(Head(commands)) /\ commands' = Tail(commands)
  BY DEF TakeCommand
<1>2. Head(commands) \in Publication(outs) /\ commands' \in Seq(Publication(outs))
  BY <1>0, <1>1, HeadTail DEF RequestType
<1>3. /\ Head(commands).type = "PUBLISH" /\ Head(commands).msg \in 1 .. outs
      /\ Head(commands).qos \in 0 .. 2
      /\ IF Head(commands).qos = 0 THEN Head(commands).id = 0 ELSE Head(commands).id \in MsgId
  <2> DEFINE p == Head(commands)
  <2>1. CASE p \in Numbered(outs)
    BY <2>1 DEF Numbered
  <2>2. CASE p \notin Numbered(outs)
    BY <1>2, <2>2 DEF Publication
  <2> QED BY <2>1, <2>2
<1>4. SocketType'
  <2>1. Head(commands) \in BrokerPacket /\ outboundQueue = <<>>
    BY <1>0, <1>1, <1>2 DEF BrokerPacket, SocketType
  <2> QED BY <1>0, <1>1, <2>1, WriteType
<1> QED BY <1>1, <1>2, <1>3, <1>4

LEMMA StartPublishType ==
  ASSUME TypeOK, StartPublish
  PROVE  TypeOK'
<1>0. /\ ReceiveType /\ OutboundType /\ RequestType /\ BrokerType
      /\ losses \in 0 .. MaxLosses /\ outs \in Nat
  BY TypeParts, Bounds DEF RequestType
<1> DEFINE p == Head(commands)
<1>1. /\ UNCHANGED <<toClient, ready, inboundMsgs, received, completed, direct, msgID, outs,
                     askedQos, broker, losses>>
      /\ TakeCommand /\ p.qos > 0
      /\ outboundMsgs' = [outboundMsgs EXCEPT
           ![p.id] = [msg |-> p.msg, qos |-> p.qos,
                      next |-> IF p.qos = 1 THEN "PUBACK" ELSE "PUBREC"]]
      /\ responses' = [responses EXCEPT ![p.id] = p.msg]
  BY DEF StartPublish
<1>2. /\ SocketType' /\ commands' \in Seq(Publication(outs))
      /\ p.msg \in 1 .. outs /\ p.qos \in 0 .. 2
  BY <1>1, TakeCommandType
<1> HIDE DEF p
<1>5. OutboundType'
  <2>1. [msg |-> p.msg, qos |-> p.qos, next |-> IF p.qos = 1 THEN "PUBACK" ELSE "PUBREC"]
          \in Exchange(outs)
    BY <1>0, <1>2 DEF Exchange, AckType
  <2>2. outboundMsgs' \in [MsgId -> Exchange(outs)]
    BY <1>0, <1>1, <2>1 DEF OutboundType
  <2>3. p.msg \in 0 .. outs
    BY <1>2
  <2>4. responses' \in [MsgId -> 0 .. outs]
    BY <1>0, <1>1, <2>3 DEF OutboundType
  <2> QED BY <1>0, <1>1, <2>2, <2>4 DEF OutboundType, direct
<1>6. RequestType'
  BY <1>0, <1>1, <1>2 DEF RequestType
<1>7. ReceiveType'
  <2>1. ins' = ins
    BY <1>1 DEF broker
  <2> QED BY <1>0, <1>1, <2>1, ReceiveSame DEF direct
<1> QED BY <1>0, <1>1, <1>2, <1>5, <1>6, <1>7, BrokerSame, TypePartsNext

LEMMA StartPublishQoS0Type ==
  ASSUME TypeOK, StartPublishQoS0
  PROVE  TypeOK'
<1>0. /\ ReceiveType /\ OutboundType /\ RequestType /\ BrokerType
      /\ losses \in 0 .. MaxLosses /\ outs \in Nat
  BY TypeParts, Bounds DEF RequestType
<1> DEFINE p == Head(commands)
<1>1. /\ UNCHANGED <<toClient, ready, inboundMsgs, received, outboundMsgs, responses, finished,
                     msgID, outs, askedQos, broker, losses>>
      /\ TakeCommand
      /\ \/ /\ pendingWrite' = p.msg /\ unnumbered' = unnumbered \cup {p.msg}
            /\ UNCHANGED completed
         \/ completed' = Append(completed, p.msg) /\ UNCHANGED <<unnumbered, pendingWrite>>
  BY DEF StartPublishQoS0
<1>2. SocketType' /\ commands' \in Seq(Publication(outs)) /\ p.msg \in 1 .. outs
  BY <1>1, TakeCommandType
<1> HIDE DEF p
<1>3. OutboundType'
  <2>1. completed \in Seq(1 .. outs) /\ unnumbered \subseteq 1 .. outs /\ p.msg \in 0 .. outs
    BY <1>0, <1>2 DEF OutboundType
  <2>2. completed' \in Seq(1 .. outs)
    BY <1>1, <1>2, <2>1, AppendType
  <2>3. unnumbered' \subseteq 1 .. outs /\ pendingWrite' \in 0 .. outs
    BY <1>0, <1>1, <1>2, <2>1 DEF OutboundType
  <2> QED BY <1>0, <1>1, <2>2, <2>3 DEF OutboundType
<1>6. RequestType'
  BY <1>0, <1>1, <1>2 DEF RequestType
<1>7. ReceiveType'
  <2>1. ins' = ins
    BY <1>1 DEF broker
  <2> QED BY <1>0, <1>1, <2>1, ReceiveSame
<1> QED BY <1>0, <1>1, <1>2, <1>3, <1>6, <1>7, BrokerSame, TypePartsNext

LEMMA ForwardType ==
  ASSUME TypeOK, NEW qos \in Qos, Forward(qos)
  PROVE  TypeOK'
<1>0. /\ SocketType /\ ReceiveType /\ OutboundType /\ RequestType /\ BrokerType
      /\ losses \in 0 .. MaxLosses /\ ins \in Nat
  BY TypeParts, Bounds DEF BrokerType
<1>1. /\ UNCHANGED <<ready, socket, inboundMsgs, received, outbound, requests, stored,
                     published, losses>>
      /\ ins < MaxIn /\ ins' = ins + 1 /\ outs' = outs
      /\ qosOf' = [m \in 1 .. ins + 1 |-> IF m = ins + 1 THEN qos ELSE qosOf[m]]
  BY DEF Forward, requests
<1>3. PICK packet \in Publication(ins + 1) : toClient' = Append(toClient, packet)
  <2>1. CASE qos = 0
    <3>1. toClient' = Append(toClient, Publish(0, ins + 1, 0))
      BY <2>1 DEF Forward
    <3>2. Publish(0, ins + 1, 0) \in Publication(ins + 1)
      BY <1>0, Growth DEF Publish, Publication
    <3> QED BY <3>1, <3>2
  <2>2. CASE qos # 0
    <3>1. PICK id \in MsgId : toClient' = Append(toClient, Publish(id, ins + 1, qos))
      BY <2>2 DEF Forward
    <3>2. qos \in {1, 2} /\ ins + 1 \in 1 .. ins + 1
      BY <1>0, <2>2, Bounds
    <3>3. Publish(id, ins + 1, qos) \in Publication(ins + 1)
      BY <3>2 DEF Publish, Publication, Numbered
    <3> QED BY <3>1, <3>3
  <2> QED BY <2>1, <2>2
<1>4. sending' \in [MsgId -> Exchange(ins + 1)]
  <2>1. sending \in [MsgId -> Exchange(ins + 1)]
    <3>1. sending \in [MsgId -> Exchange(ins)]
      BY <1>0 DEF BrokerType
    <3> QED BY <1>0, <3>1, Growth, FunctionSubset
  <2>2. CASE qos = 0
    BY <2>1, <2>2 DEF Forward
  <2>3. CASE qos # 0
    <3> DEFINE e == [msg |-> ins + 1, qos |-> qos, next |-> IF qos = 1 THEN "PUBACK" ELSE "PUBREC"]
    <3>1. PICK id \in MsgId : sending' = [sending EXCEPT ![id] = e]
      BY <2>3 DEF Forward
    <3>2. e \in Exchange(ins + 1)
      BY <1>0, Bounds DEF Exchange, AckType
    <3> HIDE DEF e
    <3> QED BY <2>1, <3>1, <3>2
  <2> QED BY <2>2, <2>3
<1>5. BrokerType'
  <2>1. qosOf' \in [1 .. ins + 1 -> Qos]
    <3>1. \A m \in 1 .. ins + 1 : m # ins + 1 => m \in 1 .. ins
      BY <1>0
    <3>2. qosOf \in [1 .. ins -> Qos]
      BY <1>0 DEF BrokerType
    <3> QED BY <1>1, <3>1, <3>2
  <2>2. ins' \in 0 .. MaxIn
    BY <1>0, <1>1, Bounds
  <2> QED BY <1>0, <1>1, <1>4, <2>1, <2>2 DEF BrokerType
<1>6. ReceiveType'
  <2>1. ClientPacket \subseteq AckPacket \cup Publication(ins + 1)
    BY <1>0, Growth DEF ClientPacket
  <2>2. toClient \in Seq(AckPacket \cup Publication(ins + 1))
    BY <1>0, <2>1, SeqSubset DEF ReceiveType
  <2>3. packet \in AckPacket \cup Publication(ins + 1)
    OBVIOUS
  <2>4. toClient' \in Seq(AckPacket \cup Publication(ins + 1)) /\ toClient' # <<>>
    BY <1>3, <2>2, <2>3, AppendType
  <2>5. ClientPacket' = AckPacket \cup Publication(ins + 1)
    BY <1>1 DEF ClientPacket
  <2>6. inboundMsgs \in [MsgId -> 0 .. ins + 1]
    <3>1. inboundMsgs \in [MsgId -> 0 .. ins]
      BY <1>0 DEF ReceiveType
    <3> QED BY <1>0, <3>1, Growth, FunctionSubset
  <2>7. received \in Seq(1 .. ins + 1)
    <3>1. received \in Seq(1 .. ins)
      BY <1>0 DEF ReceiveType
    <3> QED BY <1>0, <3>1, Growth, SeqSubset
  <2> QED BY <1>0, <1>1, <2>4, <2>5, <2>6, <2>7 DEF ReceiveType, outbound, direct
<1> QED BY <1>0, <1>1, <1>5, <1>6, SocketSame, OutboundSame, RequestSame, TypePartsNext

LEMMA BrokerReadsType ==
  ASSUME TypeOK, BrokerReads
  PROVE  TypeOK'
<1>0. /\ SocketType /\ ReceiveType /\ OutboundType /\ RequestType /\ BrokerType
      /\ losses \in 0 .. MaxLosses /\ ins \in Nat /\ outs \in Nat
  BY TypeParts, Bounds DEF BrokerType, RequestType
<1> DEFINE p == Head(toBroker)
<1>1. /\ UNCHANGED <<ready, pending, outboundQueue, dropped, partials, inboundMsgs, received,
                     outbound, requests, ins, qosOf, losses>>
      /\ outs' = outs /\ ins' = ins /\ toBroker' = Tail(toBroker)
      /\ Len(toBroker) > (IF pending THEN 1 ELSE 0)
  BY DEF BrokerReads, requests
<1>2. toBroker \in Seq(BrokerPacket) /\ toBroker # <<>>
  BY <1>0, <1>1 DEF SocketType
<1>3. p \in BrokerPacket /\ toBroker' \in Seq(BrokerPacket)
  BY <1>1, <1>2, HeadTail
<1>4. /\ p.type # "PUBLISH" \/ p.qos # 0 => p.id \in MsgId
      /\ p.type = "PUBLISH" => p.msg \in 1 .. outs
  BY <1>0, <1>3, PacketFacts DEF BrokerPacket
<1>5. SocketType'
  <2>1. pending => toBroker' # <<>>
    <3>1. pending => Len(Tail(toBroker)) # 0
      BY <1>1, <1>2
    <3> QED BY <1>1, <3>1
  <2> QED BY <1>0, <1>1, <1>3, <2>1 DEF SocketType, BrokerPacket
<1>6. \/ /\ p.type = "PUBLISH" /\ published' = Append(published, p.msg)
         /\ UNCHANGED <<toClient, sending, stored>>
      \/ /\ p.type # "PUBLISH" \/ p.qos # 0
         /\ toClient' = toClient \/ \E type \in AckType : toClient' = Append(toClient, Ack(type, p.id))
         /\ published' = published \/ (p.type = "PUBLISH" /\ published' = Append(published, p.msg))
              \/ (stored[p.id] # 0 /\ published' = Append(published, stored[p.id]))
         /\ stored' = stored \/ stored' = [stored EXCEPT ![p.id] = 0]
              \/ (p.type = "PUBLISH" /\ stored' = [stored EXCEPT ![p.id] = p.msg])
         /\ \E e \in {sending[p.id], Free, [sending[p.id] EXCEPT !.next = "PUBCOMP"]} :
              sending' = sending \/ sending' = [sending EXCEPT ![p.id] = e]
  BY DEF BrokerReads, AckType
<1> HIDE DEF p
<1>9. /\ stored \in [MsgId -> 0 .. outs] /\ published \in Seq(1 .. outs)
      /\ toClient \in Seq(ClientPacket) /\ sending \in [MsgId -> Exchange(ins)]
  BY <1>0 DEF BrokerType, ReceiveType
<1>10. CASE p.type = "PUBLISH" /\ published' = Append(published, p.msg)
              /\ UNCHANGED <<toClient, sending, stored>>
  <2>1. published' \in Seq(1 .. outs)
    BY <1>4, <1>9, <1>10, AppendType
  <2>2. BrokerType'
    BY <1>0, <1>1, <1>10, <2>1 DEF BrokerType
  <2>3. ReceiveType'
    BY <1>0, <1>1, <1>10, ReceiveSame DEF outbound, direct
  <2> QED BY <1>0, <1>1, <1>5, <2>2, <2>3, OutboundSame, RequestSame, TypePartsNext
<1>11. CASE p.type # "PUBLISH" \/ p.qos # 0
  <2>0. p.id \in MsgId
    BY <1>4, <1>11
  <2>7. ReceiveType'
    <3>1. toClient' \in Seq(ClientPacket) /\ (toClient # <<>> => toClient' # <<>>)
      <4>1. ASSUME NEW type \in AckType PROVE Ack(type, p.id) \in ClientPacket
        BY <2>0, AckTypes DEF ClientPacket
      <4>2. \/ toClient' = toClient
            \/ \E type \in AckType : toClient' = Append(toClient, Ack(type, p.id))
        BY <1>6
      <4> QED BY <1>9, <4>1, <4>2, AppendType
    <3> QED BY <1>0, <1>1, <3>1 DEF ReceiveType, ClientPacket, outbound, direct
  <2>8. BrokerType'
    <3>2. published' \in Seq(1 .. outs)
      <4>1. stored[p.id] # 0 => stored[p.id] \in 1 .. outs
        BY <1>9, <2>0
      <4>2. published' = published \/ \E m \in 1 .. outs : published' = Append(published, m)
        BY <1>4, <1>6, <4>1, Zenon
      <4> QED BY <1>9, <4>2, AppendType
    <3>3. stored' \in [MsgId -> 0 .. outs]
      <4>1. 0 \in 0 .. outs /\ (p.type = "PUBLISH" => p.msg \in 0 .. outs)
        BY <1>0, <1>4
      <4> QED BY <1>6, <1>9, <4>1
    <3>4. sending' \in [MsgId -> Exchange(ins)]
      <4>1. sending[p.id] \in Exchange(ins)
        BY <1>9, <2>0
      <4>2. Free \in Exchange(ins)
        BY <1>0 DEF Free, Exchange
      <4>3. [sending[p.id] EXCEPT !.next = "PUBCOMP"] \in Exchange(ins)
        BY <4>1 DEF Exchange, AckType
      <4> QED BY <1>6, <1>9, <4>1, <4>2, <4>3
    <3> QED BY <1>0, <1>1, <3>2, <3>3, <3>4 DEF BrokerType
  <2> QED BY <1>0, <1>1, <1>5, <2>7, <2>8, OutboundSame, RequestSame, TypePartsNext
<1> QED BY <1>6, <1>10, <1>11

LEMMA LoseType ==
  ASSUME TypeOK, Lose
  PROVE  TypeOK'
<1>0. /\ SocketType /\ ReceiveType /\ OutboundType /\ RequestType /\ BrokerType
      /\ losses \in 0 .. MaxLosses /\ ins \in Nat /\ outs \in Nat
  BY TypeParts, Bounds DEF BrokerType, RequestType
<1>1. /\ 0 \in 0 .. ins /\ 0 \in 0 .. outs /\ Free \in Exchange(ins) /\ Free \in Exchange(outs)
      /\ \A S : <<>> \in Seq(S)
  BY <1>0 DEF Free, Exchange
<1>2. SocketType'
  BY <1>0, <1>1 DEF Lose, SocketType
<1>3. ReceiveType'
  BY <1>0, <1>1 DEF Lose, ReceiveType
<1>4. OutboundType'
  BY <1>0, <1>1 DEF Lose, OutboundType
<1>5. RequestType'
  BY <1>0, <1>1, Bounds DEF Lose, RequestType
<1>6. BrokerType'
  BY <1>0, <1>1 DEF Lose, BrokerType
<1>7. losses' \in 0 .. MaxLosses
  BY <1>0, Bounds DEF Lose
<1> QED BY <1>2, <1>3, <1>4, <1>5, <1>6, <1>7, TypePartsNext

LEMMA InitType ==
  ASSUME Init
  PROVE  TypeOK
<1>1. /\ 0 \in 0 .. 0 /\ Free \in Exchange(0) /\ \A S : <<>> \in Seq(S)
  BY DEF Free, Exchange
<1>2. qosOf \in [1 .. ins -> Qos]
  BY DEF Init
<1>3. SocketType
  <2>1. toBroker = <<>> /\ pending = FALSE /\ outboundQueue = <<>> /\ dropped = {} /\ partials = 0
    BY DEF Init
  <2>2. 0 \in 0 .. MaxPartial
    BY Bounds
  <2> QED BY <1>1, <2>1, <2>2, Zenon DEF SocketType
<1>4. ReceiveType
  BY <1>1 DEF Init, ReceiveType
<1>5. OutboundType
  BY <1>1 DEF Init, OutboundType
<1>6. RequestType
  <2>1. askedQos \in [1 .. outs -> Qos]
    BY DEF Init
  <2> QED BY <1>1, <2>1, Bounds DEF Init, RequestType
<1>7. BrokerType
  BY <1>1, <1>2, Bounds DEF Init, BrokerType
<1>8. losses \in 0 .. MaxLosses
  BY Bounds DEF Init
<1> QED BY <1>3, <1>4, <1>5, <1>6, <1>7, <1>8, TypeParts

LEMMA TypeStep ==
  ASSUME TypeOK, [Next]_vars
  PROVE  TypeOK'
<1>0. /\ SocketType /\ ReceiveType /\ OutboundType /\ RequestType /\ BrokerType
      /\ losses \in 0 .. MaxLosses
  BY TypeParts
<1>1. CASE ReadySocket
  <2>1. ReceiveType'
    BY <1>0, <1>1 DEF ReadySocket, ReceiveType, ClientPacket, broker, outbound, direct
  <2>2. outs' = outs
    BY <1>1 DEF ReadySocket, requests
  <2> QED BY <1>0, <1>1, <2>1, <2>2, SocketSame, OutboundSame, RequestSame, BrokerSame,
             TypePartsNext DEF ReadySocket
<1>2. CASE Receive
  BY <1>2, HandlePublishesType, HandleAcksType DEF Receive
<1>3. CASE WriteAvailable \/ WriteComplete \/ StartPublish \/ StartPublishQoS0 \/ BrokerReads \/ Lose
  BY <1>3, WriteAvailableType, WriteCompleteType, StartPublishType, StartPublishQoS0Type,
     BrokerReadsType, LoseType
<1>4. ASSUME NEW qos \in Qos, Forward(qos) \/ SendMessage(qos) PROVE TypeOK'
  BY <1>4, ForwardType, SendMessageType
<1>5. CASE UNCHANGED vars
  BY <1>5 DEF vars, socket, outbound, direct, requests, broker, TypeOK
<1> QED BY <1>1, <1>2, <1>3, <1>4, <1>5 DEF Next

\* Every variable keeps its type; packets that are to be acknowledged name an
\* id of their own, also those that MQTTAsync_assignMsgId gives out.
THEOREM TypeCorrect == Spec => []TypeOK
BY InitType, TypeStep, PTL DEF Spec

-----------------------------------------------------------------------------
(* Counting packets *)

\* How many packets of a type and an id are in a sequence.
Count(type, id, seq) == Cardinality(InSeq(type, id, seq))
Matches(type, id, p) == IF p.type = type /\ p.id = id THEN 1 ELSE 0

LEMMA CountType ==
  ASSUME NEW S, NEW seq \in Seq(S), NEW type, NEW id
  PROVE  /\ IsFiniteSet(InSeq(type, id, seq)) /\ Count(type, id, seq) \in Nat
         /\ Count(type, id, <<>>) = 0
<1>1. IsFiniteSet(1 .. Len(seq))
  BY FS_Interval
<1>2. IsFiniteSet(InSeq(type, id, seq))
  BY <1>1, FS_Subset DEF InSeq
<1>3. InSeq(type, id, <<>>) = {}
  BY DEF InSeq
<1> QED BY <1>2, <1>3, FS_CardinalityType, FS_EmptySet DEF Count

LEMMA CountAppend ==
  ASSUME NEW S, NEW seq \in Seq(S), NEW p \in S, NEW type, NEW id
  PROVE  Count(type, id, Append(seq, p)) = Count(type, id, seq) + Matches(type, id, p)
<1> DEFINE n == Len(seq)
<1>1. /\ n \in Nat /\ Len(Append(seq, p)) = n + 1 /\ Append(seq, p)[n + 1] = p
      /\ \A k \in 1 .. n : Append(seq, p)[k] = seq[k]
  OBVIOUS
<1>2. 1 .. n + 1 = (1 .. n) \cup {n + 1} /\ n + 1 \notin 1 .. n
  BY <1>1
<1> HIDE DEF n
<1>3. IsFiniteSet(InSeq(type, id, seq)) /\ Count(type, id, seq) \in Nat
  BY CountType
<1>4. n + 1 \notin InSeq(type, id, seq)
  BY <1>2 DEF InSeq, n
<1>5. CASE p.type = type /\ p.id = id
  <2>1. InSeq(type, id, Append(seq, p)) = InSeq(type, id, seq) \cup {n + 1}
    BY <1>1, <1>2, <1>5 DEF InSeq, n
  <2>2. Matches(type, id, p) = 1
    BY <1>5 DEF Matches
  <2>3. Cardinality(InSeq(type, id, seq) \cup {n + 1}) = Cardinality(InSeq(type, id, seq)) + 1
    BY <1>3, <1>4, FS_AddElement
  <2>4. Count(type, id, Append(seq, p)) = Count(type, id, seq) + 1
    BY <2>1, <2>3 DEF Count
  <2> QED BY <2>2, <2>4
<1>6. CASE ~(p.type = type /\ p.id = id)
  <2>1. InSeq(type, id, Append(seq, p)) = InSeq(type, id, seq)
    BY <1>1, <1>2, <1>6 DEF InSeq, n
  <2>2. Matches(type, id, p) = 0
    BY <1>6 DEF Matches
  <2>3. Count(type, id, Append(seq, p)) = Count(type, id, seq)
    BY <2>1 DEF Count
  <2> QED BY <1>3, <2>2, <2>3
<1> QED BY <1>5, <1>6

LEMMA CountTail ==
  ASSUME NEW S, NEW seq \in Seq(S), seq # <<>>, NEW type, NEW id
  PROVE  Count(type, id, seq) = Count(type, id, Tail(seq)) + Matches(type, id, Head(seq))
<1> DEFINE n == Len(Tail(seq))
           A == InSeq(type, id, Tail(seq))
           B == InSeq(type, id, seq) \ {1}
           f == [k \in A |-> k + 1]
<1>1. /\ Tail(seq) \in Seq(S) /\ n \in Nat /\ Len(seq) = n + 1 /\ Head(seq) = seq[1]
      /\ \A k \in 1 .. n : Tail(seq)[k] = seq[k + 1]
  OBVIOUS
<1>2. IsFiniteSet(A) /\ Cardinality(A) \in Nat /\ IsFiniteSet(InSeq(type, id, seq))
  BY <1>1, CountType DEF Count
<1> HIDE DEF n
<1>3. f \in Bijection(A, B)
  <2>1. ASSUME NEW k \in A PROVE k \in 1 .. n /\ k \in Nat /\ k + 1 \in B
    BY <1>1 DEF InSeq, n
  <2>2. ASSUME NEW j \in B PROVE j - 1 \in A /\ j = (j - 1) + 1
    BY <1>1 DEF InSeq, n
  <2> HIDE DEF A, B
  <2>3. f \in [A -> B]
    BY <2>1
  <2>4. \A i, j \in A : f[i] = f[j] => i = j
    BY <2>1
  <2>5. \A j \in B : \E k \in A : f[k] = j
    <3> TAKE j \in B
    <3>1. f[j - 1] = j
      BY <2>2
    <3> QED BY <2>2, <3>1
  <2> QED BY <2>3, <2>4, <2>5 DEF Bijection, Injection, Surjection, IsInjective
<1>4. Cardinality(B) = Cardinality(A)
  BY <1>2, <1>3, FS_Bijection DEF ExistsBijection
<1>5. 1 \in InSeq(type, id, seq) <=> Head(seq).type = type /\ Head(seq).id = id
  BY <1>1 DEF InSeq
<1>6. Cardinality(B) = IF 1 \in InSeq(type, id, seq) THEN Cardinality(InSeq(type, id, seq)) - 1
                                                     ELSE Cardinality(InSeq(type, id, seq))
  BY <1>2, FS_RemoveElement
<1>7. Cardinality(InSeq(type, id, seq)) \in Nat
  BY <1>2, FS_CardinalityType
<1> HIDE DEF A, B
<1> QED BY <1>2, <1>4, <1>5, <1>6, <1>7 DEF Count, Matches, A

-----------------------------------------------------------------------------
(* One packet under way for every exchange *)

PacketType == AckType \cup {"PUBLISH"}

\* What is under way of the exchanges of an id, in each direction.
InboundCount(id) ==
  [type \in PacketType |-> IF type \in {"PUBLISH", "PUBREL"} THEN Inward(type, id)
                                                             ELSE Outward(type, id)]
OutboundCount(id) ==
  [type \in PacketType |-> IF type \in {"PUBLISH", "PUBREL"} THEN Outward(type, id)
                                                             ELSE Inward(type, id)]

\* The packet under way of an exchange e, whose receiver stores msg and has passed
\* on the message or not.
UnderWay(e, msg, had, type) ==
  \/ type = "PUBLISH" /\ msg = 0 /\ e.qos = 1 /\ e.next = "PUBACK"
  \/ type = "PUBLISH" /\ msg = 0 /\ e.qos = 2 /\ e.next = "PUBREC"
  \/ type = "PUBACK"  /\ msg = 0 /\ had /\ e.qos = 1 /\ e.next = "PUBACK"
  \/ type = "PUBREC"  /\ msg = e.msg /\ e.qos = 2 /\ e.next = "PUBREC"
  \/ type = "PUBREL"  /\ msg = e.msg /\ e.qos = 2 /\ e.next = "PUBCOMP"
  \/ type = "PUBCOMP" /\ msg = 0 /\ had /\ e.qos = 2 /\ e.next = "PUBCOMP"

Going(e, n, msg, had) ==
  \/ /\ e = Free /\ msg = 0
     /\ \A type \in PacketType : n[type] = 0
  \/ /\ e.msg # 0
     /\ \E type \in PacketType :
          /\ UnderWay(e, msg, had, type)
          /\ \A t \in PacketType : n[t] = IF t = type THEN 1 ELSE 0

Holds(seq, p) == \E k \in 1 .. Len(seq) : seq[k] = p

\* A publication under way is the one of its exchange.
Fits(seq, exchange) ==
  \A p : Holds(seq, p) /\ p.type = "PUBLISH" /\ p.id # 0 =>
    p.qos = exchange[p.id].qos /\ p.msg = exchange[p.id].msg

InboundInv ==
  /\ \A id \in MsgId :
       Going(sending[id], InboundCount(id), inboundMsgs[id], Holds(received, sending[id].msg))
  /\ Fits(toClient, sending)
OutboundInv ==
  /\ \A id \in MsgId :
       Going(outboundMsgs[id], OutboundCount(id), stored[id],
             Holds(published, outboundMsgs[id].msg))
  /\ Fits(toBroker, outboundMsgs)

-----------------------------------------------------------------------------
(* What the steps put under way and take *)

LEMMA Counts ==
  ASSUME NEW type, NEW id
  PROVE  /\ Inward(type, id) = Count(type, id, toClient)
         /\ Outward(type, id) = Count(type, id, outboundQueue) + Count(type, id, toBroker)
         /\ Inward(type, id)' = Count(type, id, toClient')
         /\ Outward(type, id)' = Count(type, id, outboundQueue') + Count(type, id, toBroker')
BY DEF Inward, Outward, Count

LEMMA Sequences ==
  ASSUME TypeOK
  PROVE  /\ toClient \in Seq(ClientPacket) /\ toBroker \in Seq(BrokerPacket)
         /\ outboundQueue \in Seq(BrokerPacket)
         /\ AckPacket \subseteq BrokerPacket
<1>1. outboundQueue \in Seq(AckPacket) /\ AckPacket \subseteq BrokerPacket
  BY DEF TypeOK, BrokerPacket
<1>2. toClient \in Seq(ClientPacket) /\ toBroker \in Seq(BrokerPacket)
  BY DEF TypeOK, ClientPacket, BrokerPacket
<1> QED BY <1>1, <1>2, SeqSubset

LEMMA CountsType ==
  ASSUME TypeOK, NEW type, NEW id
  PROVE  Inward(type, id) \in Nat /\ Outward(type, id) \in Nat
<1>1. /\ Count(type, id, toClient) \in Nat /\ Count(type, id, toBroker) \in Nat
      /\ Count(type, id, outboundQueue) \in Nat
  BY Sequences, CountType
<1> QED BY <1>1, Counts

LEMMA CountsTypeNext ==
  ASSUME TypeOK', NEW type, NEW id
  PROVE  Inward(type, id)' \in Nat /\ Outward(type, id)' \in Nat
<1>1. /\ toClient' \in Seq(ClientPacket') /\ toBroker' \in Seq(BrokerPacket')
      /\ outboundQueue' \in Seq(AckPacket)
  BY DEF TypeOK, ClientPacket, BrokerPacket
<1>2. /\ Count(type, id, toClient') \in Nat /\ Count(type, id, toBroker') \in Nat
      /\ Count(type, id, outboundQueue') \in Nat
  BY <1>1, CountType
<1> QED BY <1>2, Counts

LEMMA TakenCount ==
  ASSUME TypeOK, NEW t, Take(t), NEW type, NEW id
  PROVE  Inward(type, id) = Inward(type, id)' + Matches(type, id, Head(toClient))
<1>1. toClient # <<>> /\ toClient' = Tail(toClient)
  BY DEF Take, TypeOK
<1> QED BY <1>1, Sequences, CountTail, Counts

LEMMA AnswerCount ==
  ASSUME TypeOK, NEW S, ClientPacket \subseteq S, NEW p \in S, toClient' = Append(toClient, p),
         NEW type, NEW id
  PROVE  Inward(type, id)' = Inward(type, id) + Matches(type, id, p)
<1>1. toClient \in Seq(S)
  BY Sequences, SeqSubset
<1> QED BY <1>1, CountAppend, Counts

LEMMA WriteCount ==
  ASSUME TypeOK, NEW p \in BrokerPacket, Write(p), NEW type, NEW id
  PROVE  Outward(type, id)' = Outward(type, id) + Matches(type, id, p)
<1>1. toBroker' = Append(toBroker, p) /\ outboundQueue' = outboundQueue
  BY DEF Write
<1>2. Count(type, id, toBroker') = Count(type, id, toBroker) + Matches(type, id, p)
  BY <1>1, Sequences, CountAppend
<1>3. Count(type, id, toBroker) \in Nat /\ Count(type, id, outboundQueue) \in Nat
  BY Sequences, CountType
<1>4. Matches(type, id, p) \in Nat
  BY DEF Matches
<1>5. Count(type, id, outboundQueue') = Count(type, id, outboundQueue)
  BY <1>1
<1> QED BY <1>2, <1>3, <1>4, <1>5, Counts

LEMMA SendCount ==
  ASSUME TypeOK, NEW p \in AckPacket, Send(p), NEW type, NEW id
  PROVE  Outward(type, id)' = Outward(type, id) + Matches(type, id, p)
<1>0. p \in BrokerPacket
  BY Sequences
<1>1. CASE ~pending
  BY <1>0, <1>1, WriteCount DEF Send
<1>2. CASE pending
  <2>1. outboundQueue' = Append(outboundQueue, p) /\ toBroker' = toBroker
    BY <1>2 DEF Send
  <2>2. Count(type, id, outboundQueue') = Count(type, id, outboundQueue) + Matches(type, id, p)
    BY <1>0, <2>1, Sequences, CountAppend
  <2>3. Count(type, id, toBroker) \in Nat /\ Count(type, id, outboundQueue) \in Nat
    BY Sequences, CountType
  <2>4. Matches(type, id, p) \in Nat
    BY DEF Matches
  <2>5. Count(type, id, toBroker') = Count(type, id, toBroker)
    BY <2>1
  <2> QED BY <2>2, <2>3, <2>4, <2>5, Counts
<1> QED BY <1>1, <1>2

LEMMA SameCount ==
  ASSUME NEW type, NEW id
  PROVE  /\ UNCHANGED toClient => Inward(type, id)' = Inward(type, id)
         /\ UNCHANGED <<toBroker, outboundQueue>> => Outward(type, id)' = Outward(type, id)
BY DEF Inward, Outward

LEMMA BrokerTookCount ==
  ASSUME TypeOK, BrokerReads, NEW type, NEW id
  PROVE  Outward(type, id) = Outward(type, id)' + Matches(type, id, Head(toBroker))
<1>1. toBroker' = Tail(toBroker) /\ outboundQueue' = outboundQueue
  BY DEF BrokerReads
<1>2. toBroker # <<>>
  BY DEF BrokerReads, TypeOK
<1>3. toBroker \in Seq(BrokerPacket) /\ outboundQueue \in Seq(BrokerPacket)
  BY Sequences
<1>4. Tail(toBroker) \in Seq(BrokerPacket)
  BY <1>2, <1>3, HeadTail
<1>5. Count(type, id, toBroker) = Count(type, id, toBroker') + Matches(type, id, Head(toBroker))
  BY <1>1, <1>2, <1>3, CountTail
<1>6. Count(type, id, toBroker') \in Nat /\ Count(type, id, outboundQueue) \in Nat
  BY <1>1, <1>3, <1>4, CountType
<1>7. Matches(type, id, Head(toBroker)) \in Nat
  BY DEF Matches
<1>8. Count(type, id, outboundQueue') = Count(type, id, outboundQueue)
  BY <1>1
<1> QED BY <1>5, <1>6, <1>7, <1>8, Counts

LEMMA SubSeqAll ==
  ASSUME NEW S, NEW s \in Seq(S)
  PROVE  SubSeq(s, 1, Len(s)) = s
OBVIOUS

LEMMA ConcatLast ==
  ASSUME NEW S, NEW s \in Seq(S), NEW x \in S
  PROVE  s \o <<x>> = Append(s, x)
OBVIOUS

\* The acknowledgement that waited is sent; there is no second one.
LEMMA FlushCount ==
  ASSUME TypeOK, QueueInv, WriteAvailable
  PROVE  /\ toBroker' = toBroker
              \/ \E p \in AckPacket : outboundQueue = <<p>> /\ toBroker' = Append(toBroker, p)
         /\ \A type, id : Outward(type, id)' = Outward(type, id)
<1>1. PICK k \in 0 .. Len(outboundQueue) :
        /\ toBroker' = toBroker \o SubSeq(outboundQueue, 1, k)
        /\ k = Len(outboundQueue) \/ k > 0
  BY DEF WriteAvailable
<1>2. outboundQueue' = <<>>
  BY DEF WriteAvailable
<1>3. toBroker \in Seq(BrokerPacket) /\ outboundQueue \in Seq(AckPacket)
  BY Sequences DEF TypeOK
<1>4. CASE outboundQueue = <<>>
  <2>1. Len(outboundQueue) = 0
    BY <1>4, LenFacts
  <2>2. k = 0
    BY <1>1, <2>1
  <2>3. SubSeq(outboundQueue, 1, 0) = <<>>
    BY <1>3
  <2>4. toBroker' = toBroker
    BY <1>1, <1>3, <2>2, <2>3
  <2> QED BY <1>2, <1>4, <2>4, SameCount
<1>5. CASE outboundQueue # <<>>
  <2>1. PICK p : outboundQueue = <<p>>
    BY <1>5 DEF QueueInv
  <2>2. Len(outboundQueue) = 1
    BY <2>1, LenFacts
  <2>3. p \in AckPacket
    <3>1. outboundQueue[1] = p
      BY <2>1
    <3> QED BY <1>3, <2>2, <3>1
  <2>4. k = 1
    BY <1>1, <2>2
  <2>5. SubSeq(outboundQueue, 1, k) = <<p>>
    BY <1>3, <2>1, <2>2, <2>4, SubSeqAll
  <2>6. toBroker' = Append(toBroker, p)
    <3>1. toBroker' = toBroker \o <<p>>
      BY <1>1, <2>5
    <3>2. p \in BrokerPacket
      BY <2>3, Sequences
    <3> QED BY <1>3, <3>1, <3>2, ConcatLast
  <2>7. outboundQueue = Append(<<>>, p)
    BY <2>1, LenFacts
  <2>8. ASSUME NEW type, NEW id PROVE Outward(type, id)' = Outward(type, id)
    <3>1. /\ Count(type, id, toBroker') = Count(type, id, toBroker) + Matches(type, id, p)
      BY <1>3, <2>3, <2>6, CountAppend, Sequences
    <3>2. Count(type, id, outboundQueue) = 0 + Matches(type, id, p)
      <4>1. <<>> \in Seq(BrokerPacket) /\ p \in BrokerPacket
        BY <2>3, Sequences
      <4>2. Count(type, id, Append(<<>>, p)) = Count(type, id, <<>>) + Matches(type, id, p)
        BY <4>1, CountAppend
      <4>3. Count(type, id, <<>>) = 0
        BY <4>1, CountType
      <4> QED BY <2>7, <4>2, <4>3
    <3>3. Count(type, id, outboundQueue') = 0
      BY <1>2, <1>3, CountType
    <3>4. Count(type, id, toBroker) \in Nat /\ Matches(type, id, p) \in Nat
      BY <1>3, CountType DEF Matches
    <3> QED BY <3>1, <3>2, <3>3, <3>4, Counts
  <2> QED BY <2>1, <2>3, <2>6, <2>8
<1> QED BY <1>4, <1>5

-----------------------------------------------------------------------------
(* Steps of an exchange *)

\* A packet is taken and another one put under way.
Moved(n, n2, from, to) ==
  \A t \in PacketType : n2[t] = n[t] - (IF t = from THEN 1 ELSE 0) + (IF t = to THEN 1 ELSE 0)

\* No packet is taken, or put under way.
Nothing == Ack("none", 0)

\* What the client, and the broker, take and send in a step.
ClientPassed(p, sent) ==
  \A t \in PacketType, id \in MsgId :
    /\ Inward(t, id) = Inward(t, id)' + Matches(t, id, p)
    /\ Outward(t, id)' = Outward(t, id) + Matches(t, id, sent)
BrokerPassed(p, sent) ==
  \A t \in PacketType, id \in MsgId :
    /\ Outward(t, id) = Outward(t, id)' + Matches(t, id, p)
    /\ Inward(t, id)' = Inward(t, id) + Matches(t, id, sent)

LEMMA AtHand ==
  ASSUME NEW e, NEW n, NEW msg, NEW had \in BOOLEAN, Going(e, n, msg, had),
         NEW type \in PacketType, n[type] # 0
  PROVE  /\ e.msg # 0 /\ UnderWay(e, msg, had, type)
         /\ \A t \in PacketType : n[t] = IF t = type THEN 1 ELSE 0
BY DEF Going

LEMMA Onward ==
  ASSUME NEW e, NEW n, NEW msg, NEW had \in BOOLEAN, Going(e, n, msg, had),
         NEW from \in PacketType, n[from] # 0,
         NEW to \in PacketType, from # to, NEW n2, Moved(n, n2, from, to),
         NEW e2, e2.msg # 0, NEW msg2, NEW had2 \in BOOLEAN, UnderWay(e2, msg2, had2, to)
  PROVE  Going(e2, n2, msg2, had2)
<1>1. \A t \in PacketType : n[t] = IF t = from THEN 1 ELSE 0
  BY AtHand
<1>2. \A t \in PacketType : n2[t] = IF t = to THEN 1 ELSE 0
  BY <1>1 DEF Moved
<1> QED BY <1>2 DEF Going

LEMMA Ended ==
  ASSUME NEW e, NEW n, NEW msg, NEW had \in BOOLEAN, Going(e, n, msg, had),
         NEW from \in PacketType, n[from] # 0,
         NEW n2, Moved(n, n2, from, "none")
  PROVE  \A had2 \in BOOLEAN : Going(Free, n2, 0, had2)
<1>1. \A t \in PacketType : n[t] = IF t = from THEN 1 ELSE 0
  BY AtHand
<1>2. \A t \in PacketType : t # "none"
  BY DEF PacketType, AckType
<1>3. \A t \in PacketType : n2[t] = 0
  BY <1>1, <1>2 DEF Moved
<1> QED BY <1>3 DEF Going

LEMMA Begun ==
  ASSUME NEW n, NEW msg, NEW had \in BOOLEAN, Going(Free, n, msg, had),
         NEW n2, Moved(n, n2, "none", "PUBLISH"),
         NEW e2, e2.msg # 0, NEW had2 \in BOOLEAN, UnderWay(e2, 0, had2, "PUBLISH")
  PROVE  Going(e2, n2, 0, had2) /\ msg = 0 /\ n["PUBLISH"] = 0
<1>1. msg = 0 /\ \A t \in PacketType : n[t] = 0
  BY DEF Going, Free
<1>2. \A t \in PacketType : t # "none"
  BY DEF PacketType, AckType
<1>3. \A t \in PacketType : n2[t] = IF t = "PUBLISH" THEN 1 ELSE 0
  BY <1>1, <1>2 DEF Moved
<1>4. "PUBLISH" \in PacketType
  BY DEF PacketType
<1> QED BY <1>1, <1>3, <1>4 DEF Going

LEMMA Unmoved ==
  ASSUME NEW e, NEW n, NEW msg, NEW had \in BOOLEAN, Going(e, n, msg, had),
         NEW n2, \A t \in PacketType : n2[t] = n[t],
         NEW had2 \in BOOLEAN, had => had2
  PROVE  Going(e, n2, msg, had2)
BY DEF Going, UnderWay

\* Whether a type of packet goes from the sender of a publication to its receiver.
Forth(type) == type \in {"PUBLISH", "PUBREL"}
Back(type)  == type \in {"PUBACK", "PUBREC", "PUBCOMP"}

LEMMA Directions ==
  ASSUME NEW t \in PacketType, NEW j \in MsgId
  PROVE  /\ t # "none" /\ (Forth(t) <=> ~Back(t))
         /\ InboundCount(j)[t] = IF Forth(t) THEN Inward(t, j) ELSE Outward(t, j)
         /\ InboundCount(j)'[t] = IF Forth(t) THEN Inward(t, j)' ELSE Outward(t, j)'
         /\ OutboundCount(j)[t] = IF Forth(t) THEN Outward(t, j) ELSE Inward(t, j)
         /\ OutboundCount(j)'[t] = IF Forth(t) THEN Outward(t, j)' ELSE Inward(t, j)'
<1>1. t # "none" /\ (Forth(t) <=> ~Back(t))
  BY DEF PacketType, AckType, Forth, Back
<1> QED BY <1>1 DEF InboundCount, OutboundCount, Forth

LEMMA ClientMoves ==
  ASSUME TypeOK, TypeOK', NEW p, NEW sent, ClientPassed(p, sent), NEW id,
         p.type = "none" \/ p.id = id, sent.type = "none" \/ sent.id = id
  PROVE  /\ Forth(p.type) /\ (Back(sent.type) \/ sent.type = "none") =>
              \A j \in MsgId :
                /\ j = id => Moved(InboundCount(j), InboundCount(j)', p.type, sent.type)
                /\ \A t \in PacketType :
                     /\ j # id => InboundCount(j)'[t] = InboundCount(j)[t]
                     /\ OutboundCount(j)'[t] = OutboundCount(j)[t]
         /\ (Back(p.type) \/ p.type = "none") /\ (Forth(sent.type) \/ sent.type = "none") =>
              \A j \in MsgId :
                /\ j = id => Moved(OutboundCount(j), OutboundCount(j)', p.type, sent.type)
                /\ \A t \in PacketType :
                     /\ j # id => OutboundCount(j)'[t] = OutboundCount(j)[t]
                     /\ InboundCount(j)'[t] = InboundCount(j)[t]
<1>1. ASSUME NEW t \in PacketType, NEW j \in MsgId
      PROVE  /\ Inward(t, j) \in Nat /\ Outward(t, j) \in Nat
             /\ Inward(t, j)' = Inward(t, j) - Matches(t, j, p)
             /\ Outward(t, j)' = Outward(t, j) + Matches(t, j, sent)
  <2>1. Matches(t, j, p) \in Nat /\ Matches(t, j, sent) \in Nat
    BY DEF Matches
  <2>2. /\ Inward(t, j) \in Nat /\ Outward(t, j) \in Nat
        /\ Inward(t, j)' \in Nat /\ Outward(t, j)' \in Nat
    BY CountsType, CountsTypeNext
  <2> QED BY <2>1, <2>2 DEF ClientPassed
<1>2. ASSUME NEW j \in MsgId, NEW t \in PacketType
      PROVE  /\ Matches(t, j, p) = IF p.type = t /\ j = id THEN 1 ELSE 0
             /\ Matches(t, j, sent) = IF sent.type = t /\ j = id THEN 1 ELSE 0
  BY Directions DEF Matches
<1>3. ~Forth("none") /\ ~Back("none") /\ \A t : ~(Forth(t) /\ Back(t))
  BY DEF Forth, Back
<1>4. CASE Forth(p.type) /\ (Back(sent.type) \/ sent.type = "none")
  <2>1. ASSUME NEW j \in MsgId, NEW t \in PacketType
        PROVE  /\ InboundCount(j)'[t] = InboundCount(j)[t]
                    - (IF t = p.type /\ j = id THEN 1 ELSE 0)
                    + (IF t = sent.type /\ j = id THEN 1 ELSE 0)
               /\ OutboundCount(j)'[t] = OutboundCount(j)[t]
               /\ InboundCount(j)[t] \in Nat
    <3>1. CASE Forth(t)
      BY <1>1, <1>2, <1>3, <1>4, <3>1, Directions
    <3>2. CASE ~Forth(t)
      BY <1>1, <1>2, <1>3, <1>4, <3>2, Directions
    <3> QED BY <3>1, <3>2
  <2>2. ~(Back(p.type) \/ p.type = "none")
    BY <1>3, <1>4
  <2> QED BY <2>1, <2>2 DEF Moved
<1>5. CASE (Back(p.type) \/ p.type = "none") /\ (Forth(sent.type) \/ sent.type = "none")
  <2>1. ASSUME NEW j \in MsgId, NEW t \in PacketType
        PROVE  /\ OutboundCount(j)'[t] = OutboundCount(j)[t]
                    - (IF t = p.type /\ j = id THEN 1 ELSE 0)
                    + (IF t = sent.type /\ j = id THEN 1 ELSE 0)
               /\ InboundCount(j)'[t] = InboundCount(j)[t]
               /\ OutboundCount(j)[t] \in Nat
    <3>1. CASE Forth(t)
      BY <1>1, <1>2, <1>3, <1>5, <3>1, Directions
    <3>2. CASE ~Forth(t)
      BY <1>1, <1>2, <1>3, <1>5, <3>2, Directions
    <3> QED BY <3>1, <3>2
  <2>2. ~Forth(p.type)
    BY <1>3, <1>5
  <2> QED BY <2>1, <2>2 DEF Moved
<1> QED BY <1>4, <1>5

LEMMA BrokerMoves ==
  ASSUME TypeOK, TypeOK', NEW p, NEW sent, BrokerPassed(p, sent), NEW id,
         p.type = "none" \/ p.id = id, sent.type = "none" \/ sent.id = id
  PROVE  /\ Forth(p.type) /\ (Back(sent.type) \/ sent.type = "none") =>
              \A j \in MsgId :
                /\ j = id => Moved(OutboundCount(j), OutboundCount(j)', p.type, sent.type)
                /\ \A t \in PacketType :
                     /\ j # id => OutboundCount(j)'[t] = OutboundCount(j)[t]
                     /\ InboundCount(j)'[t] = InboundCount(j)[t]
         /\ (Back(p.type) \/ p.type = "none") /\ (Forth(sent.type) \/ sent.type = "none") =>
              \A j \in MsgId :
                /\ j = id => Moved(InboundCount(j), InboundCount(j)', p.type, sent.type)
                /\ \A t \in PacketType :
                     /\ j # id => InboundCount(j)'[t] = InboundCount(j)[t]
                     /\ OutboundCount(j)'[t] = OutboundCount(j)[t]
<1>1. ASSUME NEW t \in PacketType, NEW j \in MsgId
      PROVE  /\ Inward(t, j) \in Nat /\ Outward(t, j) \in Nat
             /\ Outward(t, j)' = Outward(t, j) - Matches(t, j, p)
             /\ Inward(t, j)' = Inward(t, j) + Matches(t, j, sent)
  <2>1. Matches(t, j, p) \in Nat /\ Matches(t, j, sent) \in Nat
    BY DEF Matches
  <2>2. /\ Inward(t, j) \in Nat /\ Outward(t, j) \in Nat
        /\ Inward(t, j)' \in Nat /\ Outward(t, j)' \in Nat
    BY CountsType, CountsTypeNext
  <2> QED BY <2>1, <2>2 DEF BrokerPassed
<1>2. ASSUME NEW j \in MsgId, NEW t \in PacketType
      PROVE  /\ Matches(t, j, p) = IF p.type = t /\ j = id THEN 1 ELSE 0
             /\ Matches(t, j, sent) = IF sent.type = t /\ j = id THEN 1 ELSE 0
  BY Directions DEF Matches
<1>3. ~Forth("none") /\ ~Back("none") /\ \A t : ~(Forth(t) /\ Back(t))
  BY DEF Forth, Back
<1>4. CASE Forth(p.type) /\ (Back(sent.type) \/ sent.type = "none")
  <2>1. ASSUME NEW j \in MsgId, NEW t \in PacketType
        PROVE  /\ OutboundCount(j)'[t] = OutboundCount(j)[t]
                    - (IF t = p.type /\ j = id THEN 1 ELSE 0)
                    + (IF t = sent.type /\ j = id THEN 1 ELSE 0)
               /\ InboundCount(j)'[t] = InboundCount(j)[t]
               /\ OutboundCount(j)[t] \in Nat
    <3>1. CASE Forth(t)
      BY <1>1, <1>2, <1>3, <1>4, <3>1, Directions
    <3>2. CASE ~Forth(t)
      BY <1>1, <1>2, <1>3, <1>4, <3>2, Directions
    <3> QED BY <3>1, <3>2
  <2>2. ~(Back(p.type) \/ p.type = "none")
    BY <1>3, <1>4
  <2> QED BY <2>1, <2>2 DEF Moved
<1>5. CASE (Back(p.type) \/ p.type = "none") /\ (Forth(sent.type) \/ sent.type = "none")
  <2>1. ASSUME NEW j \in MsgId, NEW t \in PacketType
        PROVE  /\ InboundCount(j)'[t] = InboundCount(j)[t]
                    - (IF t = p.type /\ j = id THEN 1 ELSE 0)
                    + (IF t = sent.type /\ j = id THEN 1 ELSE 0)
               /\ OutboundCount(j)'[t] = OutboundCount(j)[t]
               /\ InboundCount(j)[t] \in Nat
    <3>1. CASE Forth(t)
      BY <1>1, <1>2, <1>3, <1>5, <3>1, Directions
    <3>2. CASE ~Forth(t)
      BY <1>1, <1>2, <1>3, <1>5, <3>2, Directions
    <3> QED BY <3>1, <3>2
  <2>2. ~Forth(p.type)
    BY <1>3, <1>5
  <2> QED BY <2>1, <2>2 DEF Moved
<1> QED BY <1>4, <1>5

-----------------------------------------------------------------------------
(* The exchanges of the other ids, and of the other direction, stay as they are *)

LEMMA HoldsFacts ==
  ASSUME NEW S, NEW seq \in Seq(S), NEW q
  PROVE  /\ \A x \in S : Holds(Append(seq, x), q) <=> Holds(seq, q) \/ q = x
         /\ seq # <<>> => Holds(seq, Head(seq)) /\ (Holds(Tail(seq), q) => Holds(seq, q))
         /\ Holds(seq, q) => q \in S
<1>1. ASSUME NEW x \in S PROVE Holds(Append(seq, x), q) <=> Holds(seq, q) \/ q = x
  <2>1. /\ Len(Append(seq, x)) = Len(seq) + 1 /\ Append(seq, x)[Len(seq) + 1] = x
        /\ Len(seq) \in Nat
        /\ \A k \in 1 .. Len(seq) : Append(seq, x)[k] = seq[k]
    OBVIOUS
  <2>2. \A k \in 1 .. Len(seq) + 1 : k \in 1 .. Len(seq) \/ k = Len(seq) + 1
    BY <2>1
  <2>3. 1 .. Len(seq) \subseteq 1 .. Len(seq) + 1 /\ Len(seq) + 1 \in 1 .. Len(seq) + 1
    BY <2>1
  <2> QED BY <2>1, <2>2, <2>3 DEF Holds
<1>2. CASE seq # <<>>
  <2>1. /\ Len(seq) = Len(Tail(seq)) + 1 /\ Head(seq) = seq[1] /\ Len(Tail(seq)) \in Nat
        /\ \A k \in 1 .. Len(Tail(seq)) : Tail(seq)[k] = seq[k + 1]
    BY <1>2
  <2>2. 1 \in 1 .. Len(seq) /\ \A k \in 1 .. Len(Tail(seq)) : k + 1 \in 1 .. Len(seq)
    BY <2>1
  <2>3. Holds(seq, Head(seq)) /\ (Holds(Tail(seq), q) => Holds(seq, q))
    BY <2>1, <2>2 DEF Holds
  <2>4. Holds(seq, q) => q \in S
    BY DEF Holds
  <2> QED BY <1>1, <2>3, <2>4
<1>3. CASE seq = <<>>
  BY <1>1, <1>3 DEF Holds
<1> QED BY <1>2, <1>3

LEMMA AppendHolds ==
  ASSUME NEW S, NEW seq \in Seq(S), NEW x \in S, NEW q
  PROVE  Holds(Append(seq, x), q) <=> Holds(seq, q) \/ q = x
BY HoldsFacts

LEMMA HoldsCount ==
  ASSUME NEW S, NEW seq \in Seq(S), NEW q, Holds(seq, q)
  PROVE  Count(q.type, q.id, seq) # 0
<1>1. InSeq(q.type, q.id, seq) # {}
  BY DEF Holds, InSeq
<1> QED BY <1>1, CountType, FS_EmptySet DEF Count

\* A publication on its way is counted.
LEMMA PublishCount ==
  ASSUME TypeOK, NEW id \in MsgId, NEW x, x.type = "PUBLISH", x.id = id
  PROVE  /\ Holds(toClient, x) => InboundCount(id)["PUBLISH"] # 0
         /\ Holds(toBroker, x) => OutboundCount(id)["PUBLISH"] # 0
<1>1. "PUBLISH" \in PacketType
  BY DEF PacketType
<1>2. /\ InboundCount(id)["PUBLISH"] = Inward("PUBLISH", id)
      /\ OutboundCount(id)["PUBLISH"] = Outward("PUBLISH", id)
  BY <1>1 DEF InboundCount, OutboundCount
<1>3. Holds(toClient, x) => Inward("PUBLISH", id) # 0
  BY Sequences, HoldsCount, Counts
<1>4. Holds(toBroker, x) => Outward("PUBLISH", id) # 0
  <2>1. Holds(toBroker, x) => Count("PUBLISH", id, toBroker) # 0
    BY Sequences, HoldsCount
  <2>2. Count("PUBLISH", id, toBroker) \in Nat /\ Count("PUBLISH", id, outboundQueue) \in Nat
    BY Sequences, CountType
  <2> QED BY <2>1, <2>2, Counts
<1> QED BY <1>2, <1>3, <1>4

LEMMA InboundMoved ==
  ASSUME InboundInv, NEW id,
         \A j \in MsgId : j # id =>
           /\ \A t \in PacketType : InboundCount(j)'[t] = InboundCount(j)[t]
           /\ sending'[j] = sending[j] /\ inboundMsgs'[j] = inboundMsgs[j],
         \A m : Holds(received, m) => Holds(received', m),
         id \in MsgId => Going(sending'[id], InboundCount(id)', inboundMsgs'[id],
                               Holds(received', sending'[id].msg)),
         Fits(toClient', sending')
  PROVE  InboundInv'
<1>1. ASSUME NEW j \in MsgId
      PROVE  Going(sending'[j], InboundCount(j)', inboundMsgs'[j],
                   Holds(received', sending'[j].msg))
  <2>1. CASE j = id
    BY <2>1
  <2>2. CASE j # id
    <3>1. Going(sending[j], InboundCount(j), inboundMsgs[j], Holds(received, sending[j].msg))
      BY DEF InboundInv
    <3>2. /\ Holds(received, sending[j].msg) \in BOOLEAN
          /\ Holds(received', sending[j].msg) \in BOOLEAN
      BY DEF Holds
    <3>3. Going(sending[j], InboundCount(j)', inboundMsgs[j], Holds(received', sending[j].msg))
      BY <2>2, <3>1, <3>2, Unmoved
    <3> QED BY <2>2, <3>3
  <2> QED BY <2>1, <2>2
<1> QED BY <1>1 DEF InboundInv

LEMMA OutboundMoved ==
  ASSUME OutboundInv, NEW id,
         \A j \in MsgId : j # id =>
           /\ \A t \in PacketType : OutboundCount(j)'[t] = OutboundCount(j)[t]
           /\ outboundMsgs'[j] = outboundMsgs[j] /\ stored'[j] = stored[j],
         \A m : Holds(published, m) => Holds(published', m),
         id \in MsgId => Going(outboundMsgs'[id], OutboundCount(id)', stored'[id],
                               Holds(published', outboundMsgs'[id].msg)),
         Fits(toBroker', outboundMsgs')
  PROVE  OutboundInv'
<1>1. ASSUME NEW j \in MsgId
      PROVE  Going(outboundMsgs'[j], OutboundCount(j)', stored'[j],
                   Holds(published', outboundMsgs'[j].msg))
  <2>1. CASE j = id
    BY <2>1
  <2>2. CASE j # id
    <3>1. Going(outboundMsgs[j], OutboundCount(j), stored[j], Holds(published, outboundMsgs[j].msg))
      BY DEF OutboundInv
    <3>2. /\ Holds(published, outboundMsgs[j].msg) \in BOOLEAN
          /\ Holds(published', outboundMsgs[j].msg) \in BOOLEAN
      BY DEF Holds
    <3>3. Going(outboundMsgs[j], OutboundCount(j)', stored[j],
                Holds(published', outboundMsgs[j].msg))
      BY <2>2, <3>1, <3>2, Unmoved
    <3> QED BY <2>2, <3>3
  <2> QED BY <2>1, <2>2
<1> QED BY <1>1 DEF OutboundInv

\* Nobody but 0 has no id.
LEMMA InboundSame ==
  ASSUME InboundInv, TypeOK',
         \A j \in MsgId, t \in PacketType : InboundCount(j)'[t] = InboundCount(j)[t],
         UNCHANGED <<sending, inboundMsgs>>,
         \A m : Holds(received, m) => Holds(received', m),
         \A q : Holds(toClient', q) /\ q.type = "PUBLISH" /\ q.id # 0 => Holds(toClient, q)
  PROVE  InboundInv'
<1>1. Fits(toClient', sending')
  BY DEF InboundInv, Fits
<1>2. 0 \notin MsgId
  BY DEF MsgId
<1> QED BY <1>1, <1>2, InboundMoved

LEMMA OutboundSame2 ==
  ASSUME OutboundInv, TypeOK',
         \A j \in MsgId, t \in PacketType : OutboundCount(j)'[t] = OutboundCount(j)[t],
         UNCHANGED <<outboundMsgs, stored>>,
         \A m : Holds(published, m) => Holds(published', m),
         \A q : Holds(toBroker', q) /\ q.type = "PUBLISH" /\ q.id # 0 => Holds(toBroker, q)
  PROVE  OutboundInv'
<1>1. Fits(toBroker', outboundMsgs')
  BY DEF OutboundInv, Fits
<1>2. 0 \notin MsgId
  BY DEF MsgId
<1> QED BY <1>1, <1>2, OutboundMoved

-----------------------------------------------------------------------------
(* The client handles a packet *)

LEMMA TakePassed ==
  ASSUME TypeOK, NEW type, Take(type)
  PROVE  /\ UNCHANGED socket => ClientPassed(Head(toClient), Nothing)
         /\ \A p \in AckPacket : Send(p) => ClientPassed(Head(toClient), p)
<1>1. \A t \in PacketType : \A id : Matches(t, id, Nothing) = 0
  BY DEF Matches, Nothing, Ack, PacketType, AckType
<1>2. ASSUME UNCHANGED socket PROVE ClientPassed(Head(toClient), Nothing)
  <2>1. ASSUME NEW t \in PacketType, NEW id \in MsgId
        PROVE  /\ Inward(t, id) = Inward(t, id)' + Matches(t, id, Head(toClient))
               /\ Outward(t, id)' = Outward(t, id) + 0
    BY <1>2, TakenCount, SameCount, CountsType DEF socket
  <2> QED BY <1>1, <2>1 DEF ClientPassed
<1>3. ASSUME NEW p \in AckPacket, Send(p) PROVE ClientPassed(Head(toClient), p)
  BY <1>3, TakenCount, SendCount DEF ClientPassed
<1> QED BY <1>2, <1>3

LEMMA TakeHolds ==
  ASSUME TypeOK, NEW type, Take(type)
  PROVE  /\ Holds(toClient, Head(toClient)) /\ Head(toClient).type = type
         /\ \A q : Holds(toClient', q) => Holds(toClient, q)
         /\ Head(toClient).id \in MsgId /\ type \in PacketType
              => InboundCount(Head(toClient).id)[type] # 0 \/ ~Forth(type)
         /\ Head(toClient).id \in MsgId /\ type \in PacketType
              => OutboundCount(Head(toClient).id)[type] # 0 \/ Forth(type)
<1>1. toClient # <<>> /\ toClient' = Tail(toClient) /\ Head(toClient).type = type
  BY DEF Take, TypeOK
<1>2. toClient \in Seq(ClientPacket)
  BY Sequences
<1>3. Holds(toClient, Head(toClient)) /\ \A q : Holds(toClient', q) => Holds(toClient, q)
  BY <1>1, <1>2, HoldsFacts
<1>4. Inward(type, Head(toClient).id) # 0
  BY <1>1, <1>2, <1>3, HoldsCount, Counts
<1> QED BY <1>1, <1>3, <1>4, Directions

LEMMA SendHolds ==
  ASSUME TypeOK, UNCHANGED socket \/ \E p \in AckPacket : Send(p)
  PROVE  \A q : Holds(toBroker', q) /\ q.type = "PUBLISH" => Holds(toBroker, q)
<1>1. \A p \in AckPacket : p.type # "PUBLISH"
  BY DEF AckPacket, AckType
<1>2. toBroker' = toBroker \/ \E p \in AckPacket : toBroker' = Append(toBroker, p)
  BY DEF socket, Send, Write
<1>3. ASSUME NEW p \in AckPacket, toBroker' = Append(toBroker, p), NEW q, Holds(toBroker', q)
      PROVE  Holds(toBroker, q) \/ q = p
  BY <1>3, Sequences, HoldsFacts
<1> QED BY <1>1, <1>2, <1>3

LEMMA ClientInbound ==
  ASSUME TypeOK, TypeOK', InboundInv, OutboundInv,
         NEW type, Take(type), Forth(type), NEW id \in MsgId, Head(toClient).id = id,
         NEW to, Back(to), Send(Ack(to, id)),
         UNCHANGED <<sending, outboundMsgs, stored, published>>,
         \A j \in MsgId : j # id => inboundMsgs'[j] = inboundMsgs[j],
         \A m : Holds(received, m) => Holds(received', m),
         UnderWay(sending[id], inboundMsgs[id], Holds(received, sending[id].msg), type)
             /\ sending[id].msg # 0
           => UnderWay(sending[id], inboundMsgs'[id], Holds(received', sending[id].msg), to)
  PROVE  InboundInv' /\ OutboundInv'
<1> DEFINE p == Head(toClient)
           q == Ack(to, id)
<1>1. q \in AckPacket /\ q.type = to /\ q.id = id /\ type \in PacketType /\ to \in PacketType
  BY AckTypes DEF Ack, Back, Forth, AckType, PacketType
<1>2. p.type = type /\ p.id = id /\ InboundCount(id)[type] # 0
  BY <1>1, TakeHolds
<1>3. ClientPassed(p, q)
  BY <1>1, TakePassed
<1> HIDE DEF p, q
<1>4. /\ Moved(InboundCount(id), InboundCount(id)', type, to)
      /\ \A j \in MsgId, t \in PacketType :
           /\ j # id => InboundCount(j)'[t] = InboundCount(j)[t]
           /\ OutboundCount(j)'[t] = OutboundCount(j)[t]
  BY <1>1, <1>2, <1>3, ClientMoves
<1>5. type # to
  BY DEF Forth, Back
<1>6. Going(sending[id], InboundCount(id), inboundMsgs[id], Holds(received, sending[id].msg))
  BY DEF InboundInv
<1>7. /\ Holds(received, sending[id].msg) \in BOOLEAN
      /\ Holds(received', sending[id].msg) \in BOOLEAN
  BY DEF Holds
<1>8. /\ sending[id].msg # 0
      /\ UnderWay(sending[id], inboundMsgs[id], Holds(received, sending[id].msg), type)
  BY <1>1, <1>2, <1>6, <1>7, AtHand
<1>9. Going(sending[id], InboundCount(id)', inboundMsgs'[id], Holds(received', sending[id].msg))
  BY <1>1, <1>2, <1>4, <1>5, <1>6, <1>7, <1>8, Onward
<1>10. Fits(toClient', sending')
  BY TakeHolds DEF Fits, InboundInv
<1>11. InboundInv'
  BY <1>4, <1>9, <1>10, InboundMoved
<1>12. OutboundInv'
  <2>1. \A x : Holds(toBroker', x) /\ x.type = "PUBLISH" => Holds(toBroker, x)
    BY <1>1, SendHolds DEF q
  <2> QED BY <1>4, <2>1, OutboundSame2
<1> QED BY <1>11, <1>12

LEMMA HandlePublishesExchange ==
  ASSUME TypeOK, TypeOK', InboundInv, OutboundInv, HandlePublishes
  PROVE  InboundInv' /\ OutboundInv'
<1> DEFINE p == Head(toClient)
<1>1. /\ Take("PUBLISH") /\ UNCHANGED <<sending, outboundMsgs, stored, published>>
  BY DEF HandlePublishes, outbound, broker
<1>2. /\ p \in ClientPacket /\ p.type = "PUBLISH" /\ p.msg \in 1 .. ins /\ ins \in Nat
      /\ p.qos # 0 => p.id \in MsgId
      /\ p.qos = 0 => p.id = 0
  <2>1. ReceiveType /\ ins \in Nat
    BY Bounds, TypeParts DEF BrokerType
  <2>2. p \in ClientPacket /\ p.type = "PUBLISH"
    BY <1>1, <2>1, TakeHead
  <2> QED BY <2>1, <2>2, PacketFacts DEF ClientPacket
<1>3. Holds(toClient, p)
  BY <1>1, TakeHolds
<1>4. p.id # 0 => p.qos = sending[p.id].qos /\ p.msg = sending[p.id].msg
  BY <1>2, <1>3 DEF InboundInv, Fits
<1>5. received \in Seq(1 .. ins)
  BY DEF TypeOK
<1>6. /\ \A m : Holds(received, m) => Holds(Append(received, p.msg), m)
      /\ Holds(Append(received, p.msg), p.msg)
  BY <1>2, <1>5, HoldsFacts
<1>7. 0 \notin MsgId
  BY DEF MsgId
<1>8. Forth("PUBLISH") /\ Back("PUBACK") /\ Back("PUBREC")
  BY DEF Forth, Back
<1>9. CASE p.qos = 0
  <2>1. /\ received' = Append(received, p.msg) /\ UNCHANGED <<socket, inboundMsgs>>
    BY <1>9 DEF HandlePublishes
  <2>2. ClientPassed(p, Nothing) /\ Nothing.type = "none"
    BY <1>1, <2>1, TakePassed DEF Nothing, Ack
  <2>3. \A j \in MsgId, t \in PacketType :
          /\ InboundCount(j)'[t] = InboundCount(j)[t] /\ OutboundCount(j)'[t] = OutboundCount(j)[t]
    BY <1>2, <1>7, <1>8, <1>9, <2>2, ClientMoves
  <2>4. InboundInv'
    BY <1>1, <1>6, <2>1, <2>3, TakeHolds, InboundSame
  <2>5. OutboundInv'
    BY <1>1, <2>1, <2>3, SendHolds, OutboundSame2
  <2> QED BY <2>4, <2>5
<1>10. CASE p.qos = 1
  <2>1. /\ received' = Append(received, p.msg) /\ UNCHANGED inboundMsgs /\ Send(Ack("PUBACK", p.id))
    BY <1>10 DEF HandlePublishes
  <2>2. p.id \in MsgId /\ p.id # 0
    BY <1>2, <1>7, <1>10
  <2> HIDE DEF p
  <2>3. UnderWay(sending[p.id], inboundMsgs[p.id], Holds(received, sending[p.id].msg), "PUBLISH")
        => UnderWay(sending[p.id], inboundMsgs'[p.id], Holds(received', sending[p.id].msg),
                    "PUBACK")
    BY <1>4, <1>6, <1>10, <2>1, <2>2 DEF UnderWay
  <2>4. p.id = Head(toClient).id
    BY DEF p
  <2> QED BY <1>1, <1>6, <1>8, <2>1, <2>2, <2>3, <2>4, ClientInbound
<1>11. CASE p.qos = 2
  <2>1. /\ inboundMsgs' = [inboundMsgs EXCEPT ![p.id] = p.msg] /\ UNCHANGED received
        /\ Send(Ack("PUBREC", p.id))
    BY <1>11 DEF HandlePublishes
  <2>2. p.id \in MsgId /\ p.id # 0
    BY <1>2, <1>7, <1>11
  <2> HIDE DEF p
  <2>3. inboundMsgs \in [MsgId -> 0 .. ins]
    BY DEF TypeOK
  <2>4. inboundMsgs'[p.id] = p.msg /\ \A j \in MsgId : j # p.id => inboundMsgs'[j] = inboundMsgs[j]
    BY <2>1, <2>2, <2>3
  <2>5. UnderWay(sending[p.id], inboundMsgs[p.id], Holds(received, sending[p.id].msg), "PUBLISH")
        => UnderWay(sending[p.id], inboundMsgs'[p.id], Holds(received', sending[p.id].msg),
                    "PUBREC")
    BY <1>4, <1>11, <2>2, <2>4 DEF UnderWay
  <2>6. p.id = Head(toClient).id
    BY DEF p
  <2> QED BY <1>1, <1>8, <2>1, <2>2, <2>4, <2>5, <2>6, ClientInbound
<1> QED BY <1>9, <1>10, <1>11 DEF HandlePublishes

LEMMA HandlePubrelsExchange ==
  ASSUME TypeOK, TypeOK', InboundInv, OutboundInv, HandlePubrels
  PROVE  InboundInv' /\ OutboundInv'
<1>0. PICK id : id = Head(toClient).id
  OBVIOUS
<1>1. /\ Take("PUBREL") /\ UNCHANGED <<sending, outboundMsgs, stored, published>>
      /\ Send(Ack("PUBCOMP", id))
      /\ IF inboundMsgs[id] # 0
         THEN /\ received' = Append(received, inboundMsgs[id])
              /\ inboundMsgs' = [inboundMsgs EXCEPT ![id] = 0]
         ELSE UNCHANGED <<received, inboundMsgs>>
  BY <1>0 DEF HandlePubrels, outbound, broker
<1>2. ReceiveType /\ ins \in Nat
  BY Bounds, TypeParts DEF BrokerType
<1>3. id \in MsgId
  BY <1>1, <1>2, <1>0, TakeHead
<1>4. Forth("PUBREL") /\ Back("PUBCOMP")
  BY DEF Forth, Back
<1>5. /\ inboundMsgs \in [MsgId -> 0 .. ins] /\ inboundMsgs[id] \in 0 .. ins
      /\ received \in Seq(1 .. ins)
  BY <1>3 DEF TypeOK
<1>6. /\ inboundMsgs'[id] = 0 /\ \A j \in MsgId : j # id => inboundMsgs'[j] = inboundMsgs[j]
  BY <1>1, <1>3, <1>5
<1>7. inboundMsgs[id] # 0 =>
        /\ \A m : Holds(received, m) => Holds(received', m)
        /\ Holds(received', inboundMsgs[id])
  <2> SUFFICES ASSUME inboundMsgs[id] # 0
               PROVE  /\ \A m : Holds(received, m) => Holds(received', m)
                      /\ Holds(received', inboundMsgs[id])
    OBVIOUS
  <2>1. inboundMsgs[id] \in 1 .. ins
    BY <1>2, <1>5
  <2>2. received' = Append(received, inboundMsgs[id])
    BY <1>1
  <2>3. ASSUME NEW m PROVE Holds(received', m) <=> Holds(received, m) \/ m = inboundMsgs[id]
    <3>1. PICK x \in 1 .. ins : x = inboundMsgs[id]
      BY <2>1
    <3>2. received \in Seq(1 .. ins)
      BY <1>5
    <3>3. Holds(Append(received, x), m) <=> Holds(received, m) \/ m = x
      BY <3>2, AppendHolds
    <3> QED BY <2>2, <3>1, <3>3
  <2> QED BY <2>3
<1>8. \A m : Holds(received, m) => Holds(received', m)
  BY <1>1, <1>7
<1>9. UnderWay(sending[id], inboundMsgs[id], Holds(received, sending[id].msg), "PUBREL")
        /\ sending[id].msg # 0
      => UnderWay(sending[id], inboundMsgs'[id], Holds(received', sending[id].msg), "PUBCOMP")
  BY <1>6, <1>7 DEF UnderWay
<1> QED BY <1>1, <1>3, <1>4, <1>6, <1>8, <1>9, <1>0, ClientInbound

\* PUBREC of the broker: the exchange goes on.
LEMMA HandlePubrecsExchange ==
  ASSUME TypeOK, TypeOK', InboundInv, OutboundInv, HandlePubrecs
  PROVE  InboundInv' /\ OutboundInv'
<1>0. PICK p, id : p = Head(toClient) /\ id = p.id
  OBVIOUS
<1> DEFINE q == Ack("PUBREL", id)
           e == outboundMsgs[id]
           had == Holds(published, e.msg)
<1>1. /\ Take("PUBREC") /\ Send(q)
      /\ UNCHANGED <<sending, inboundMsgs, received, stored, published>>
      /\ outboundMsgs' = [outboundMsgs EXCEPT
           ![id] = IF @.qos = 2 /\ @.next = "PUBREC" THEN [@ EXCEPT !.next = "PUBCOMP"] ELSE @]
  BY <1>0 DEF HandlePubrecs, broker
<1>2. ReceiveType /\ ins \in Nat
  BY Bounds, TypeParts DEF BrokerType
<1>3. id \in MsgId
  BY <1>0, <1>1, <1>2, TakeHead
<1>4. /\ ~Forth("PUBREC") /\ Back("PUBREC") /\ Forth("PUBREL") /\ "PUBREC" # "PUBREL"
      /\ "PUBREC" \in PacketType /\ "PUBREL" \in PacketType /\ "PUBREL" \in AckType
  BY DEF Forth, Back, PacketType, AckType
<1>5. q \in AckPacket /\ q.type = "PUBREL" /\ q.id = id
  BY <1>3, <1>4, AckTypes DEF Ack
<1>6. p.type = "PUBREC" /\ p.id = id /\ OutboundCount(id)["PUBREC"] # 0
  BY <1>0, <1>1, <1>3, <1>4, TakeHolds
<1>7. ClientPassed(p, q)
  BY <1>0, <1>1, <1>5, TakePassed
<1>8. outboundMsgs \in [MsgId -> Exchange(outs)] /\ e \in Exchange(outs)
  BY <1>3 DEF TypeOK
<1> HIDE DEF q
<1>9. /\ Moved(OutboundCount(id), OutboundCount(id)', "PUBREC", "PUBREL")
      /\ \A j \in MsgId, t \in PacketType :
           /\ j # id => OutboundCount(j)'[t] = OutboundCount(j)[t]
           /\ InboundCount(j)'[t] = InboundCount(j)[t]
  <2>1. Back(p.type) /\ Forth(q.type)
    BY <1>4, <1>5, <1>6
  <2> HIDE DEF e, had
  <2> QED BY <1>3, <1>5, <1>6, <1>7, <2>1, ClientMoves
<1>10. Going(e, OutboundCount(id), stored[id], had)
  BY <1>3 DEF OutboundInv
<1>11. had \in BOOLEAN
  BY DEF Holds
<1>12. e.msg # 0 /\ UnderWay(e, stored[id], had, "PUBREC")
  <2> HIDE DEF e, had
  <2> QED BY <1>4, <1>6, <1>10, <1>11, AtHand
<1> DEFINE e2 == [e EXCEPT !.next = "PUBCOMP"]
<1>13. outboundMsgs' = [outboundMsgs EXCEPT ![id] = e2]
  BY <1>1, <1>12 DEF UnderWay
<1>14. e2.msg = e.msg /\ e2.qos = e.qos /\ e2.next = "PUBCOMP"
  BY <1>8 DEF Exchange
<1>15. outboundMsgs'[id] = e2 /\ \A j \in MsgId : j # id => outboundMsgs'[j] = outboundMsgs[j]
  BY <1>3, <1>8, <1>13
<1> HIDE DEF e2
<1>16. UnderWay(e2, stored[id], had, "PUBREL")
  BY <1>12, <1>14 DEF UnderWay
<1>17. Going(e2, OutboundCount(id)', stored[id], had)
  <2> HIDE DEF e, had
  <2> QED BY <1>4, <1>6, <1>9, <1>10, <1>11, <1>12, <1>14, <1>16, Onward
<1>18. \A x : Holds(toBroker', x) /\ x.type = "PUBLISH" => Holds(toBroker, x)
  BY <1>1, <1>5, SendHolds
<1>19. Fits(toBroker', outboundMsgs')
  <2>1. ASSUME NEW x, Holds(toBroker', x), x.type = "PUBLISH", x.id # 0
        PROVE  x.qos = outboundMsgs'[x.id].qos /\ x.msg = outboundMsgs'[x.id].msg
    <3>1. Holds(toBroker, x) /\ x \in BrokerPacket
      BY <1>18, <2>1, Sequences, HoldsFacts
    <3>2. x.qos = outboundMsgs[x.id].qos /\ x.msg = outboundMsgs[x.id].msg
      BY <2>1, <3>1 DEF OutboundInv, Fits
    <3>3. x.id \in MsgId
      BY <2>1, <3>1 DEF BrokerPacket, AckPacket, Numbered, Publication
    <3> QED BY <1>14, <1>15, <3>2, <3>3
  <2> QED BY <2>1 DEF Fits
<1>20. OutboundInv'
  <2>1. Going(outboundMsgs'[id], OutboundCount(id)', stored'[id],
              Holds(published', outboundMsgs'[id].msg))
    BY <1>1, <1>14, <1>15, <1>17
  <2>2. /\ \A j \in MsgId : j # id =>
             /\ \A t \in PacketType : OutboundCount(j)'[t] = OutboundCount(j)[t]
             /\ outboundMsgs'[j] = outboundMsgs[j] /\ stored'[j] = stored[j]
        /\ \A m : Holds(published, m) => Holds(published', m)
    BY <1>1, <1>9, <1>15
  <2> QED BY <1>19, <2>1, <2>2, OutboundMoved
<1>21. InboundInv'
  BY <1>1, <1>9, TakeHolds, InboundSame
<1> QED BY <1>20, <1>21

\* PUBACK and PUBCOMP of the broker: the exchange ends.
LEMMA ClientEnds ==
  ASSUME TypeOK, TypeOK', InboundInv, OutboundInv, HandlePubacks \/ HandlePubcomps
  PROVE  InboundInv' /\ OutboundInv'
<1>0. PICK p, id : p = Head(toClient) /\ id = p.id
  OBVIOUS
<1> DEFINE e == outboundMsgs[id]
           had == Holds(published, e.msg)
<1>1. PICK type \in {"PUBACK", "PUBCOMP"} :
        /\ Take(type) /\ UNCHANGED <<socket, sending, inboundMsgs, received, stored, published>>
        /\ outboundMsgs' = [outboundMsgs EXCEPT
             ![id] = IF (type = "PUBACK" /\ @.qos = 1)
                          \/ (type = "PUBCOMP" /\ @.qos = 2 /\ @.next = "PUBCOMP")
                     THEN Free ELSE @]
  BY <1>0 DEF HandlePubacks, HandlePubcomps, broker
<1>2. ReceiveType /\ ins \in Nat
  BY Bounds, TypeParts DEF BrokerType
<1>3. id \in MsgId
  BY <1>0, <1>1, <1>2, TakeHead
<1>4. /\ ~Forth(type) /\ Back(type) /\ type \in PacketType
      /\ Nothing.type = "none" /\ "PUBLISH" \in PacketType /\ "PUBLISH" # type
  BY DEF Forth, Back, PacketType, AckType, Nothing, Ack
<1>5. p.type = type /\ p.id = id /\ OutboundCount(id)[type] # 0
  BY <1>0, <1>1, <1>3, <1>4, TakeHolds
<1>6. ClientPassed(p, Nothing)
  BY <1>0, <1>1, TakePassed
<1>7. outboundMsgs \in [MsgId -> Exchange(outs)]
  BY DEF TypeOK
<1>8. /\ Moved(OutboundCount(id), OutboundCount(id)', type, "none")
      /\ \A j \in MsgId, t \in PacketType :
           /\ j # id => OutboundCount(j)'[t] = OutboundCount(j)[t]
           /\ InboundCount(j)'[t] = InboundCount(j)[t]
  <2>1. Back(p.type) /\ Nothing.type = "none"
    BY <1>4, <1>5
  <2> HIDE DEF e, had
  <2>2. Moved(OutboundCount(id), OutboundCount(id)', p.type, Nothing.type)
    BY <1>3, <1>5, <1>6, <2>1, ClientMoves
  <2>3. \A j \in MsgId, t \in PacketType :
           /\ j # id => OutboundCount(j)'[t] = OutboundCount(j)[t]
           /\ InboundCount(j)'[t] = InboundCount(j)[t]
    BY <1>3, <1>5, <1>6, <2>1, ClientMoves
  <2> QED BY <1>5, <2>1, <2>2, <2>3
<1>9. Going(e, OutboundCount(id), stored[id], had)
  BY <1>3 DEF OutboundInv
<1>10. had \in BOOLEAN /\ Holds(published, Free.msg) \in BOOLEAN
  BY DEF Holds
<1>11. /\ UnderWay(e, stored[id], had, type)
       /\ \A t \in PacketType : OutboundCount(id)[t] = IF t = type THEN 1 ELSE 0
  <2> HIDE DEF e, had
  <2> QED BY <1>4, <1>5, <1>9, <1>10, AtHand
<1>12. stored[id] = 0
  BY <1>11 DEF UnderWay
<1>13. outboundMsgs' = [outboundMsgs EXCEPT ![id] = Free]
  BY <1>1, <1>11 DEF UnderWay
<1>14. outboundMsgs'[id] = Free /\ \A j \in MsgId : j # id => outboundMsgs'[j] = outboundMsgs[j]
  BY <1>3, <1>7, <1>13
<1>15. Going(Free, OutboundCount(id)', 0, Holds(published, Free.msg))
  <2> HIDE DEF e, had
  <2> QED BY <1>4, <1>5, <1>8, <1>9, <1>10, Ended
<1>16. Fits(toBroker', outboundMsgs')
  <2>1. ASSUME NEW x, Holds(toBroker', x), x.type = "PUBLISH", x.id # 0
        PROVE  x.qos = outboundMsgs'[x.id].qos /\ x.msg = outboundMsgs'[x.id].msg
    <3>1. Holds(toBroker, x) /\ x \in BrokerPacket
      BY <1>1, <2>1, Sequences, HoldsFacts DEF socket
    <3>2. x.qos = outboundMsgs[x.id].qos /\ x.msg = outboundMsgs[x.id].msg
      BY <2>1, <3>1 DEF OutboundInv, Fits
    <3>3. x.id \in MsgId
      BY <2>1, <3>1 DEF BrokerPacket, AckPacket, Numbered, Publication
    <3>4. x.id # id
      BY <1>3, <1>4, <1>11, <2>1, <3>1, PublishCount
    <3> QED BY <1>14, <3>2, <3>3, <3>4
  <2> QED BY <2>1 DEF Fits
<1>17. OutboundInv'
  <2>1. Going(outboundMsgs'[id], OutboundCount(id)', stored'[id],
              Holds(published', outboundMsgs'[id].msg))
    BY <1>1, <1>12, <1>14, <1>15
  <2>2. /\ \A j \in MsgId : j # id =>
             /\ \A t \in PacketType : OutboundCount(j)'[t] = OutboundCount(j)[t]
             /\ outboundMsgs'[j] = outboundMsgs[j] /\ stored'[j] = stored[j]
        /\ \A m : Holds(published, m) => Holds(published', m)
    BY <1>1, <1>8, <1>14
  <2> QED BY <1>16, <2>1, <2>2, OutboundMoved
<1>18. InboundInv'
  BY <1>1, <1>8, TakeHolds, InboundSame
<1> QED BY <1>17, <1>18

-----------------------------------------------------------------------------
(* The broker reads a packet *)

LEMMA ReadPassed ==
  ASSUME TypeOK, BrokerReads, NEW p, p = Head(toBroker)
  PROVE  /\ p \in BrokerPacket /\ p.type \in PacketType /\ Holds(toBroker, p)
         /\ IF p.type = "PUBLISH" /\ p.qos = 0 THEN p.id = 0 ELSE p.id \in MsgId
         /\ \A q : Holds(toBroker', q) => Holds(toBroker, q)
         /\ UNCHANGED toClient => BrokerPassed(p, Nothing)
         /\ \A q \in AckPacket : toClient' = Append(toClient, q) =>
              /\ BrokerPassed(p, q)
              /\ \A x : Holds(toClient', x) /\ x.type = "PUBLISH" => Holds(toClient, x)
         /\ p.id \in MsgId => /\ InboundCount(p.id)[p.type] # 0 \/ Forth(p.type)
                              /\ OutboundCount(p.id)[p.type] # 0 \/ ~Forth(p.type)
<1>1. toBroker # <<>> /\ toBroker' = Tail(toBroker)
  BY DEF BrokerReads, TypeOK
<1>2. /\ toBroker \in Seq(BrokerPacket) /\ toClient \in Seq(ClientPacket)
      /\ outboundQueue \in Seq(BrokerPacket)
  BY Sequences
<1>3. p \in BrokerPacket /\ Holds(toBroker, p) /\ \A q : Holds(toBroker', q) => Holds(toBroker, q)
  BY <1>1, <1>2, HoldsFacts
<1>4. /\ p.type \in PacketType
      /\ IF p.type = "PUBLISH" /\ p.qos = 0 THEN p.id = 0 ELSE p.id \in MsgId
  <2>1. outs \in Nat
    BY DEF TypeOK
  <2>2. p.type \in PacketType
    BY <1>3 DEF BrokerPacket, AckPacket, Publication, Numbered, PacketType
  <2> QED BY <1>3, <2>1, <2>2, PacketFacts DEF BrokerPacket
<1>5. \A t \in PacketType : \A id : Matches(t, id, Nothing) = 0
  BY DEF Matches, Nothing, Ack, PacketType, AckType
<1>6. ASSUME UNCHANGED toClient PROVE BrokerPassed(p, Nothing)
  <2>1. ASSUME NEW t \in PacketType, NEW id \in MsgId
        PROVE  /\ Outward(t, id) = Outward(t, id)' + Matches(t, id, p)
               /\ Inward(t, id)' = Inward(t, id) + 0
    BY <1>6, BrokerTookCount, SameCount, CountsType
  <2> QED BY <1>5, <2>1 DEF BrokerPassed
<1>7. ASSUME NEW q \in AckPacket, toClient' = Append(toClient, q)
      PROVE  /\ BrokerPassed(p, q)
             /\ \A x : Holds(toClient', x) /\ x.type = "PUBLISH" => Holds(toClient, x)
  <2>1. ClientPacket \subseteq ClientPacket /\ q \in ClientPacket /\ q.type # "PUBLISH"
    BY DEF ClientPacket, AckPacket, AckType
  <2>2. BrokerPassed(p, q)
    BY <1>7, <2>1, BrokerTookCount, AnswerCount DEF BrokerPassed
  <2>3. ASSUME NEW x, Holds(toClient', x), x.type = "PUBLISH" PROVE Holds(toClient, x)
    BY <1>2, <1>7, <2>1, <2>3, AppendHolds
  <2> QED BY <2>2, <2>3
<1>8. Outward(p.type, p.id) # 0
  <2>1. Count(p.type, p.id, toBroker) # 0
    BY <1>2, <1>3, HoldsCount
  <2>2. Count(p.type, p.id, toBroker) \in Nat /\ Count(p.type, p.id, outboundQueue) \in Nat
    BY <1>2, CountType
  <2> QED BY <2>1, <2>2, Counts
<1>9. p.id \in MsgId => /\ InboundCount(p.id)[p.type] # 0 \/ Forth(p.type)
                        /\ OutboundCount(p.id)[p.type] # 0 \/ ~Forth(p.type)
  BY <1>4, <1>8, Directions
<1> QED BY <1>3, <1>4, <1>6, <1>7, <1>9

LEMMA BrokerOutbound ==
  ASSUME TypeOK, TypeOK', InboundInv, OutboundInv, BrokerReads,
         NEW type, Forth(type), NEW id \in MsgId, Head(toBroker).id = id,
         Head(toBroker).type = type, NEW to, Back(to), toClient' = Append(toClient, Ack(to, id)),
         UNCHANGED <<sending, inboundMsgs, received, outboundMsgs>>,
         \A j \in MsgId : j # id => stored'[j] = stored[j],
         \A m : Holds(published, m) => Holds(published', m),
         UnderWay(outboundMsgs[id], stored[id], Holds(published, outboundMsgs[id].msg), type)
             /\ outboundMsgs[id].msg # 0
           => UnderWay(outboundMsgs[id], stored'[id], Holds(published', outboundMsgs[id].msg), to)
  PROVE  InboundInv' /\ OutboundInv'
<1>0. PICK p : p = Head(toBroker)
  OBVIOUS
<1> DEFINE q == Ack(to, id)
<1>1. p.id = id /\ p.type = type /\ id \in MsgId /\ OutboundCount(id)[type] # 0
  BY <1>0, ReadPassed
<1>2. q \in AckPacket /\ q.type = to /\ q.id = id /\ type \in PacketType /\ to \in PacketType
  BY <1>1, AckTypes DEF Ack, Back, Forth, AckType, PacketType
<1> HIDE DEF q
<1>3. BrokerPassed(p, q) /\ \A x : Holds(toClient', x) /\ x.type = "PUBLISH" => Holds(toClient, x)
  BY <1>0, <1>2, ReadPassed DEF q
<1>4. /\ Moved(OutboundCount(id), OutboundCount(id)', type, to)
      /\ \A j \in MsgId, t \in PacketType :
           /\ j # id => OutboundCount(j)'[t] = OutboundCount(j)[t]
           /\ InboundCount(j)'[t] = InboundCount(j)[t]
  <2>1. Forth(p.type) /\ Back(q.type)
    BY <1>1, <1>2
  <2>2. Moved(OutboundCount(id), OutboundCount(id)', p.type, q.type)
    BY <1>1, <1>2, <1>3, <2>1, BrokerMoves
  <2>3. \A j \in MsgId, t \in PacketType :
           /\ j # id => OutboundCount(j)'[t] = OutboundCount(j)[t]
           /\ InboundCount(j)'[t] = InboundCount(j)[t]
    BY <1>1, <1>2, <1>3, <2>1, BrokerMoves
  <2> QED BY <1>1, <1>2, <2>2, <2>3
<1>5. type # to
  BY DEF Forth, Back
<1>6. Going(outboundMsgs[id], OutboundCount(id), stored[id], Holds(published, outboundMsgs[id].msg))
  BY <1>1 DEF OutboundInv
<1>7. /\ Holds(published, outboundMsgs[id].msg) \in BOOLEAN
      /\ Holds(published', outboundMsgs[id].msg) \in BOOLEAN
  BY DEF Holds
<1>8. /\ outboundMsgs[id].msg # 0
      /\ UnderWay(outboundMsgs[id], stored[id], Holds(published, outboundMsgs[id].msg), type)
  BY <1>1, <1>2, <1>6, <1>7, AtHand
<1>9. Going(outboundMsgs[id], OutboundCount(id)', stored'[id],
            Holds(published', outboundMsgs[id].msg))
  BY <1>1, <1>2, <1>4, <1>5, <1>6, <1>7, <1>8, Onward
<1>10. Fits(toBroker', outboundMsgs')
  BY <1>0, ReadPassed DEF Fits, OutboundInv
<1>11. OutboundInv'
  BY <1>4, <1>9, <1>10, OutboundMoved
<1>12. InboundInv'
  BY <1>3, <1>4, InboundSame
<1> QED BY <1>11, <1>12

Releasing(id) ==
  /\ UNCHANGED <<inboundMsgs, received, outboundMsgs, stored, published>>
  /\ toClient' = Append(toClient, Ack("PUBREL", id))
  /\ sending' = [sending EXCEPT ![id] = IF @.next = "PUBREC"
                                        THEN [@ EXCEPT !.next = "PUBCOMP"] ELSE @]
Ending(id, type) ==
  /\ UNCHANGED <<toClient, inboundMsgs, received, outboundMsgs, stored, published>>
  /\ sending' = [sending EXCEPT ![id] = IF @.next = type THEN Free ELSE @]

\* PUBREC of the client: the exchange goes on.
LEMMA BrokerReleases ==
  ASSUME TypeOK, TypeOK', InboundInv, OutboundInv, BrokerReads,
         NEW id, Head(toBroker).id = id, Head(toBroker).type = "PUBREC",
         Releasing(id)
  PROVE  InboundInv' /\ OutboundInv'
<1>0. PICK p : p = Head(toBroker)
  OBVIOUS
<1> DEFINE q == Ack("PUBREL", id)
           e == sending[id]
           had == Holds(received, e.msg)
<1>1. /\ ~Forth("PUBREC") /\ Back("PUBREC") /\ Forth("PUBREL") /\ "PUBREC" # "PUBREL"
      /\ "PUBREC" \in PacketType /\ "PUBREL" \in PacketType /\ "PUBREL" \in AckType
  BY DEF Forth, Back, PacketType, AckType
<1>2. p.id = id /\ p.type = "PUBREC" /\ id \in MsgId /\ InboundCount(id)["PUBREC"] # 0
  BY <1>0, <1>1, ReadPassed
<1>3. q \in AckPacket /\ q.type = "PUBREL" /\ q.id = id
  BY <1>1, <1>2, AckTypes DEF Ack
<1> HIDE DEF q
<1>4. BrokerPassed(p, q) /\ \A x : Holds(toClient', x) /\ x.type = "PUBLISH" => Holds(toClient, x)
  BY <1>0, <1>3, ReadPassed DEF q, Releasing
<1>5. /\ Moved(InboundCount(id), InboundCount(id)', "PUBREC", "PUBREL")
      /\ \A j \in MsgId, t \in PacketType :
           /\ j # id => InboundCount(j)'[t] = InboundCount(j)[t]
           /\ OutboundCount(j)'[t] = OutboundCount(j)[t]
  <2>1. Back(p.type) /\ Forth(q.type)
    BY <1>1, <1>2, <1>3
  <2> HIDE DEF e, had
  <2>2. Moved(InboundCount(id), InboundCount(id)', p.type, q.type)
    BY <1>2, <1>3, <1>4, <2>1, BrokerMoves
  <2>3. \A j \in MsgId, t \in PacketType :
           /\ j # id => InboundCount(j)'[t] = InboundCount(j)[t]
           /\ OutboundCount(j)'[t] = OutboundCount(j)[t]
    BY <1>2, <1>3, <1>4, <2>1, BrokerMoves
  <2> QED BY <1>2, <1>3, <2>2, <2>3
<1>6. sending \in [MsgId -> Exchange(ins)] /\ e \in Exchange(ins)
  BY <1>2 DEF TypeOK
<1>7. Going(e, InboundCount(id), inboundMsgs[id], had) /\ had \in BOOLEAN
  BY <1>2 DEF InboundInv, Holds
<1>8. e.msg # 0 /\ UnderWay(e, inboundMsgs[id], had, "PUBREC")
  <2> HIDE DEF e, had
  <2> QED BY <1>1, <1>2, <1>7, AtHand
<1> DEFINE e2 == [e EXCEPT !.next = "PUBCOMP"]
<1>9. sending' = [sending EXCEPT ![id] = e2]
  BY <1>8 DEF UnderWay, Releasing
<1>10. e2.msg = e.msg /\ e2.qos = e.qos /\ e2.next = "PUBCOMP"
  BY <1>6 DEF Exchange
<1>11. sending'[id] = e2 /\ \A j \in MsgId : j # id => sending'[j] = sending[j]
  BY <1>2, <1>6, <1>9
<1> HIDE DEF e2
<1>12. UnderWay(e2, inboundMsgs[id], had, "PUBREL")
  BY <1>8, <1>10 DEF UnderWay
<1>13. Going(e2, InboundCount(id)', inboundMsgs[id], had)
  <2> HIDE DEF e, had
  <2> QED BY <1>1, <1>2, <1>5, <1>7, <1>8, <1>10, <1>12, Onward
<1>14. Fits(toClient', sending')
  <2>1. ASSUME NEW x, Holds(toClient', x), x.type = "PUBLISH", x.id # 0
        PROVE  x.qos = sending'[x.id].qos /\ x.msg = sending'[x.id].msg
    <3>1. Holds(toClient, x)
      BY <1>4, <2>1
    <3>2. x \in ClientPacket
      BY <3>1, Sequences, HoldsFacts
    <3>3. x.qos = sending[x.id].qos /\ x.msg = sending[x.id].msg
      BY <2>1, <3>1 DEF InboundInv, Fits
    <3>4. x.id \in MsgId
      BY <2>1, <3>2 DEF ClientPacket, AckPacket, Numbered, Publication
    <3> QED BY <1>10, <1>11, <3>3, <3>4
  <2> QED BY <2>1 DEF Fits
<1>15. InboundInv'
  <2>1. Going(sending'[id], InboundCount(id)', inboundMsgs'[id], Holds(received', sending'[id].msg))
    BY <1>10, <1>11, <1>13 DEF Releasing
  <2>2. \A j \in MsgId : j # id =>
          /\ \A t \in PacketType : InboundCount(j)'[t] = InboundCount(j)[t]
          /\ sending'[j] = sending[j] /\ inboundMsgs'[j] = inboundMsgs[j]
    BY <1>5, <1>11 DEF Releasing
  <2>3. \A m : Holds(received, m) => Holds(received', m)
    BY DEF Releasing
  <2> QED BY <1>14, <2>1, <2>2, <2>3, InboundMoved
<1>16. OutboundInv'
  BY <1>0, <1>5, ReadPassed, OutboundSame2 DEF Releasing
<1> QED BY <1>15, <1>16

\* PUBACK and PUBCOMP of the client: the exchange ends.
LEMMA BrokerEnds ==
  ASSUME TypeOK, TypeOK', InboundInv, OutboundInv, BrokerReads,
         NEW id, Head(toBroker).id = id, NEW type \in {"PUBACK", "PUBCOMP"},
         Head(toBroker).type = type, Ending(id, type)
  PROVE  InboundInv' /\ OutboundInv'
<1>0. PICK p : p = Head(toBroker)
  OBVIOUS
<1> DEFINE e == sending[id]
           had == Holds(received, e.msg)
<1>1. /\ ~Forth(type) /\ Back(type) /\ type \in PacketType
      /\ Nothing.type = "none" /\ "PUBLISH" \in PacketType /\ "PUBLISH" # type
  BY DEF Forth, Back, PacketType, AckType, Nothing, Ack
<1>2. p.id = id /\ p.type = type /\ id \in MsgId /\ InboundCount(id)[type] # 0
  BY <1>0, <1>1, ReadPassed
<1>3. BrokerPassed(p, Nothing)
  BY <1>0, ReadPassed DEF Ending
<1>4. /\ Moved(InboundCount(id), InboundCount(id)', type, "none")
      /\ \A j \in MsgId, t \in PacketType :
           /\ j # id => InboundCount(j)'[t] = InboundCount(j)[t]
           /\ OutboundCount(j)'[t] = OutboundCount(j)[t]
  <2>1. Back(p.type) /\ Nothing.type = "none"
    BY <1>1, <1>2
  <2> HIDE DEF e, had
  <2>2. Moved(InboundCount(id), InboundCount(id)', p.type, Nothing.type)
    BY <1>2, <1>3, <2>1, BrokerMoves
  <2>3. \A j \in MsgId, t \in PacketType :
           /\ j # id => InboundCount(j)'[t] = InboundCount(j)[t]
           /\ OutboundCount(j)'[t] = OutboundCount(j)[t]
    BY <1>2, <1>3, <2>1, BrokerMoves
  <2> QED BY <1>2, <2>1, <2>2, <2>3
<1>5. sending \in [MsgId -> Exchange(ins)]
  BY DEF TypeOK
<1>6. /\ Going(e, InboundCount(id), inboundMsgs[id], had) /\ had \in BOOLEAN
      /\ Holds(received, Free.msg) \in BOOLEAN
  BY <1>2 DEF InboundInv, Holds
<1>7. /\ UnderWay(e, inboundMsgs[id], had, type)
      /\ \A t \in PacketType : InboundCount(id)[t] = IF t = type THEN 1 ELSE 0
  <2> HIDE DEF e, had
  <2> QED BY <1>1, <1>2, <1>6, AtHand
<1>8. inboundMsgs[id] = 0 /\ had
  BY <1>7 DEF UnderWay
<1>9. sending' = [sending EXCEPT ![id] = Free]
  BY <1>7 DEF UnderWay, Ending
<1>10. sending'[id] = Free /\ \A j \in MsgId : j # id => sending'[j] = sending[j]
  BY <1>2, <1>5, <1>9
<1>11. Going(Free, InboundCount(id)', 0, Holds(received, Free.msg))
  <2> HIDE DEF e, had
  <2> QED BY <1>1, <1>2, <1>4, <1>6, Ended
<1>12. Fits(toClient', sending')
  <2>1. ASSUME NEW x, Holds(toClient', x), x.type = "PUBLISH", x.id # 0
        PROVE  x.qos = sending'[x.id].qos /\ x.msg = sending'[x.id].msg
    <3>1. Holds(toClient, x)
      BY <2>1 DEF Ending
    <3>2. x \in ClientPacket
      BY <3>1, Sequences, HoldsFacts
    <3>3. x.qos = sending[x.id].qos /\ x.msg = sending[x.id].msg
      BY <2>1, <3>1 DEF InboundInv, Fits
    <3>4. x.id \in MsgId
      BY <2>1, <3>2 DEF ClientPacket, AckPacket, Numbered, Publication
    <3>5. x.id # id
      BY <1>1, <1>2, <1>7, <2>1, <3>1, PublishCount
    <3> QED BY <1>10, <3>3, <3>4, <3>5
  <2> QED BY <2>1 DEF Fits
<1>13. InboundInv'
  <2>1. Going(sending'[id], InboundCount(id)', inboundMsgs'[id], Holds(received', sending'[id].msg))
    BY <1>8, <1>10, <1>11 DEF Ending
  <2>2. \A j \in MsgId : j # id =>
          /\ \A t \in PacketType : InboundCount(j)'[t] = InboundCount(j)[t]
          /\ sending'[j] = sending[j] /\ inboundMsgs'[j] = inboundMsgs[j]
    BY <1>4, <1>10 DEF Ending
  <2>3. \A m : Holds(received, m) => Holds(received', m)
    BY DEF Ending
  <2> QED BY <1>12, <2>1, <2>2, <2>3, InboundMoved
<1>14. OutboundInv'
  BY <1>0, <1>4, ReadPassed, OutboundSame2 DEF Ending
<1> QED BY <1>13, <1>14

\* A publication with QoS 0 belongs to no exchange.
LEMMA BrokerPublishes ==
  ASSUME TypeOK, TypeOK', InboundInv, OutboundInv, BrokerReads, Head(toBroker).id = 0,
         Head(toBroker).type = "PUBLISH",
         UNCHANGED <<toClient, inboundMsgs, received, outboundMsgs, sending, stored>>,
         \A m : Holds(published, m) => Holds(published', m)
  PROVE  InboundInv' /\ OutboundInv'
<1>0. PICK p : p = Head(toBroker)
  OBVIOUS
<1>1. /\ 0 \notin MsgId /\ Nothing.type = "none" /\ Forth(p.type)
  BY <1>0 DEF MsgId, Nothing, Ack, Forth
<1>2. BrokerPassed(p, Nothing)
  BY <1>0, ReadPassed
<1>3. \A j \in MsgId, t \in PacketType :
        /\ OutboundCount(j)'[t] = OutboundCount(j)[t]
        /\ InboundCount(j)'[t] = InboundCount(j)[t]
  BY <1>0, <1>1, <1>2, BrokerMoves
<1>4. InboundInv'
  BY <1>3, InboundSame
<1>5. \A q : Holds(toBroker', q) => Holds(toBroker, q)
  BY <1>0, ReadPassed
<1>6. OutboundInv'
  BY <1>3, <1>5, OutboundSame2
<1> QED BY <1>4, <1>6

LEMMA BrokerReadsExchange ==
  ASSUME TypeOK, TypeOK', InboundInv, OutboundInv, BrokerReads
  PROVE  InboundInv' /\ OutboundInv'
<1>0. PICK p, id : p = Head(toBroker) /\ id = p.id
  OBVIOUS
<1>1. /\ p \in BrokerPacket /\ Holds(toBroker, p)
      /\ IF p.type = "PUBLISH" /\ p.qos = 0 THEN id = 0 ELSE id \in MsgId
  BY <1>0, ReadPassed
<1>2. /\ id \in MsgId => id # 0
      /\ p.type = "PUBLISH" => p.msg \in 1 .. outs
  <2>1. outs \in Nat
    BY DEF TypeOK
  <2> QED BY <1>1, <2>1, PacketFacts DEF MsgId, BrokerPacket
<1>3. p.type = "PUBLISH" /\ id \in MsgId
        => p.qos = outboundMsgs[id].qos /\ p.msg = outboundMsgs[id].msg
  BY <1>0, <1>1, <1>2 DEF OutboundInv, Fits
<1>4. /\ stored \in [MsgId -> 0 .. outs] /\ published \in Seq(1 .. outs)
      /\ id \in MsgId => stored[id] \in 0 .. outs
  BY DEF TypeOK
<1>5. /\ Forth("PUBLISH") /\ Forth("PUBREL") /\ Back("PUBACK") /\ Back("PUBREC") /\ Back("PUBCOMP")
  BY DEF Forth, Back
<1>6. UNCHANGED <<inboundMsgs, received, outboundMsgs>>
  BY DEF BrokerReads, outbound
<1>7. ASSUME NEW x \in 1 .. outs, published' = Append(published, x)
      PROVE  Holds(published', x) /\ \A m : Holds(published, m) => Holds(published', m)
  <2>1. ASSUME NEW m PROVE Holds(published', m) <=> Holds(published, m) \/ m = x
    BY <1>4, <1>7, AppendHolds
  <2> QED BY <2>1
<1>13. CASE p.type = "PUBLISH" /\ p.qos = 0 /\ published' = Append(published, p.msg)
            /\ UNCHANGED <<toClient, sending, stored>>
  <2>1. \A m : Holds(published, m) => Holds(published', m)
    BY <1>2, <1>7, <1>13
  <2>2. id = 0
    BY <1>1, <1>13
  <2> QED BY <1>0, <1>6, <1>13, <2>1, <2>2, BrokerPublishes
<1>8. CASE p.type = "PUBLISH" /\ p.qos = 1 /\ toClient' = Append(toClient, Ack("PUBACK", id))
           /\ published' = Append(published, p.msg) /\ UNCHANGED <<sending, stored>>
  <2>1. p.msg \in 1 .. outs /\ id \in MsgId
    BY <1>1, <1>2, <1>8
  <2>2. Holds(published', p.msg) /\ \A m : Holds(published, m) => Holds(published', m)
    BY <1>7, <1>8, <2>1
  <2>3. UnderWay(outboundMsgs[id], stored[id], Holds(published, outboundMsgs[id].msg), "PUBLISH")
          => UnderWay(outboundMsgs[id], stored'[id], Holds(published', outboundMsgs[id].msg),
                      "PUBACK")
    BY <1>3, <1>8, <2>1, <2>2 DEF UnderWay
  <2> QED BY <1>0, <1>5, <1>6, <1>8, <2>1, <2>2, <2>3, BrokerOutbound
<1>9. CASE p.type = "PUBLISH" /\ p.qos = 2 /\ toClient' = Append(toClient, Ack("PUBREC", id))
           /\ stored' = [stored EXCEPT ![id] = p.msg] /\ UNCHANGED <<sending, published>>
  <2>1. id \in MsgId /\ stored'[id] = p.msg /\ \A j \in MsgId : j # id => stored'[j] = stored[j]
    BY <1>1, <1>4, <1>9
  <2>2. UnderWay(outboundMsgs[id], stored[id], Holds(published, outboundMsgs[id].msg), "PUBLISH")
          => UnderWay(outboundMsgs[id], stored'[id], Holds(published', outboundMsgs[id].msg),
                      "PUBREC")
    BY <1>3, <1>9, <2>1 DEF UnderWay
  <2> QED BY <1>0, <1>5, <1>6, <1>9, <2>1, <2>2, BrokerOutbound
<1>10. CASE p.type = "PUBREL" /\ toClient' = Append(toClient, Ack("PUBCOMP", id))
            /\ stored' = [stored EXCEPT ![id] = 0] /\ UNCHANGED sending
            /\ published' = IF stored[id] = 0 THEN published ELSE Append(published, stored[id])
  <2>1. id \in MsgId /\ stored'[id] = 0 /\ \A j \in MsgId : j # id => stored'[j] = stored[j]
    BY <1>1, <1>4, <1>10
  <2>2. stored[id] # 0 => Holds(published', stored[id])
    BY <1>4, <1>7, <1>10, <2>1
  <2>3. \A m : Holds(published, m) => Holds(published', m)
    <3>1. CASE stored[id] = 0
      BY <1>10, <3>1
    <3>2. CASE stored[id] # 0
      <4>1. stored[id] \in 1 .. outs
        BY <1>4, <2>1, <3>2
      <4> QED BY <1>7, <1>10, <3>2, <4>1
    <3> QED BY <3>1, <3>2
  <2>4. UnderWay(outboundMsgs[id], stored[id], Holds(published, outboundMsgs[id].msg), "PUBREL")
            /\ outboundMsgs[id].msg # 0
          => UnderWay(outboundMsgs[id], stored'[id], Holds(published', outboundMsgs[id].msg),
                      "PUBCOMP")
    BY <2>1, <2>2 DEF UnderWay
  <2> QED BY <1>0, <1>5, <1>6, <1>10, <2>1, <2>3, <2>4, BrokerOutbound
<1>11. CASE p.type = "PUBREC" /\ Releasing(id)
  BY <1>0, <1>11, BrokerReleases
<1>12. CASE p.type \in {"PUBACK", "PUBCOMP"} /\ Ending(id, p.type)
  BY <1>0, <1>12, BrokerEnds
<1> QED
  <2>1. \/ p.type = "PUBREC" /\ Releasing(id)
        \/ p.type \in {"PUBACK", "PUBCOMP"} /\ Ending(id, p.type)
        \/ p.type = "PUBLISH" /\ p.qos = 0 /\ published' = Append(published, p.msg)
            /\ UNCHANGED <<toClient, sending, stored>>
        \/ p.type = "PUBLISH" /\ p.qos = 1 /\ toClient' = Append(toClient, Ack("PUBACK", id))
           /\ published' = Append(published, p.msg) /\ UNCHANGED <<sending, stored>>
        \/ p.type = "PUBLISH" /\ p.qos = 2 /\ toClient' = Append(toClient, Ack("PUBREC", id))
           /\ stored' = [stored EXCEPT ![id] = p.msg] /\ UNCHANGED <<sending, published>>
        \/ p.type = "PUBREL" /\ toClient' = Append(toClient, Ack("PUBCOMP", id))
           /\ stored' = [stored EXCEPT ![id] = 0] /\ UNCHANGED sending
           /\ published' = IF stored[id] = 0 THEN published ELSE Append(published, stored[id])
    BY <1>0 DEF BrokerReads, Releasing, Ending, outbound
  <2> QED BY <1>8, <1>9, <1>10, <1>11, <1>12, <1>13, <2>1

-----------------------------------------------------------------------------
(* Publications begin, the queue is written, the connection is lost *)

\* Every command that has an id has one of its own that no exchange has.
CommandsInv ==
  /\ \A j, k \in 1 .. Len(commands) :
       j # k /\ commands[j].id # 0 => commands[j].id # commands[k].id
  /\ \A k \in 1 .. Len(commands) : commands[k].id # 0 => outboundMsgs[commands[k].id] = Free

LEMMA NoIdZero == 0 \notin MsgId
BY DEF MsgId

LEMMA ForwardExchange ==
  ASSUME TypeOK, TypeOK', InboundInv, OutboundInv, NEW qos \in Qos, Forward(qos)
  PROVE  InboundInv' /\ OutboundInv'
<1>1. /\ UNCHANGED <<toBroker, outboundQueue, inboundMsgs, received, outboundMsgs, stored,
                     published>>
      /\ ins \in Nat /\ qos \in 0 .. 2
  BY Bounds DEF Forward, socket, outbound, TypeOK
<1>2. /\ 0 \notin MsgId /\ Nothing.type = "none" /\ Forth("PUBLISH")
  BY DEF MsgId, Nothing, Ack, Forth
<1>3. ASSUME NEW q \in Publication(ins + 1), toClient' = Append(toClient, q)
      PROVE  /\ BrokerPassed(Nothing, q)
             /\ \A x : Holds(toClient', x) => Holds(toClient, x) \/ x = q
  <2>1. /\ ClientPacket \subseteq AckPacket \cup Publication(ins + 1)
        /\ q \in AckPacket \cup Publication(ins + 1)
    BY <1>1, Growth DEF ClientPacket
  <2>2. ASSUME NEW t \in PacketType, NEW id \in MsgId
        PROVE  /\ Inward(t, id)' = Inward(t, id) + Matches(t, id, q)
               /\ Outward(t, id) = Outward(t, id)' + Matches(t, id, Nothing)
    <3>1. Matches(t, id, Nothing) = 0
      BY DEF Matches, Nothing, Ack, PacketType, AckType
    <3>2. Outward(t, id) = Outward(t, id)' + 0
      BY <1>1, SameCount, CountsType
    <3> QED BY <1>3, <2>1, <3>1, <3>2, AnswerCount
  <2>3. ASSUME NEW x, Holds(toClient', x) PROVE Holds(toClient, x) \/ x = q
    <3>1. toClient \in Seq(AckPacket \cup Publication(ins + 1))
      BY <2>1, Sequences, SeqSubset
    <3> QED BY <1>3, <2>1, <2>3, <3>1, AppendHolds
  <2> QED BY <2>2, <2>3 DEF BrokerPassed
<1>4. CASE qos = 0
  <2>1. PICK q : q = Publish(0, ins + 1, 0)
    OBVIOUS
  <2>2. toClient' = Append(toClient, q) /\ UNCHANGED sending
    BY <1>4, <2>1 DEF Forward
  <2>3. q \in Publication(ins + 1) /\ q.id = 0 /\ q.type = "PUBLISH"
    BY <1>1, <2>1, Growth DEF Publish, Publication
  <2>4. \A j \in MsgId, t \in PacketType :
          /\ InboundCount(j)'[t] = InboundCount(j)[t] /\ OutboundCount(j)'[t] = OutboundCount(j)[t]
    <3>1. BrokerPassed(Nothing, q) /\ Forth(q.type)
      BY <1>2, <1>3, <2>2, <2>3
    <3>2. \A j \in MsgId, t \in PacketType :
             /\ j # 0 => InboundCount(j)'[t] = InboundCount(j)[t]
             /\ OutboundCount(j)'[t] = OutboundCount(j)[t]
      BY <1>2, <2>3, <3>1, BrokerMoves
    <3> QED BY <1>2, <3>2
  <2>5. InboundInv'
    BY <1>1, <1>3, <2>2, <2>3, <2>4, InboundSame
  <2>6. OutboundInv'
    BY <1>1, <2>4, OutboundSame2
  <2> QED BY <2>5, <2>6
<1>5. CASE qos # 0
  <2>1. PICK id \in MsgId :
          /\ sending[id] = Free /\ toClient' = Append(toClient, Publish(id, ins + 1, qos))
          /\ sending' = [sending EXCEPT
               ![id] = [msg |-> ins + 1, qos |-> qos,
                        next |-> IF qos = 1 THEN "PUBACK" ELSE "PUBREC"]]
    BY <1>5 DEF Forward
  <2>2. PICK q, e2 : /\ q = Publish(id, ins + 1, qos)
                     /\ e2 = [msg |-> ins + 1, qos |-> qos,
                              next |-> IF qos = 1 THEN "PUBACK" ELSE "PUBREC"]
    OBVIOUS
  <2>3. /\ q \in Publication(ins + 1) /\ q.id = id /\ q.type = "PUBLISH"
        /\ q.msg = e2.msg /\ q.qos = e2.qos
        /\ e2.msg # 0 /\ \A had : UnderWay(e2, 0, had, "PUBLISH")
    <3>1. qos \in {1, 2} /\ ins + 1 \in 1 .. ins + 1 /\ ins + 1 # 0
      BY <1>1, <1>5
    <3> QED BY <2>2, <3>1 DEF Publish, Publication, Numbered, UnderWay
  <2>4. /\ Moved(InboundCount(id), InboundCount(id)', "none", "PUBLISH")
        /\ \A j \in MsgId, t \in PacketType :
             /\ j # id => InboundCount(j)'[t] = InboundCount(j)[t]
             /\ OutboundCount(j)'[t] = OutboundCount(j)[t]
    <3>1. BrokerPassed(Nothing, q)
      BY <1>3, <2>1, <2>2, <2>3
    <3>2. Forth(q.type)
      BY <1>2, <2>3
    <3>3. Moved(InboundCount(id), InboundCount(id)', Nothing.type, q.type)
      BY <1>2, <2>3, <3>1, <3>2, BrokerMoves
    <3>4. \A j \in MsgId, t \in PacketType :
             /\ j # id => InboundCount(j)'[t] = InboundCount(j)[t]
             /\ OutboundCount(j)'[t] = OutboundCount(j)[t]
      BY <1>2, <2>3, <3>1, <3>2, BrokerMoves
    <3> QED BY <1>2, <2>3, <3>3, <3>4
  <2>5. /\ sending'[id] = e2 /\ \A j \in MsgId : j # id => sending'[j] = sending[j]
    BY <2>1, <2>2 DEF TypeOK
  <2>6. /\ Going(Free, InboundCount(id), inboundMsgs[id], Holds(received, Free.msg))
        /\ Holds(received, Free.msg) \in BOOLEAN /\ Holds(received', e2.msg) \in BOOLEAN
    BY <2>1 DEF InboundInv, Holds
  <2>7. /\ Going(e2, InboundCount(id)', 0, Holds(received', e2.msg))
        /\ inboundMsgs[id] = 0 /\ InboundCount(id)["PUBLISH"] = 0
    BY <2>3, <2>4, <2>6, Begun
  <2>8. Fits(toClient', sending')
    <3>1. ASSUME NEW x, Holds(toClient', x), x.type = "PUBLISH", x.id # 0
          PROVE  x.qos = sending'[x.id].qos /\ x.msg = sending'[x.id].msg
      <4>1. Holds(toClient, x) \/ x = q
        BY <1>3, <2>1, <2>2, <2>3, <3>1
      <4>2. CASE x = q
        BY <2>3, <2>5, <4>2
      <4>3. CASE Holds(toClient, x)
        <5>1. x \in ClientPacket
          BY <4>3, Sequences, HoldsFacts
        <5>2. x.qos = sending[x.id].qos /\ x.msg = sending[x.id].msg
          BY <3>1, <4>3 DEF InboundInv, Fits
        <5>3. x.id \in MsgId
          BY <3>1, <5>1 DEF ClientPacket, AckPacket, Numbered, Publication
        <5>4. x.id # id
          BY <2>7, <3>1, <4>3, PublishCount
        <5> QED BY <2>5, <5>2, <5>3, <5>4
      <4> QED BY <4>1, <4>2, <4>3
    <3> QED BY <3>1 DEF Fits
  <2>9. InboundInv'
    <3>1. Going(sending'[id], InboundCount(id)', inboundMsgs'[id],
                Holds(received', sending'[id].msg))
      BY <1>1, <2>5, <2>7
    <3>2. \A j \in MsgId : j # id =>
            /\ \A t \in PacketType : InboundCount(j)'[t] = InboundCount(j)[t]
            /\ sending'[j] = sending[j] /\ inboundMsgs'[j] = inboundMsgs[j]
      BY <1>1, <2>4, <2>5
    <3>3. \A m : Holds(received, m) => Holds(received', m)
      BY <1>1
    <3> QED BY <2>8, <3>1, <3>2, <3>3, InboundMoved
  <2>10. OutboundInv'
    BY <1>1, <2>4, OutboundSame2
  <2> QED BY <2>9, <2>10
<1> QED BY <1>4, <1>5

LEMMA StartPublishExchange ==
  ASSUME TypeOK, TypeOK', InboundInv, OutboundInv, CommandsInv, StartPublish
  PROVE  InboundInv' /\ OutboundInv'
<1>1. PICK p, e2 :
        /\ p = Head(commands) /\ commands # <<>> /\ Write(p) /\ p.qos > 0
        /\ e2 = [msg |-> p.msg, qos |-> p.qos,
                 next |-> IF p.qos = 1 THEN "PUBACK" ELSE "PUBREC"]
        /\ outboundMsgs' = [outboundMsgs EXCEPT ![p.id] = e2]
        /\ UNCHANGED <<toClient, inboundMsgs, received, sending, stored, published>>
  BY DEF StartPublish, TakeCommand, broker
<1>2. PICK id : id = p.id
  OBVIOUS
<1>3. commands \in Seq(Publication(outs)) /\ outboundMsgs \in [MsgId -> Exchange(outs)]
  BY DEF TypeOK
<1>4. p \in Numbered(outs) /\ p \in BrokerPacket
  <2>1. p \in Publication(outs)
    BY <1>1, <1>3, HeadTail
  <2>2. p \in Numbered(outs)
    BY <1>1, <2>1 DEF Publication
  <2> QED BY <2>1, <2>2 DEF BrokerPacket
<1>5. /\ id \in MsgId /\ p.type = "PUBLISH" /\ p.id = id /\ p.msg = e2.msg /\ p.qos = e2.qos
      /\ e2.msg # 0 /\ \A had : UnderWay(e2, 0, had, "PUBLISH")
  BY <1>1, <1>2, <1>4 DEF Numbered, UnderWay
<1>6. outboundMsgs[id] = Free
  <2>1. 1 \in 1 .. Len(commands) /\ commands[1] = p
    BY <1>1, <1>3
  <2> QED BY <1>5, <2>1, NoIdZero DEF CommandsInv
<1>7. ClientPassed(Nothing, p)
  <2>1. ASSUME NEW t \in PacketType, NEW j \in MsgId
        PROVE  /\ Inward(t, j) = Inward(t, j)' + Matches(t, j, Nothing)
               /\ Outward(t, j)' = Outward(t, j) + Matches(t, j, p)
    <3>1. Matches(t, j, Nothing) = 0
      BY DEF Matches, Nothing, Ack, PacketType, AckType
    <3>2. Inward(t, j) = Inward(t, j)' + 0
      BY <1>1, SameCount, CountsType
    <3> QED BY <1>1, <1>4, <3>1, <3>2, WriteCount
  <2> QED BY <2>1 DEF ClientPassed
<1>8. /\ Moved(OutboundCount(id), OutboundCount(id)', "none", "PUBLISH")
      /\ \A j \in MsgId, t \in PacketType :
           /\ j # id => OutboundCount(j)'[t] = OutboundCount(j)[t]
           /\ InboundCount(j)'[t] = InboundCount(j)[t]
  <2>1. Forth(p.type) /\ Nothing.type = "none"
    BY <1>5 DEF Forth, Nothing, Ack
  <2>2. Moved(OutboundCount(id), OutboundCount(id)', Nothing.type, p.type)
    BY <1>5, <1>7, <2>1, ClientMoves
  <2>3. \A j \in MsgId, t \in PacketType :
           /\ j # id => OutboundCount(j)'[t] = OutboundCount(j)[t]
           /\ InboundCount(j)'[t] = InboundCount(j)[t]
    BY <1>5, <1>7, <2>1, ClientMoves
  <2> QED BY <1>5, <2>1, <2>2, <2>3
<1>9. outboundMsgs'[id] = e2 /\ \A j \in MsgId : j # id => outboundMsgs'[j] = outboundMsgs[j]
  BY <1>1, <1>2, <1>3, <1>5
<1>10. /\ Going(Free, OutboundCount(id), stored[id], Holds(published, Free.msg))
       /\ Holds(published, Free.msg) \in BOOLEAN /\ Holds(published', e2.msg) \in BOOLEAN
  BY <1>5, <1>6 DEF OutboundInv, Holds
<1>11. /\ Going(e2, OutboundCount(id)', 0, Holds(published', e2.msg))
       /\ stored[id] = 0 /\ OutboundCount(id)["PUBLISH"] = 0
  BY <1>5, <1>8, <1>10, Begun
<1>12. Fits(toBroker', outboundMsgs')
  <2>1. ASSUME NEW x, Holds(toBroker', x), x.type = "PUBLISH", x.id # 0
        PROVE  x.qos = outboundMsgs'[x.id].qos /\ x.msg = outboundMsgs'[x.id].msg
    <3>1. toBroker \in Seq(BrokerPacket) /\ toBroker' = Append(toBroker, p)
      BY <1>1, Sequences DEF Write
    <3>2. Holds(toBroker, x) \/ x = p
      BY <1>4, <2>1, <3>1, AppendHolds
    <3>3. CASE x = p
      BY <1>5, <1>9, <3>3
    <3>4. CASE Holds(toBroker, x)
      <4>1. x \in BrokerPacket
        BY <3>1, <3>4, HoldsFacts
      <4>2. x.qos = outboundMsgs[x.id].qos /\ x.msg = outboundMsgs[x.id].msg
        BY <2>1, <3>4 DEF OutboundInv, Fits
      <4>3. x.id \in MsgId
        BY <2>1, <4>1 DEF BrokerPacket, AckPacket, Numbered, Publication
      <4>4. x.id # id
        BY <1>5, <1>11, <2>1, <3>4, PublishCount
      <4> QED BY <1>9, <4>2, <4>3, <4>4
    <3> QED BY <3>2, <3>3, <3>4
  <2> QED BY <2>1 DEF Fits
<1>13. OutboundInv'
  <2>1. Going(outboundMsgs'[id], OutboundCount(id)', stored'[id],
              Holds(published', outboundMsgs'[id].msg))
    BY <1>1, <1>9, <1>11
  <2>2. \A j \in MsgId : j # id =>
          /\ \A t \in PacketType : OutboundCount(j)'[t] = OutboundCount(j)[t]
          /\ outboundMsgs'[j] = outboundMsgs[j] /\ stored'[j] = stored[j]
    BY <1>1, <1>8, <1>9
  <2>3. \A m : Holds(published, m) => Holds(published', m)
    BY <1>1
  <2> QED BY <1>12, <2>1, <2>2, <2>3, OutboundMoved
<1>14. InboundInv'
  BY <1>1, <1>8, InboundSame
<1> QED BY <1>13, <1>14

\* A publication with QoS 0 begins no exchange.
LEMMA StartPublishQoS0Exchange ==
  ASSUME TypeOK, TypeOK', InboundInv, OutboundInv, StartPublishQoS0
  PROVE  InboundInv' /\ OutboundInv'
<1>1. PICK p :
        /\ p = Head(commands) /\ commands # <<>> /\ Write(p) /\ p.qos = 0
        /\ UNCHANGED <<toClient, inboundMsgs, received, outboundMsgs, sending, stored, published>>
  BY DEF StartPublishQoS0, TakeCommand, broker
<1>2. p.id = 0 /\ p.type = "PUBLISH" /\ p \in BrokerPacket
  <2>1. commands \in Seq(Publication(outs))
    BY DEF TypeOK
  <2>2. p \in Publication(outs)
    BY <1>1, <2>1, HeadTail
  <2> QED BY <1>1, <2>2 DEF Publication, Numbered, BrokerPacket
<1>3. \A j \in MsgId, t \in PacketType :
        /\ InboundCount(j)'[t] = InboundCount(j)[t] /\ OutboundCount(j)'[t] = OutboundCount(j)[t]
  <2>1. ASSUME NEW j \in MsgId, NEW t \in PacketType
        PROVE  Inward(t, j)' = Inward(t, j) /\ Outward(t, j)' = Outward(t, j)
    <3>1. Matches(t, j, p) = 0
      BY <1>2, NoIdZero DEF Matches
    <3>2. Outward(t, j)' = Outward(t, j) + 0 /\ Outward(t, j) \in Nat
      BY <1>1, <1>2, <3>1, WriteCount, CountsType
    <3> QED BY <1>1, <3>2, SameCount
  <2> QED BY <2>1, Directions
<1>4. ASSUME NEW q, Holds(toBroker', q), q.id # 0 PROVE Holds(toBroker, q)
  <2>1. toBroker \in Seq(BrokerPacket) /\ toBroker' = Append(toBroker, p)
    BY <1>1, Sequences DEF Write
  <2> QED BY <1>2, <1>4, <2>1, AppendHolds
<1> QED BY <1>1, <1>3, <1>4, InboundSame, OutboundSame2

LEMMA WriteAvailableExchange ==
  ASSUME TypeOK, TypeOK', QueueInv, InboundInv, OutboundInv, WriteAvailable
  PROVE  InboundInv' /\ OutboundInv'
<1>1. UNCHANGED <<toClient, sending, inboundMsgs, received, outboundMsgs, stored, published>>
  BY DEF WriteAvailable, broker, outbound
<1>2. \A j \in MsgId, t \in PacketType :
        /\ InboundCount(j)'[t] = InboundCount(j)[t] /\ OutboundCount(j)'[t] = OutboundCount(j)[t]
  BY <1>1, FlushCount, SameCount, Directions
<1>3. ASSUME NEW q, Holds(toBroker', q), q.type = "PUBLISH" PROVE Holds(toBroker, q)
  <2>1. CASE toBroker' = toBroker
    BY <1>3, <2>1
  <2>2. ASSUME NEW p \in AckPacket, toBroker' = Append(toBroker, p) PROVE Holds(toBroker, q)
    <3>1. p.type # "PUBLISH" /\ p \in BrokerPacket
      BY DEF AckPacket, AckType, BrokerPacket
    <3> QED BY <1>3, <2>2, <3>1, Sequences, AppendHolds
  <2> QED BY <2>1, <2>2, FlushCount
<1> QED BY <1>1, <1>2, <1>3, InboundSame, OutboundSame2

LEMMA OtherExchange ==
  ASSUME TypeOK', InboundInv, OutboundInv,
         UNCHANGED <<toClient, toBroker, outboundQueue, sending, inboundMsgs, received,
                     outboundMsgs, stored, published>>
  PROVE  InboundInv' /\ OutboundInv'
<1>1. \A j \in MsgId, t \in PacketType :
        /\ InboundCount(j)'[t] = InboundCount(j)[t] /\ OutboundCount(j)'[t] = OutboundCount(j)[t]
  BY SameCount, Directions
<1> QED BY <1>1, InboundSame, OutboundSame2

LEMMA ClearExchange ==
  ASSUME NEW c, NEW b, NEW q, c = <<>>, b = <<>>, q = <<>>, NEW type, NEW id
  PROVE  /\ Count(type, id, c) = 0 /\ Count(type, id, b) = 0 /\ Count(type, id, q) = 0
         /\ \A ex : Fits(c, ex)
<1>1. <<>> \in Seq({}) /\ Len(<<>>) = 0
  OBVIOUS
<1>2. \A x : ~Holds(<<>>, x)
  BY <1>1 DEF Holds
<1> QED BY <1>1, <1>2, CountType DEF Fits

LEMMA LoseExchange ==
  ASSUME Lose
  PROVE  InboundInv' /\ OutboundInv'
<1>1. /\ toClient' = <<>> /\ toBroker' = <<>> /\ outboundQueue' = <<>>
      /\ \A j \in MsgId : /\ sending'[j] = Free /\ inboundMsgs'[j] = 0
                          /\ outboundMsgs'[j] = Free /\ stored'[j] = 0
  BY DEF Lose
<1>2. \A t \in PacketType, j \in MsgId : InboundCount(j)'[t] = 0 /\ OutboundCount(j)'[t] = 0
  BY <1>1, ClearExchange, Counts, Directions
<1>3. \A j \in MsgId : \A had :
        Going(Free, InboundCount(j)', 0, had) /\ Going(Free, OutboundCount(j)', 0, had)
  BY <1>2 DEF Going
<1>4. \A ex : Fits(toClient', ex) /\ Fits(toBroker', ex)
  BY <1>1, ClearExchange
<1> QED BY <1>1, <1>3, <1>4 DEF InboundInv, OutboundInv

LEMMA InitExchange ==
  ASSUME Init
  PROVE  InboundInv /\ OutboundInv /\ CommandsInv
<1>1. /\ toClient = <<>> /\ toBroker = <<>> /\ outboundQueue = <<>> /\ commands = <<>>
      /\ \A j \in MsgId : /\ sending[j] = Free /\ inboundMsgs[j] = 0
                          /\ outboundMsgs[j] = Free /\ stored[j] = 0
  BY DEF Init
<1>2. \A t \in PacketType, j \in MsgId : InboundCount(j)[t] = 0 /\ OutboundCount(j)[t] = 0
  BY <1>1, ClearExchange, Counts, Directions
<1>3. \A j \in MsgId : \A had :
        Going(Free, InboundCount(j), 0, had) /\ Going(Free, OutboundCount(j), 0, had)
  BY <1>2 DEF Going
<1>4. \A ex : Fits(toClient, ex) /\ Fits(toBroker, ex)
  BY <1>1, ClearExchange
<1>5. CommandsInv
  BY <1>1 DEF CommandsInv
<1> QED BY <1>1, <1>3, <1>4, <1>5 DEF InboundInv, OutboundInv

LEMMA CommandsStep ==
  ASSUME TypeOK, CommandsInv, [Next]_vars
  PROVE  CommandsInv'
<1>1. /\ commands \in Seq(Publication(outs)) /\ outboundMsgs \in [MsgId -> Exchange(outs)]
      /\ RequestType
  BY TypeParts DEF TypeOK
<1>2. ASSUME NEW k \in 1 .. Len(commands), commands[k].id # 0 PROVE commands[k].id \in MsgId
  <2>1. commands[k] \in Publication(outs)
    BY <1>1
  <2> QED BY <1>2, <2>1 DEF Publication, Numbered
<1>3. ASSUME UNCHANGED commands,
             \A j \in MsgId : outboundMsgs[j] = Free => outboundMsgs'[j] = Free
      PROVE  CommandsInv'
  BY <1>2, <1>3 DEF CommandsInv
<1>4. CASE ReadySocket \/ WriteAvailable \/ WriteComplete \/ BrokerReads
           \/ (\E qos \in Qos : Forward(qos))
           \/ HandlePublishes \/ HandlePubrels \/ UNCHANGED vars
  <2>1. UNCHANGED <<commands, outboundMsgs>>
    BY <1>4 DEF ReadySocket, WriteAvailable, WriteComplete, BrokerReads, Forward, HandlePublishes, HandlePubrels,
                vars, requests, outbound
  <2> QED BY <1>3, <2>1
<1>5. CASE HandlePubacks \/ HandlePubrecs \/ HandlePubcomps
  <2>1. PICK id, e : /\ outboundMsgs' = [outboundMsgs EXCEPT ![id] = e]
                     /\ outboundMsgs[id] = Free => e = Free
    <3> DEFINE id == Head(toClient).id
    <3>1. CASE HandlePubrecs
      <4> DEFINE c == outboundMsgs[id].qos = 2 /\ outboundMsgs[id].next = "PUBREC"
                 e == IF c THEN [outboundMsgs[id] EXCEPT !.next = "PUBCOMP"] ELSE outboundMsgs[id]
      <4>1. outboundMsgs' = [outboundMsgs EXCEPT ![id] = e]
        BY <3>1 DEF HandlePubrecs
      <4>2. outboundMsgs[id] = Free => ~c
        BY DEF Free
      <4>3. outboundMsgs[id] = Free => e = Free
        BY <4>2
      <4> HIDE DEF e
      <4> QED BY <4>1, <4>3
    <3>2. CASE HandlePubacks
      BY <3>2 DEF HandlePubacks
    <3>3. CASE HandlePubcomps
      BY <3>3 DEF HandlePubcomps
    <3> QED BY <1>5, <3>1, <3>2, <3>3
  <2>2. UNCHANGED commands
    BY <1>5 DEF HandlePubacks, HandlePubrecs, HandlePubcomps, requests
  <2>3. \A j \in MsgId : outboundMsgs[j] = Free => outboundMsgs'[j] = Free
    BY <1>1, <2>1
  <2> QED BY <1>3, <2>2, <2>3
<1>6. CASE StartPublish \/ StartPublishQoS0
  <2>1. PICK p : /\ p = Head(commands) /\ commands # <<>> /\ commands' = Tail(commands)
                 /\ \/ UNCHANGED outboundMsgs
                    \/ \E e : outboundMsgs' = [outboundMsgs EXCEPT ![p.id] = e]
    BY <1>6 DEF StartPublish, StartPublishQoS0, TakeCommand
  <2>2. /\ Len(commands) = Len(commands') + 1 /\ p = commands[1] /\ Len(commands') \in Nat
        /\ \A k \in 1 .. Len(commands') : commands'[k] = commands[k + 1]
    BY <1>1, <2>1
  <2>3. ASSUME NEW k \in 1 .. Len(commands')
        PROVE  k + 1 \in 1 .. Len(commands) /\ k + 1 # 1 /\ 1 \in 1 .. Len(commands)
    BY <2>2
  <2>4. ASSUME NEW k \in 1 .. Len(commands'), commands'[k].id # 0
        PROVE  outboundMsgs'[commands'[k].id] = Free
    <3>1. commands[k + 1].id # p.id /\ commands[k + 1].id \in MsgId /\ commands[k + 1].id # 0
      BY <1>2, <2>2, <2>3, <2>4 DEF CommandsInv
    <3>2. outboundMsgs'[commands[k + 1].id] = outboundMsgs[commands[k + 1].id]
      BY <1>1, <2>1, <3>1
    <3> QED BY <2>2, <2>3, <3>1, <3>2 DEF CommandsInv
  <2>5. ASSUME NEW j \in 1 .. Len(commands'), NEW k \in 1 .. Len(commands'), j # k,
               commands'[j].id # 0
        PROVE  commands'[j].id # commands'[k].id
    <3>1. j + 1 # k + 1 /\ commands[j + 1].id # 0
      BY <2>2, <2>5
    <3> QED BY <2>2, <2>3, <3>1 DEF CommandsInv
  <2> QED BY <2>4, <2>5 DEF CommandsInv
<1>7. ASSUME NEW qos \in Qos, SendMessage(qos) PROVE CommandsInv'
  <2>1. PICK id : /\ id # 0 => id \in MsgId /\ ~InUse(id)
                  /\ commands' = Append(commands, Publish(id, outs + 1, qos))
    BY <1>1, <1>7, SendMessagePacket
  <2>2. UNCHANGED outboundMsgs
    BY <1>7 DEF SendMessage, outbound
  <2>3. id # 0 => outboundMsgs[id] = Free /\ \A k \in 1 .. Len(commands) : commands[k].id # id
    BY <2>1 DEF InUse
  <2>4. PICK q : q = Publish(id, outs + 1, qos)
    OBVIOUS
  <2>5. q.id = id
    BY <2>4 DEF Publish
  <2>6. /\ Len(commands') = Len(commands) + 1 /\ Len(commands) \in Nat
        /\ commands'[Len(commands) + 1] = q
        /\ \A k \in 1 .. Len(commands) : commands'[k] = commands[k]
    BY <1>1, <2>1, <2>4
  <2>7. \A k \in 1 .. Len(commands') : k \in 1 .. Len(commands) \/ k = Len(commands) + 1
    BY <2>6
  <2>8. \A k \in 1 .. Len(commands') :
          commands'[k].id # 0 => outboundMsgs'[commands'[k].id] = Free
    BY <2>2, <2>3, <2>5, <2>6, <2>7 DEF CommandsInv
  <2>9. \A j, k \in 1 .. Len(commands') :
          j # k /\ commands'[j].id # 0 => commands'[j].id # commands'[k].id
    BY <2>3, <2>5, <2>6, <2>7 DEF CommandsInv
  <2> QED BY <2>8, <2>9 DEF CommandsInv
<1>8. CASE Lose
  BY <1>8 DEF Lose, CommandsInv
<1> QED BY <1>4, <1>5, <1>6, <1>7, <1>8 DEF Next, Receive

-----------------------------------------------------------------------------

ExchangeInv == QueueInv /\ CommandsInv /\ InboundInv /\ OutboundInv

LEMMA ExchangeStep ==
  ASSUME TypeOK, TypeOK', ExchangeInv, [Next]_vars
  PROVE  ExchangeInv'
<1>0. QueueInv /\ CommandsInv /\ InboundInv /\ OutboundInv
  BY DEF ExchangeInv
<1>1. QueueInv' /\ CommandsInv'
  BY <1>0, QueueStep, CommandsStep
<1>2. ASSUME Receive PROVE InboundInv' /\ OutboundInv'
  BY <1>0, <1>2, HandlePublishesExchange, HandlePubrelsExchange, HandlePubrecsExchange, ClientEnds
     DEF Receive
<1>3. ASSUME BrokerReads PROVE InboundInv' /\ OutboundInv'
  BY <1>0, <1>3, BrokerReadsExchange
<1>4. ASSUME WriteAvailable \/ StartPublish \/ StartPublishQoS0
      PROVE  InboundInv' /\ OutboundInv'
  BY <1>0, <1>4, WriteAvailableExchange, StartPublishExchange, StartPublishQoS0Exchange
<1>5. ASSUME Lose PROVE InboundInv' /\ OutboundInv'
  BY <1>5, LoseExchange
<1>6. ASSUME NEW qos \in Qos, Forward(qos) PROVE InboundInv' /\ OutboundInv'
  BY <1>0, <1>6, ForwardExchange
<1>7. ASSUME ReadySocket \/ WriteComplete \/ (\E qos \in Qos : SendMessage(qos)) \/ UNCHANGED vars
      PROVE  InboundInv' /\ OutboundInv'
  BY <1>0, <1>7, OtherExchange DEF ReadySocket, WriteComplete, SendMessage, vars, socket, outbound, broker
<1>8. InboundInv' /\ OutboundInv'
  BY <1>2, <1>3, <1>4, <1>5, <1>6, <1>7 DEF Next
<1> QED BY <1>1, <1>8 DEF ExchangeInv

\* Of every exchange, in either direction, one packet is under way, and its
\* receiver has stored or passed on its message as far as that packet says.
THEOREM ExchangesCorrect == Spec => []ExchangeInv
<1>1. Init => ExchangeInv
  BY InitExchange DEF ExchangeInv, QueueInv, Init
<1>2. TypeOK /\ TypeOK' /\ ExchangeInv /\ [Next]_vars => ExchangeInv'
  BY ExchangeStep
<1> QED BY <1>1, <1>2, TypeCorrect, PTL DEF Spec

\* Every exchange of a message forwarded to us goes on: the packet the broker
\* or we wait for is under way, and a QoS 2 message is stored until its PUBREL.
THEOREM InboundCorrect == Spec => []InboundGoesOn
<1>1. TypeOK /\ InboundInv => InboundGoesOn
  <2> SUFFICES ASSUME TypeOK, InboundInv, NEW id \in MsgId
               PROVE  LET e == sending[id]
                          n == Inward("PUBLISH", id)
                      IN /\ e.next = "none" =>
                              n = 0 /\ inboundMsgs[id] = 0 /\ Inward("PUBREL", id) = 0
                                /\ \A type \in {"PUBACK", "PUBREC", "PUBCOMP"} :
                                     Outward(type, id) = 0
                         /\ e.next = "PUBACK" => n + Outward("PUBACK", id) = 1
                         /\ e.next = "PUBREC" =>
                              /\ n + Outward("PUBREC", id) = 1
                              /\ inboundMsgs[id] = IF n = 1 THEN 0 ELSE e.msg
                         /\ e.next = "PUBCOMP" =>
                              /\ Inward("PUBREL", id) + Outward("PUBCOMP", id) = 1
                              /\ inboundMsgs[id] = IF Inward("PUBREL", id) = 1 THEN e.msg ELSE 0
    BY DEF InboundGoesOn
  <2>1. /\ Inward("PUBLISH", id) = InboundCount(id)["PUBLISH"]
        /\ Inward("PUBREL", id) = InboundCount(id)["PUBREL"]
        /\ \A type \in {"PUBACK", "PUBREC", "PUBCOMP"} : Outward(type, id) = InboundCount(id)[type]
    BY DEF InboundCount, PacketType, AckType
  <2>2. Going(sending[id], InboundCount(id), inboundMsgs[id], Holds(received, sending[id].msg))
    BY DEF InboundInv
  <2>3. {"PUBLISH", "PUBREL", "PUBACK", "PUBREC", "PUBCOMP"} \subseteq PacketType
    BY DEF PacketType, AckType
  <2>4. CASE sending[id] = Free /\ inboundMsgs[id] = 0
             /\ \A type \in PacketType : InboundCount(id)[type] = 0
    BY <2>1, <2>3, <2>4 DEF Free
  <2>5. ASSUME NEW type \in PacketType,
               UnderWay(sending[id], inboundMsgs[id], Holds(received, sending[id].msg), type),
               \A t \in PacketType : InboundCount(id)[t] = IF t = type THEN 1 ELSE 0
        PROVE  LET e == sending[id]
                   n == Inward("PUBLISH", id)
               IN /\ e.next # "none"
                  /\ e.next = "PUBACK" => n + Outward("PUBACK", id) = 1
                  /\ e.next = "PUBREC" =>
                       /\ n + Outward("PUBREC", id) = 1
                       /\ inboundMsgs[id] = IF n = 1 THEN 0 ELSE e.msg
                  /\ e.next = "PUBCOMP" =>
                       /\ Inward("PUBREL", id) + Outward("PUBCOMP", id) = 1
                       /\ inboundMsgs[id] = IF Inward("PUBREL", id) = 1 THEN e.msg ELSE 0
    BY <2>1, <2>3, <2>5 DEF UnderWay
  <2> QED BY <2>2, <2>4, <2>5 DEF Going
<1>2. ExchangeInv => InboundInv
  BY DEF ExchangeInv
<1> QED BY <1>1, <1>2, TypeCorrect, ExchangesCorrect, PTL

\* The broker forgets a message only when messageArrived has had it, unless the
\* connection is lost.
THEOREM ForgottenCorrect == Spec => ForgottenWhenReceived
<1>1. ASSUME TypeOK, InboundInv, [Next]_vars, NEW id \in MsgId,
             sending[id].msg # 0, sending'[id].msg # sending[id].msg, losses' = losses
      PROVE  \E i \in 1 .. Len(received) : received[i] = sending[id].msg
  <2>1. sending \in [MsgId -> Exchange(ins)]
    BY <1>1 DEF TypeOK
  <2>2. CASE UNCHANGED sending
    BY <1>1, <2>2
  <2>3. CASE Lose
    <3>1. losses \in Nat
      BY <1>1 DEF TypeOK
    <3> QED BY <1>1, <2>3, <3>1 DEF Lose
  <2>4. ASSUME NEW qos \in Qos, Forward(qos), ~UNCHANGED sending PROVE FALSE
    <3>1. PICK j, e : j \in MsgId /\ sending[j] = Free /\ sending' = [sending EXCEPT ![j] = e]
      BY <2>4 DEF Forward
    <3>2. j # id
      BY <1>1, <3>1 DEF Free
    <3> QED BY <1>1, <2>1, <3>1, <3>2
  <2>5. CASE BrokerReads /\ ~UNCHANGED sending
    <3>0. PICK p, j : p = Head(toBroker) /\ j = p.id
      OBVIOUS
    <3>1. j \in MsgId /\ (InboundCount(j)[p.type] # 0 \/ Forth(p.type)) /\ p.type \in PacketType
      <4>1. p.type # "PUBLISH"
        BY <2>5, <3>0 DEF BrokerReads
      <4> QED BY <1>1, <2>5, <3>0, <4>1, ReadPassed
    <3>2. CASE sending' = [sending EXCEPT ![j] = IF @.next = "PUBREC"
                                                 THEN [@ EXCEPT !.next = "PUBCOMP"] ELSE @]
      <4>1. sending[id] \in Exchange(ins)
        BY <2>1, <1>1
      <4>2. [sending[id] EXCEPT !.next = "PUBCOMP"].msg = sending[id].msg
        BY <4>1 DEF Exchange
      <4> QED BY <1>1, <2>1, <3>1, <3>2, <4>2
    <3>3. CASE /\ p.type \in {"PUBACK", "PUBCOMP"}
               /\ sending' = [sending EXCEPT ![j] = IF @.next = p.type THEN Free ELSE @]
      <4>1. j = id
        BY <1>1, <2>1, <3>1, <3>3
      <4>2. ~Forth(p.type)
        BY <3>3 DEF Forth
      <4>3. /\ Going(sending[id], InboundCount(id), inboundMsgs[id],
                     Holds(received, sending[id].msg))
            /\ Holds(received, sending[id].msg) \in BOOLEAN
        BY <1>1 DEF InboundInv, Holds
      <4>4. UnderWay(sending[id], inboundMsgs[id], Holds(received, sending[id].msg), p.type)
        BY <3>1, <4>1, <4>2, <4>3, AtHand
      <4>5. Holds(received, sending[id].msg)
        BY <3>3, <4>4 DEF UnderWay
      <4> QED BY <4>5 DEF Holds
    <3> QED BY <2>5, <3>0, <3>2, <3>3 DEF BrokerReads
  <2> QED BY <1>1, <2>2, <2>3, <2>4, <2>5 DEF Next, Receive, ReadySocket, HandlePublishes,
             HandlePubrels, HandlePubacks, HandlePubrecs, HandlePubcomps, WriteAvailable,
             WriteComplete, StartPublish, StartPublishQoS0, SendMessage, vars, broker
<1>2. TypeOK /\ ExchangeInv /\ [Next]_vars =>
        [\A id \in MsgId :
           sending[id].msg # 0 /\ sending'[id].msg # sending[id].msg /\ losses' = losses
             => \E i \in 1 .. Len(received) : received[i] = sending[id].msg]_vars
  BY <1>1 DEF ExchangeInv
<1> QED BY <1>2, TypeCorrect, ExchangesCorrect, PTL DEF Spec, ForgottenWhenReceived

-----------------------------------------------------------------------------
(* A publication of ours is reported once *)

Own(id) == outboundMsgs[id].msg
Queued(m) == \E k \in 1 .. Len(commands) : commands[k].msg = m
Apart(seq) == \A i, j \in 1 .. Len(seq) : i # j => seq[i] # seq[j]

\* The packet that reports the end of the publication is under way.
Confirmed(id) ==
  \E p : Holds(toClient, p) /\ p.type \in {"PUBACK", "PUBCOMP"} /\ p.id = id

\* A publication with QoS 0, and the messages that the packets of a sequence
\* publish that way.
Direct(p) == p.type = "PUBLISH" /\ p.qos = 0
DirectIn(seq, m) == \E k \in 1 .. Len(seq) : Direct(seq[k]) /\ seq[k].msg = m
DirectOnce(seq) ==
  \A j, k \in 1 .. Len(seq) : j # k /\ Direct(seq[j]) /\ Direct(seq[k]) => seq[j].msg # seq[k].msg

\* A message of ours waits in one place: it is a command, then the exchange and
\* the response of one id, then completed. It is published at its end only.
CompletionInv ==
  /\ \A id \in MsgId : responses[id] = Own(id)
  /\ \A j, k \in 1 .. Len(commands) : j # k => commands[j].msg # commands[k].msg
  /\ \A m : Queued(m) => ~Holds(published, m) /\ ~Holds(completed, m)
                         /\ \A id \in MsgId : Own(id) # m
  /\ \A i, j \in MsgId : i # j /\ Own(i) # 0 => Own(i) # Own(j)
  /\ \A id \in MsgId : Own(id) # 0 =>
       ~Holds(completed, Own(id)) /\ (Holds(published, Own(id)) => Confirmed(id))
  /\ Apart(published) /\ Apart(completed)
  /\ \A m : Holds(completed, m) => Holds(published, m) \/ askedQos[m] = 0

\* With QoS 0 it is a command, then written and, perhaps later, completed: a
\* packet of it that the broker has not read is the only one, and it is not
\* completed while it is among the responses.
DirectInv ==
  /\ \A k \in 1 .. Len(commands) : askedQos[commands[k].msg] = commands[k].qos
  /\ \A id \in MsgId : Own(id) # 0 => askedQos[Own(id)] # 0
  /\ \A m \in unnumbered : askedQos[m] = 0 /\ ~Queued(m) /\ ~Holds(completed, m)
  /\ pendingWrite \in unnumbered \cup {0}
  /\ \A m : DirectIn(toBroker, m) => askedQos[m] = 0 /\ ~Queued(m) /\ ~Holds(published, m)
  /\ DirectOnce(toBroker)

LEMMA DirectAppend ==
  ASSUME NEW S, NEW seq \in Seq(S), NEW x \in S
  PROVE  /\ \A m : DirectIn(Append(seq, x), m) => DirectIn(seq, m) \/ (Direct(x) /\ x.msg = m)
         /\ DirectOnce(seq) /\ (Direct(x) => ~DirectIn(seq, x.msg)) => DirectOnce(Append(seq, x))
<1>1. /\ Len(Append(seq, x)) = Len(seq) + 1 /\ Append(seq, x)[Len(seq) + 1] = x
      /\ Len(seq) \in Nat
      /\ \A k \in 1 .. Len(seq) : Append(seq, x)[k] = seq[k]
  OBVIOUS
<1>2. \A k \in 1 .. Len(seq) + 1 : k \in 1 .. Len(seq) \/ k = Len(seq) + 1
  BY <1>1
<1> DEFINE longer == Append(seq, x)
<1>3. /\ Len(longer) = Len(seq) + 1 /\ longer[Len(seq) + 1] = x
      /\ \A k \in 1 .. Len(seq) : longer[k] = seq[k]
  BY <1>1
<1> HIDE DEF longer
<1>4. \A m : DirectIn(longer, m) => DirectIn(seq, m) \/ (Direct(x) /\ x.msg = m)
  BY <1>2, <1>3 DEF DirectIn
<1>5. DirectOnce(seq) /\ (Direct(x) => ~DirectIn(seq, x.msg)) => DirectOnce(longer)
  BY <1>2, <1>3 DEF DirectIn, DirectOnce
<1> QED BY <1>4, <1>5 DEF longer

LEMMA DirectTail ==
  ASSUME NEW S, NEW seq \in Seq(S), seq # <<>>, DirectOnce(seq)
  PROVE  /\ \A m : DirectIn(Tail(seq), m) => DirectIn(seq, m)
         /\ DirectOnce(Tail(seq))
         /\ Direct(Head(seq)) =>
              DirectIn(seq, Head(seq).msg) /\ ~DirectIn(Tail(seq), Head(seq).msg)
<1> DEFINE rest == Tail(seq)
           first == Head(seq)
<1>1. /\ Len(seq) = Len(rest) + 1 /\ first = seq[1] /\ Len(rest) \in Nat
      /\ \A k \in 1 .. Len(rest) : rest[k] = seq[k + 1]
  OBVIOUS
<1>2. 1 \in 1 .. Len(seq) /\ \A k \in 1 .. Len(rest) : k + 1 \in 1 .. Len(seq) /\ k + 1 # 1
  BY <1>1
<1>3. \A j, k \in 1 .. Len(rest) : j # k => j + 1 # k + 1
  BY <1>1
<1> HIDE DEF rest, first
<1>4. \A m : DirectIn(rest, m) => DirectIn(seq, m)
  BY <1>1, <1>2 DEF DirectIn
<1>5. DirectOnce(rest)
  BY <1>1, <1>2, <1>3 DEF DirectOnce
<1>6. Direct(first) => DirectIn(seq, first.msg) /\ ~DirectIn(rest, first.msg)
  BY <1>1, <1>2 DEF DirectIn, DirectOnce
<1> QED BY <1>4, <1>5, <1>6 DEF rest, first

LEMMA AppendApart ==
  ASSUME NEW S, NEW seq \in Seq(S), NEW x \in S, Apart(seq), ~Holds(seq, x)
  PROVE  Apart(Append(seq, x))
<1>1. /\ Len(Append(seq, x)) = Len(seq) + 1 /\ Append(seq, x)[Len(seq) + 1] = x
      /\ Len(seq) \in Nat
      /\ \A k \in 1 .. Len(seq) : Append(seq, x)[k] = seq[k]
  OBVIOUS
<1>2. \A k \in 1 .. Len(seq) + 1 : k \in 1 .. Len(seq) \/ k = Len(seq) + 1
  BY <1>1
<1> QED BY <1>1, <1>2 DEF Apart, Holds

Extends(longer, seq, x) == longer = Append(seq, x)

LEMMA ExtendsFacts ==
  ASSUME NEW S, NEW seq \in Seq(S), NEW x \in S, NEW longer, Extends(longer, seq, x)
  PROVE  /\ \A q : Holds(longer, q) <=> Holds(seq, q) \/ q = x
         /\ Apart(seq) /\ ~Holds(seq, x) => Apart(longer)
<1>1. ASSUME NEW q PROVE Holds(Append(seq, x), q) <=> Holds(seq, q) \/ q = x
  BY AppendHolds
<1> QED BY <1>1, AppendApart DEF Extends

LEMMA MessageAdded ==
  ASSUME TypeOK, NEW seq, seq \in Seq(1 .. outs), NEW m, m \in 1 .. outs,
         NEW longer, Extends(longer, seq, m)
  PROVE  /\ \A q : Holds(longer, q) <=> Holds(seq, q) \/ q = m
         /\ Apart(seq) /\ ~Holds(seq, m) => Apart(longer)
<1> DEFINE S == 1 .. outs
<1>1. seq \in Seq(S) /\ m \in S
  OBVIOUS
<1> HIDE DEF S
<1> QED BY <1>1, ExtendsFacts

LEMMA TailHolds ==
  ASSUME NEW S, NEW seq \in Seq(S), NEW q, Holds(seq, q), seq # <<>>, q # Head(seq)
  PROVE  Holds(Tail(seq), q)
<1>1. PICK k \in 1 .. Len(seq) : seq[k] = q
  BY DEF Holds
<1>2. k # 1 /\ Len(Tail(seq)) = Len(seq) - 1 /\ Len(seq) \in Nat
  BY <1>1
<1>3. k - 1 \in 1 .. Len(Tail(seq)) /\ Tail(seq)[k - 1] = seq[k]
  BY <1>1, <1>2
<1> QED BY <1>1, <1>3 DEF Holds

LEMMA OwnType ==
  ASSUME TypeOK, NEW id \in MsgId
  PROVE  Own(id) \in 0 .. outs /\ (Own(id) # 0 => Own(id) \in 1 .. outs)
<1>1. outboundMsgs[id] \in Exchange(outs) /\ outs \in Nat
  BY DEF TypeOK
<1>2. Own(id) \in 0 .. outs
  BY <1>1 DEF Exchange, Own
<1> QED BY <1>1, <1>2

\* What is confirmed is counted as under way.
LEMMA ConfirmedCount ==
  ASSUME TypeOK, NEW id \in MsgId, Confirmed(id)
  PROVE  OutboundCount(id)["PUBACK"] # 0 \/ OutboundCount(id)["PUBCOMP"] # 0
<1>1. PICK p : Holds(toClient, p) /\ p.type \in {"PUBACK", "PUBCOMP"} /\ p.id = id
  BY DEF Confirmed
<1>2. Count(p.type, p.id, toClient) # 0
  BY <1>1, Sequences, HoldsCount
<1>3. p.type \in PacketType /\ p.type \notin {"PUBLISH", "PUBREL"}
  BY <1>1 DEF PacketType, AckType
<1>4. OutboundCount(id)[p.type] = Inward(p.type, id)
  BY <1>3 DEF OutboundCount
<1>5. Inward(p.type, id) # 0
  BY <1>1, <1>2, Counts
<1> QED BY <1>1, <1>4, <1>5

\* Before that the message is not published.
LEMMA NotPublished ==
  ASSUME TypeOK, OutboundInv, CompletionInv, NEW id \in MsgId,
         NEW type \in {"PUBLISH", "PUBREL"}, OutboundCount(id)[type] # 0
  PROVE  /\ Own(id) # 0 /\ ~Holds(published, Own(id))
         /\ type = "PUBREL" => stored[id] = Own(id)
<1>1. PICK had \in BOOLEAN : had = Holds(published, outboundMsgs[id].msg)
  BY DEF Holds
<1>2. Going(outboundMsgs[id], OutboundCount(id), stored[id], had)
  BY <1>1 DEF OutboundInv
<1>3. type \in PacketType /\ "PUBACK" \in PacketType /\ "PUBCOMP" \in PacketType
  BY DEF PacketType, AckType
<1>4. /\ outboundMsgs[id].msg # 0 /\ UnderWay(outboundMsgs[id], stored[id], had, type)
      /\ \A t \in PacketType : OutboundCount(id)[t] = IF t = type THEN 1 ELSE 0
  BY <1>2, <1>3, AtHand
<1>5. ~Confirmed(id)
  BY <1>3, <1>4, ConfirmedCount
<1>6. type = "PUBREL" => stored[id] = Own(id)
  BY <1>4 DEF UnderWay, Own
<1> QED BY <1>4, <1>5, <1>6 DEF CompletionInv, Own

\* A step that neither publishes nor completes.
LEMMA CompletionSame ==
  ASSUME CompletionInv, UNCHANGED <<responses, commands, published, completed, askedQos>>,
         \A id \in MsgId : Own(id)' = Own(id),
         \A id \in MsgId : Own(id) # 0 /\ Confirmed(id) => Confirmed(id)'
  PROVE  CompletionInv'
<1>1. \A m : Queued(m)' <=> Queued(m)
  BY DEF Queued
<1> QED BY <1>1 DEF CompletionInv

LEMMA CompletionPublished ==
  ASSUME TypeOK, CompletionInv,
         UNCHANGED <<responses, commands, outboundMsgs, completed, askedQos>>,
         NEW id \in MsgId, Own(id) # 0, ~Holds(published, Own(id)),
         Extends(published', published, Own(id)), Confirmed(id)',
         \A j \in MsgId : Confirmed(j) => Confirmed(j)'
  PROVE  CompletionInv'
<1>1. \A j \in MsgId : Own(j)' = Own(j)
  BY DEF Own
<1>2. \A m : Queued(m)' <=> Queued(m)
  BY DEF Queued
<1>3. published \in Seq(1 .. outs) /\ Own(id) \in 1 .. outs
  BY OwnType DEF TypeOK
<1>4. \A m : Holds(published', m) <=> Holds(published, m) \/ m = Own(id)
  BY <1>3, MessageAdded
<1>5. Apart(published')
  BY <1>3, MessageAdded DEF CompletionInv
<1>6. \A m : Queued(m)' => ~Holds(published', m) /\ ~Holds(completed', m)
                           /\ \A j \in MsgId : Own(j)' # m
  BY <1>1, <1>2, <1>4 DEF CompletionInv
<1>7. \A j \in MsgId : Own(j)' # 0 =>
        ~Holds(completed', Own(j)') /\ (Holds(published', Own(j)') => Confirmed(j)')
  BY <1>1, <1>4 DEF CompletionInv
<1> QED BY <1>1, <1>4, <1>5, <1>6, <1>7 DEF CompletionInv

\* The broker publishes one with QoS 0.
LEMMA CompletionDirect ==
  ASSUME TypeOK, CompletionInv,
         UNCHANGED <<responses, commands, outboundMsgs, completed, askedQos>>,
         NEW x \in 1 .. outs, ~Holds(published, x), ~Queued(x), \A j \in MsgId : Own(j) # x,
         Extends(published', published, x),
         \A j \in MsgId : Confirmed(j) => Confirmed(j)'
  PROVE  CompletionInv'
<1>1. \A j \in MsgId : Own(j)' = Own(j)
  BY DEF Own
<1>2. \A m : Queued(m)' <=> Queued(m)
  BY DEF Queued
<1>3. published \in Seq(1 .. outs)
  BY DEF TypeOK
<1>4. \A m : Holds(published', m) <=> Holds(published, m) \/ m = x
  BY <1>3, MessageAdded
<1>5. Apart(published')
  BY <1>3, MessageAdded DEF CompletionInv
<1>6. \A m : Queued(m)' => ~Holds(published', m) /\ ~Holds(completed', m)
                           /\ \A j \in MsgId : Own(j)' # m
  BY <1>1, <1>2, <1>4 DEF CompletionInv
<1>7. \A j \in MsgId : Own(j)' # 0 =>
        ~Holds(completed', Own(j)') /\ (Holds(published', Own(j)') => Confirmed(j)')
  BY <1>1, <1>4 DEF CompletionInv
<1> QED BY <1>1, <1>4, <1>5, <1>6, <1>7 DEF CompletionInv

\* One with QoS 0 is reported complete, or a command of it is taken.
LEMMA CompletionReported ==
  ASSUME TypeOK, CompletionInv,
         UNCHANGED <<responses, outboundMsgs, published, askedQos, toClient>>,
         NEW x \in 1 .. outs, askedQos[x] = 0, ~Holds(completed, x), \A j \in MsgId : Own(j) # x,
         completed' = completed \/ Extends(completed', completed, x),
         \A j, k \in 1 .. Len(commands') : j # k => commands'[j].msg # commands'[k].msg,
         \A m : Queued(m)' => Queued(m) /\ m # x
  PROVE  CompletionInv'
<1>1. \A j \in MsgId : Own(j)' = Own(j) /\ (Confirmed(j) => Confirmed(j)')
  BY DEF Own, Confirmed
<1>2. completed \in Seq(1 .. outs)
  BY DEF TypeOK
<1>3. Apart(completed') /\ \A m : Holds(completed', m) => Holds(completed, m) \/ m = x
  BY <1>2, MessageAdded DEF CompletionInv
<1>4. \A m : Queued(m)' => ~Holds(published', m) /\ ~Holds(completed', m)
                           /\ \A j \in MsgId : Own(j)' # m
  BY <1>1, <1>3 DEF CompletionInv
<1>5. \A j \in MsgId : Own(j)' # 0 =>
        ~Holds(completed', Own(j)') /\ (Holds(published', Own(j)') => Confirmed(j)')
  BY <1>1, <1>3 DEF CompletionInv
<1>6. \A m : Holds(completed', m) => Holds(published', m) \/ askedQos'[m] = 0
  BY <1>3 DEF CompletionInv
<1> QED BY <1>1, <1>3, <1>4, <1>5, <1>6 DEF CompletionInv

LEMMA CompletionCompleted ==
  ASSUME TypeOK, CompletionInv, UNCHANGED <<commands, published, askedQos>>,
         NEW id \in MsgId, Own(id) # 0, Holds(published, Own(id)),
         Extends(completed', completed, Own(id)),
         responses' = [responses EXCEPT ![id] = 0],
         \A j \in MsgId : Own(j)' = IF j = id THEN 0 ELSE Own(j),
         \A j \in MsgId : j # id /\ Confirmed(j) => Confirmed(j)'
  PROVE  CompletionInv'
<1>1. \A m : Queued(m)' <=> Queued(m)
  BY DEF Queued
<1>2. completed \in Seq(1 .. outs) /\ Own(id) \in 1 .. outs /\ responses \in [MsgId -> 0 .. outs]
  BY OwnType DEF TypeOK
<1>3. \A m : Holds(completed', m) <=> Holds(completed, m) \/ m = Own(id)
  BY <1>2, MessageAdded
<1>4. Apart(completed')
  BY <1>2, MessageAdded DEF CompletionInv
<1>5. \A j \in MsgId : responses'[j] = Own(j)'
  BY <1>2 DEF CompletionInv
<1>6. \A m : Queued(m)' => ~Holds(published', m) /\ ~Holds(completed', m)
                           /\ \A j \in MsgId : Own(j)' # m
  <2> SUFFICES ASSUME NEW m, Queued(m)
               PROVE  ~Holds(published', m) /\ ~Holds(completed', m) /\ \A j \in MsgId : Own(j)' # m
    BY <1>1
  <2>1. ~Holds(published, m) /\ ~Holds(completed, m) /\ \A j \in MsgId : Own(j) # m
    BY DEF CompletionInv
  <2>2. m # 0
    <3>1. PICK k \in 1 .. Len(commands) : commands[k].msg = m
      BY DEF Queued
    <3>2. commands[k] \in Publication(outs)
      BY DEF TypeOK
    <3> QED BY <3>1, <3>2 DEF Publication, Numbered
  <2> QED BY <1>3, <2>1, <2>2
<1>7. \A j \in MsgId : Own(j)' # 0 =>
        ~Holds(completed', Own(j)') /\ (Holds(published', Own(j)') => Confirmed(j)')
  BY <1>3 DEF CompletionInv
<1>8. \A i, j \in MsgId : i # j /\ Own(i)' # 0 => Own(i)' # Own(j)'
  BY DEF CompletionInv
<1> QED BY <1>3, <1>4, <1>5, <1>6, <1>7, <1>8 DEF CompletionInv

LEMMA CompletionClient ==
  ASSUME TypeOK, TypeOK', OutboundInv, CompletionInv,
         HandlePublishes \/ HandlePubrels \/ HandlePubrecs
  PROVE  CompletionInv'
<1>1. PICK type \in {"PUBLISH", "PUBREL", "PUBREC"} : Take(type)
  BY DEF HandlePublishes, HandlePubrels, HandlePubrecs
<1>2. UNCHANGED <<responses, commands, published, completed, askedQos>>
  BY DEF HandlePublishes, HandlePubrels, HandlePubrecs, outbound, requests, broker
<1>3. \A id \in MsgId : Own(id)' = Own(id)
  <2>1. outboundMsgs \in [MsgId -> Exchange(outs)]
    BY DEF TypeOK
  <2>2. CASE UNCHANGED outboundMsgs
    BY <2>2 DEF Own
  <2>3. CASE HandlePubrecs
    <3>1. PICK j : outboundMsgs' = [outboundMsgs EXCEPT
                     ![j] = IF @.qos = 2 /\ @.next = "PUBREC" THEN [@ EXCEPT !.next = "PUBCOMP"]
                                                              ELSE @]
      BY <2>3 DEF HandlePubrecs
    <3>2. ASSUME NEW id \in MsgId PROVE [outboundMsgs[id] EXCEPT !.next = "PUBCOMP"].msg = Own(id)
      <4>1. outboundMsgs[id] \in Exchange(outs)
        BY <2>1
      <4> QED BY <4>1 DEF Exchange, Own
    <3> QED BY <2>1, <3>1, <3>2 DEF Own
  <2> QED BY <2>2, <2>3 DEF HandlePublishes, HandlePubrels, outbound
<1>4. \A id \in MsgId : Confirmed(id) => Confirmed(id)'
  <2> SUFFICES ASSUME NEW id \in MsgId, Confirmed(id) PROVE Confirmed(id)'
    OBVIOUS
  <2>1. PICK p : Holds(toClient, p) /\ p.type \in {"PUBACK", "PUBCOMP"} /\ p.id = id
    BY DEF Confirmed
  <2>2. p # Head(toClient)
    BY <1>1, <2>1 DEF Take
  <2>3. Holds(Tail(toClient), p)
    <3>1. toClient # <<>>
      BY <2>1 DEF Holds
    <3> QED BY <2>1, <2>2, <3>1, Sequences, TailHolds
  <2>4. Holds(toClient', p)
    BY <1>1, <2>3 DEF Take
  <2> QED BY <2>1, <2>4 DEF Confirmed
<1> QED BY <1>2, <1>3, <1>4, CompletionSame

LEMMA CompletionEnds ==
  ASSUME TypeOK, TypeOK', OutboundInv, CompletionInv, HandlePubacks \/ HandlePubcomps
  PROVE  CompletionInv'
<1>0. PICK p, id : p = Head(toClient) /\ id = p.id
  OBVIOUS
<1> DEFINE e == outboundMsgs[id]
           had == Holds(published, e.msg)
<1>1. PICK type \in {"PUBACK", "PUBCOMP"} :
        /\ Take(type) /\ UNCHANGED <<commands, published, askedQos>> /\ Complete(id)
        /\ outboundMsgs' = [outboundMsgs EXCEPT
             ![id] = IF (type = "PUBACK" /\ @.qos = 1)
                          \/ (type = "PUBCOMP" /\ @.qos = 2 /\ @.next = "PUBCOMP")
                     THEN Free ELSE @]
  BY <1>0 DEF HandlePubacks, HandlePubcomps, broker, requests
<1>2. ReceiveType /\ ins \in Nat
  BY Bounds, TypeParts DEF BrokerType
<1>3. id \in MsgId
  BY <1>0, <1>1, <1>2, TakeHead
<1>4. type \in PacketType
  BY DEF PacketType, AckType
<1>5. p.type = type /\ p.id = id /\ OutboundCount(id)[type] # 0
  <2>1. ~Forth(type)
    BY DEF Forth
  <2> QED BY <1>0, <1>1, <1>3, <1>4, <2>1, TakeHolds
<1>6. Going(e, OutboundCount(id), stored[id], had) /\ had \in BOOLEAN
  BY <1>3 DEF OutboundInv, Holds
<1>7. e.msg # 0 /\ UnderWay(e, stored[id], had, type)
  <2> HIDE DEF e, had
  <2> QED BY <1>4, <1>5, <1>6, AtHand
<1>8. Own(id) # 0 /\ Holds(published, Own(id))
  BY <1>7 DEF UnderWay, Own
<1>9. responses[id] = Own(id)
  BY <1>3 DEF CompletionInv
<1>10. completed' = Append(completed, Own(id)) /\ responses' = [responses EXCEPT ![id] = 0]
  BY <1>1, <1>8, <1>9 DEF Complete
<1>11. \A j \in MsgId : Own(j)' = IF j = id THEN 0 ELSE Own(j)
  <2>1. outboundMsgs' = [outboundMsgs EXCEPT ![id] = Free]
    BY <1>1, <1>7 DEF UnderWay
  <2>2. outboundMsgs \in [MsgId -> Exchange(outs)]
    BY DEF TypeOK
  <2> QED BY <2>1, <2>2 DEF Own, Free
<1>12. \A j \in MsgId : j # id /\ Confirmed(j) => Confirmed(j)'
  <2> SUFFICES ASSUME NEW j \in MsgId, j # id, Confirmed(j) PROVE Confirmed(j)'
    OBVIOUS
  <2>1. PICK q : Holds(toClient, q) /\ q.type \in {"PUBACK", "PUBCOMP"} /\ q.id = j
    BY DEF Confirmed
  <2>2. q # Head(toClient)
    BY <1>0, <2>1
  <2>3. Holds(Tail(toClient), q)
    <3>1. toClient # <<>>
      BY <2>1 DEF Holds
    <3> QED BY <2>1, <2>2, <3>1, Sequences, TailHolds
  <2>4. Holds(toClient', q)
    BY <1>1, <2>3 DEF Take
  <2> QED BY <2>1, <2>4 DEF Confirmed
<1>13. UNCHANGED <<commands, published, askedQos>> /\ Extends(completed', completed, Own(id))
  BY <1>1, <1>10 DEF Extends
<1> HIDE DEF e, had
<1> QED BY <1>3, <1>8, <1>10, <1>11, <1>12, <1>13, CompletionCompleted

\* Confirmations stay under way while packets are added behind them.
LEMMA ConfirmedKept ==
  ASSUME TypeOK, NEW q \in ClientPacket, toClient' = Append(toClient, q)
  PROVE  /\ \A id \in MsgId : Confirmed(id) => Confirmed(id)'
         /\ q.type \in {"PUBACK", "PUBCOMP"} => Confirmed(q.id)'
<1>0. Extends(toClient', toClient, q)
  BY DEF Extends
<1>1. \A p : Holds(toClient', p) <=> Holds(toClient, p) \/ p = q
  BY <1>0, Sequences, ExtendsFacts
<1> QED BY <1>1 DEF Confirmed

LEMMA CompletionBroker ==
  ASSUME TypeOK, TypeOK', OutboundInv, CompletionInv, DirectInv, BrokerReads
  PROVE  CompletionInv'
<1>0. PICK p, id : p = Head(toBroker) /\ id = p.id
  OBVIOUS
<1>1. /\ p \in BrokerPacket /\ p.type \in PacketType /\ Holds(toBroker, p)
      /\ IF Direct(p) THEN id = 0 ELSE id \in MsgId
      /\ id \in MsgId => OutboundCount(id)[p.type] # 0 \/ ~Forth(p.type)
  BY <1>0, ReadPassed DEF Direct
<1>2. UNCHANGED <<responses, commands, outboundMsgs, completed, askedQos>>
  BY DEF BrokerReads, outbound, requests
<1>3. \A j \in MsgId : Own(j)' = Own(j)
  BY <1>2 DEF Own
<1>4. id \in MsgId =>
        \A type \in AckType : Ack(type, id) \in ClientPacket /\ Ack(type, id).type = type
                              /\ Ack(type, id).id = id
  BY <1>1 DEF Ack, ClientPacket, AckPacket
<1>5. \/ UNCHANGED toClient
      \/ ~Direct(p) /\ \E type \in AckType : toClient' = Append(toClient, Ack(type, id))
  BY <1>0 DEF BrokerReads, AckType, Direct
<1>6. \A j \in MsgId : Confirmed(j) => Confirmed(j)'
  <2>1. CASE UNCHANGED toClient
    BY <2>1 DEF Confirmed
  <2>2. ASSUME NEW type \in AckType, ~Direct(p), toClient' = Append(toClient, Ack(type, id))
        PROVE  \A j \in MsgId : Confirmed(j) => Confirmed(j)'
    BY <1>1, <1>4, <2>2, ConfirmedKept
  <2> QED BY <1>5, <2>1, <2>2
<1>7. CASE UNCHANGED published
  BY <1>2, <1>3, <1>6, <1>7, CompletionSame
<1>11. CASE Direct(p) /\ published' = Append(published, p.msg)
  <2>1. outs \in Nat
    BY DEF TypeOK
  <2>2. p.msg \in 1 .. outs /\ toBroker # <<>> /\ toBroker \in Seq(BrokerPacket)
    <3>1. p.msg \in 1 .. outs
      BY <1>1, <1>11, <2>1, PacketFacts DEF Direct, BrokerPacket
    <3>2. toBroker # <<>>
      BY DEF BrokerReads, TypeOK
    <3> QED BY <3>1, <3>2, Sequences
  <2>3. DirectIn(toBroker, p.msg)
    BY <1>0, <1>11, <2>2, DirectTail DEF DirectInv
  <2>4. ~Holds(published, p.msg) /\ ~Queued(p.msg) /\ askedQos[p.msg] = 0
    BY <2>3 DEF DirectInv
  <2>5. \A j \in MsgId : Own(j) # p.msg
    BY <2>2, <2>4 DEF DirectInv
  <2> QED BY <1>2, <1>6, <1>11, <2>2, <2>4, <2>5, CompletionDirect DEF Extends
<1>8. ASSUME ~Direct(p), NEW type \in {"PUBLISH", "PUBREL"}, p.type = type,
             NEW answer \in {"PUBACK", "PUBCOMP"}, toClient' = Append(toClient, Ack(answer, id)),
             Extends(published', published, Own(id))
      PROVE  CompletionInv'
  <2>1. OutboundCount(id)[type] # 0
    BY <1>1, <1>8 DEF Forth
  <2>2. Own(id) # 0 /\ ~Holds(published, Own(id))
    BY <1>1, <1>8, <2>1, NotPublished
  <2>3. Confirmed(id)'
    <3>1. answer \in AckType
      BY DEF AckType
    <3>2. /\ Ack(answer, id) \in ClientPacket
          /\ Ack(answer, id).type = answer /\ Ack(answer, id).id = id
      BY <1>1, <1>4, <1>8, <3>1
    <3> QED BY <1>8, <3>2, ConfirmedKept
  <2> QED BY <1>1, <1>2, <1>6, <1>8, <2>2, <2>3, CompletionPublished
<1>9. CASE /\ p.type = "PUBLISH" /\ p.qos = 1 /\ published' = Append(published, p.msg)
           /\ toClient' = Append(toClient, Ack("PUBACK", id))
  <2>0. ~Direct(p)
    BY <1>9 DEF Direct
  <2>1. p.msg = Own(id)
    <3>1. id # 0
      BY <1>1, <2>0 DEF MsgId
    <3> QED BY <1>0, <1>1, <1>9, <3>1 DEF OutboundInv, Fits, Own
  <2>2. Extends(published', published, Own(id))
    BY <1>9, <2>1 DEF Extends
  <2> QED BY <1>8, <1>9, <2>0, <2>2
<1>10. CASE /\ p.type = "PUBREL" /\ published' = Append(published, stored[id])
            /\ toClient' = Append(toClient, Ack("PUBCOMP", id))
  <2>0. ~Direct(p) /\ id \in MsgId
    BY <1>1, <1>10 DEF Direct
  <2>1. OutboundCount(id)["PUBREL"] # 0
    BY <1>1, <1>10, <2>0 DEF Forth
  <2>2. stored[id] = Own(id)
    BY <2>0, <2>1, NotPublished
  <2>3. Extends(published', published, Own(id))
    BY <1>10, <2>2 DEF Extends
  <2> QED BY <1>8, <1>10, <2>0, <2>3
<1> QED BY <1>0, <1>7, <1>9, <1>10, <1>11 DEF BrokerReads, Direct

LEMMA CompletionForward ==
  ASSUME TypeOK, TypeOK', CompletionInv, NEW qos \in Qos, Forward(qos)
  PROVE  CompletionInv'
<1>1. UNCHANGED <<responses, commands, outboundMsgs, published, completed, askedQos>>
  BY DEF Forward, outbound, requests
<1>2. \A j \in MsgId : Own(j)' = Own(j)
  BY <1>1 DEF Own
<1>3. PICK q : toClient' = Append(toClient, q)
  BY DEF Forward
<1>4. \A j \in MsgId : Confirmed(j) => Confirmed(j)'
  <2>1. /\ Len(toClient') = Len(toClient) + 1 /\ Len(toClient) \in Nat
        /\ \A k \in 1 .. Len(toClient) : toClient'[k] = toClient[k]
    BY <1>3, Sequences
  <2>2. 1 .. Len(toClient) \subseteq 1 .. Len(toClient')
    BY <2>1
  <2>3. \A p : Holds(toClient, p) => Holds(toClient', p)
    BY <2>1, <2>2 DEF Holds
  <2> QED BY <2>3 DEF Confirmed
<1> QED BY <1>1, <1>2, <1>4, CompletionSame

LEMMA CompletionOther ==
  ASSUME CompletionInv,
         UNCHANGED <<responses, commands, outboundMsgs, published, completed, askedQos, toClient>>
  PROVE  CompletionInv'
<1>1. \A j \in MsgId : Own(j)' = Own(j) /\ (Confirmed(j) => Confirmed(j)')
  BY DEF Own, Confirmed
<1> QED BY <1>1, CompletionSame

LEMMA CompletionLose ==
  ASSUME CompletionInv, Lose
  PROVE  CompletionInv'
<1>1. /\ commands' = <<>> /\ UNCHANGED <<published, completed, askedQos>>
      /\ \A id \in MsgId : responses'[id] = 0 /\ Own(id)' = 0
  BY DEF Lose, Own, Free
<1>2. \A m : ~Queued(m)'
  BY <1>1 DEF Queued
<1> QED BY <1>1, <1>2 DEF CompletionInv

LEMMA CompletionInit ==
  ASSUME Init
  PROVE  CompletionInv
<1>1. /\ commands = <<>> /\ published = <<>> /\ completed = <<>>
      /\ \A id \in MsgId : responses[id] = 0 /\ Own(id) = 0
  BY DEF Init, Own, Free
<1>2. \A m : ~Queued(m) /\ ~Holds(published, m) /\ ~Holds(completed, m)
  BY <1>1 DEF Queued, Holds
<1> QED BY <1>1, <1>2 DEF CompletionInv, Apart

\* The command taken was the only one with its message.
LEMMA CommandTaken ==
  ASSUME TypeOK, CompletionInv, TakeCommand
  PROVE  /\ Head(commands) \in Publication(outs) /\ Queued(Head(commands).msg)
         /\ \E k \in 1 .. Len(commands) : Head(commands) = commands[k]
         /\ \A k \in 1 .. Len(commands') : \E j \in 1 .. Len(commands) : commands'[k] = commands[j]
         /\ \A m : Queued(m)' => Queued(m) /\ m # Head(commands).msg
         /\ \A j, k \in 1 .. Len(commands') : j # k => commands'[j].msg # commands'[k].msg
<1>1. PICK p : p = Head(commands) /\ commands # <<>> /\ commands' = Tail(commands)
  BY DEF TakeCommand
<1>2. commands \in Seq(Publication(outs))
  BY DEF TypeOK
<1>3. /\ p = commands[1] /\ Len(commands) = Len(commands') + 1 /\ Len(commands') \in Nat
      /\ \A k \in 1 .. Len(commands') : commands'[k] = commands[k + 1]
  BY <1>1, <1>2
<1>4. /\ 1 \in 1 .. Len(commands)
      /\ \A k \in 1 .. Len(commands') : k + 1 \in 1 .. Len(commands) /\ k + 1 # 1
  BY <1>3
<1>5. p \in Publication(outs)
  BY <1>2, <1>3, <1>4
<1>6. Queued(p.msg)
  BY <1>3, <1>4 DEF Queued
<1>7. ASSUME NEW m, Queued(m)' PROVE Queued(m) /\ m # p.msg
  <2>1. PICK k \in 1 .. Len(commands') : commands'[k].msg = m
    BY <1>7 DEF Queued
  <2>2. commands[k + 1].msg = m
    BY <1>3, <2>1
  <2>3. k + 1 \in 1 .. Len(commands) /\ 1 \in 1 .. Len(commands) /\ k + 1 # 1
    BY <1>4
  <2>4. commands[k + 1].msg # commands[1].msg
    BY <2>3 DEF CompletionInv
  <2> QED BY <1>3, <2>2, <2>3, <2>4 DEF Queued
<1>8. \A j, k \in 1 .. Len(commands') : j # k => commands'[j].msg # commands'[k].msg
  <2> SUFFICES ASSUME NEW j \in 1 .. Len(commands'), NEW k \in 1 .. Len(commands'), j # k
               PROVE  commands'[j].msg # commands'[k].msg
    OBVIOUS
  <2>1. j + 1 # k + 1 /\ j + 1 \in 1 .. Len(commands) /\ k + 1 \in 1 .. Len(commands)
    BY <1>4
  <2>2. commands[j + 1].msg # commands[k + 1].msg
    BY <2>1 DEF CompletionInv
  <2> QED BY <1>3, <2>2
<1>9. /\ \E k \in 1 .. Len(commands) : p = commands[k]
      /\ \A k \in 1 .. Len(commands') : \E j \in 1 .. Len(commands) : commands'[k] = commands[j]
  BY <1>3, <1>4
<1> QED BY <1>1, <1>5, <1>6, <1>7, <1>8, <1>9

LEMMA CompletionStarted ==
  ASSUME TypeOK, TypeOK', CompletionInv, StartPublish
  PROVE  CompletionInv'
<1>1. PICK p, e :
        /\ p = Head(commands) /\ TakeCommand /\ p.qos > 0 /\ e.msg = p.msg
        /\ outboundMsgs' = [outboundMsgs EXCEPT ![p.id] = e]
        /\ responses' = [responses EXCEPT ![p.id] = p.msg]
        /\ UNCHANGED <<published, completed, askedQos, toClient>>
  BY DEF StartPublish, broker
<1>2. outboundMsgs \in [MsgId -> Exchange(outs)] /\ responses \in [MsgId -> 0 .. outs]
  BY DEF TypeOK
<1>5. p \in Publication(outs)
  BY <1>1, CommandTaken
<1>6. p.id \in MsgId /\ p.msg # 0
  BY <1>1, <1>5 DEF Publication, Numbered
<1>7. \A j \in MsgId : Own(j)' = IF j = p.id THEN p.msg ELSE Own(j)
  BY <1>1, <1>2, <1>6 DEF Own
<1>8. Queued(p.msg) /\ \A m : Queued(m)' => Queued(m) /\ m # p.msg
  BY <1>1, CommandTaken
<1>9. /\ ~Holds(published, p.msg) /\ ~Holds(completed, p.msg) /\ \A j \in MsgId : Own(j) # p.msg
      /\ \A m : Queued(m)' => ~Holds(published, m) /\ ~Holds(completed, m)
                              /\ \A j \in MsgId : Own(j) # m
  BY <1>8 DEF CompletionInv
<1>10. \A id \in MsgId : responses'[id] = Own(id)'
  BY <1>1, <1>2, <1>6, <1>7 DEF CompletionInv
<1>11. \A j, k \in 1 .. Len(commands') : j # k => commands'[j].msg # commands'[k].msg
  BY <1>1, CommandTaken
<1>12. \A m : Queued(m)' => ~Holds(published', m) /\ ~Holds(completed', m)
                            /\ \A j \in MsgId : Own(j)' # m
  BY <1>1, <1>7, <1>8, <1>9
<1>13. \A i, j \in MsgId : i # j /\ Own(i)' # 0 => Own(i)' # Own(j)'
  BY <1>7, <1>9 DEF CompletionInv
<1>14. \A j \in MsgId : Own(j)' # 0 =>
         ~Holds(completed', Own(j)') /\ (Holds(published', Own(j)') => Confirmed(j)')
  <2>1. \A j \in MsgId : Confirmed(j) => Confirmed(j)'
    BY <1>1 DEF Confirmed
  <2> QED BY <1>1, <1>7, <1>9, <2>1 DEF CompletionInv
<1>15. /\ Apart(published') /\ Apart(completed')
       /\ \A m : Holds(completed', m) => Holds(published', m) \/ askedQos'[m] = 0
  BY <1>1 DEF CompletionInv
<1> QED BY <1>10, <1>11, <1>12, <1>13, <1>14, <1>15 DEF CompletionInv

LEMMA CompletionStartedQoS0 ==
  ASSUME TypeOK, TypeOK', CompletionInv, DirectInv, StartPublishQoS0
  PROVE  CompletionInv'
<1>1. PICK p :
        /\ p = Head(commands) /\ TakeCommand /\ p.qos = 0
        /\ completed' = completed \/ Extends(completed', completed, p.msg)
        /\ UNCHANGED <<outboundMsgs, responses, published, askedQos, toClient>>
  BY DEF StartPublishQoS0, broker, Extends
<1>2. p.msg \in 1 .. outs
  <2>1. p \in Publication(outs)
    BY <1>1, CommandTaken
  <2> QED BY <2>1 DEF Publication, Numbered
<1>3. askedQos[p.msg] = 0
  BY <1>1, CommandTaken DEF DirectInv
<1>4. ~Holds(completed, p.msg) /\ \A j \in MsgId : Own(j) # p.msg
  BY <1>1, CommandTaken DEF CompletionInv
<1> QED BY <1>1, <1>2, <1>3, <1>4, CommandTaken, CompletionReported

LEMMA CompletionWritten ==
  ASSUME TypeOK, TypeOK', CompletionInv, DirectInv, WriteComplete
  PROVE  CompletionInv'
<1>1. /\ UNCHANGED <<commands, outboundMsgs, responses, published, askedQos, toClient>>
      /\ completed' = IF pendingWrite = 0 THEN completed ELSE Append(completed, pendingWrite)
  BY DEF WriteComplete, broker, requests
<1>2. CASE pendingWrite = 0
  BY <1>1, <1>2, CompletionOther
<1>3. CASE pendingWrite # 0
  <2>1. pendingWrite \in unnumbered /\ pendingWrite \in 1 .. outs
    BY <1>3 DEF DirectInv, TypeOK
  <2>2. /\ askedQos[pendingWrite] = 0 /\ ~Queued(pendingWrite) /\ ~Holds(completed, pendingWrite)
        /\ \A j \in MsgId : Own(j) # pendingWrite
    BY <1>3, <2>1 DEF DirectInv
  <2>3. Extends(completed', completed, pendingWrite)
    BY <1>1, <1>3 DEF Extends
  <2>4. \A m : Queued(m)' => Queued(m) /\ m # pendingWrite
    BY <1>1, <2>2 DEF Queued
  <2>5. \A j, k \in 1 .. Len(commands') : j # k => commands'[j].msg # commands'[k].msg
    BY <1>1 DEF CompletionInv
  <2> QED BY <1>1, <2>1, <2>2, <2>3, <2>4, <2>5, CompletionReported
<1> QED BY <1>2, <1>3

LEMMA CompletionSent ==
  ASSUME TypeOK, TypeOK', CompletionInv, NEW qos \in Qos, SendMessage(qos)
  PROVE  CompletionInv'
<1>1. PICK q : /\ commands' = Append(commands, q) /\ q.msg = outs + 1
  <2>1. PICK id : commands' = Append(commands, Publish(id, outs + 1, qos))
    BY DEF SendMessage
  <2> QED BY <2>1 DEF Publish
<1>2. /\ UNCHANGED <<outboundMsgs, responses, published, completed, toClient>>
      /\ askedQos' = [m \in 1 .. outs + 1 |-> IF m = outs + 1 THEN qos ELSE askedQos[m]]
  BY DEF SendMessage, outbound, broker
<1>3. outs \in Nat /\ published \in Seq(1 .. outs) /\ completed \in Seq(1 .. outs)
      /\ commands \in Seq(Publication(outs))
  BY DEF TypeOK
<1>4. /\ ~Holds(published, outs + 1) /\ ~Holds(completed, outs + 1)
      /\ \A j \in MsgId : Own(j) # outs + 1
  <2>1. outs + 1 \notin 1 .. outs /\ outs + 1 \notin 0 .. outs
    BY <1>3
  <2> QED BY <1>3, <2>1, OwnType DEF Holds
<1>5. ~Queued(outs + 1)
  <2>1. ASSUME NEW k \in 1 .. Len(commands) PROVE commands[k].msg # outs + 1
    <3>1. commands[k] \in Publication(outs)
      BY <1>3
    <3> QED BY <1>3, <3>1 DEF Publication, Numbered
  <2> QED BY <2>1 DEF Queued
<1>6. /\ Len(commands') = Len(commands) + 1 /\ Len(commands) \in Nat
      /\ commands'[Len(commands) + 1] = q
      /\ \A k \in 1 .. Len(commands) : commands'[k] = commands[k]
  BY <1>1, <1>3
<1>7. \A k \in 1 .. Len(commands') : k \in 1 .. Len(commands) \/ k = Len(commands) + 1
  BY <1>6
<1>8. \A m : Queued(m)' => Queued(m) \/ m = outs + 1
  BY <1>1, <1>6, <1>7 DEF Queued
<1>9. \A j, k \in 1 .. Len(commands') : j # k => commands'[j].msg # commands'[k].msg
  BY <1>1, <1>5, <1>6, <1>7 DEF CompletionInv, Queued
<1>10. \A j \in MsgId : Own(j)' = Own(j) /\ (Confirmed(j) => Confirmed(j)')
  BY <1>2 DEF Own, Confirmed
<1>11. \A m : Queued(m)' => ~Holds(published', m) /\ ~Holds(completed', m)
                            /\ \A id \in MsgId : Own(id)' # m
  BY <1>2, <1>4, <1>8, <1>10 DEF CompletionInv
<1>12. \A m : Holds(completed', m) => Holds(published', m) \/ askedQos'[m] = 0
  <2>1. ASSUME NEW m, Holds(completed, m) PROVE m \in 1 .. outs + 1 /\ m # outs + 1
    <3>1. m \in 1 .. outs
      BY <1>3, <2>1 DEF Holds
    <3> QED BY <1>3, <3>1
  <2> QED BY <1>2, <2>1 DEF CompletionInv
<1> QED BY <1>2, <1>9, <1>10, <1>11, <1>12 DEF CompletionInv

\* What the broker publishes otherwise is the message of an exchange.
LEMMA PublishedOwn ==
  ASSUME TypeOK, OutboundInv, CompletionInv, BrokerReads, ~Direct(Head(toBroker))
  PROVE  \/ UNCHANGED published
         \/ \E id \in MsgId : Own(id) # 0 /\ Extends(published', published, Own(id))
<1>0. PICK p, id : p = Head(toBroker) /\ id = p.id
  OBVIOUS
<1>1. /\ p.type \in PacketType /\ Holds(toBroker, p) /\ id \in MsgId
      /\ OutboundCount(id)[p.type] # 0 \/ ~Forth(p.type)
  BY <1>0, ReadPassed DEF Direct
<1>2. CASE p.type = "PUBLISH" /\ published' = Append(published, p.msg)
  <2>1. OutboundCount(id)["PUBLISH"] # 0
    BY <1>1, <1>2 DEF Forth
  <2>2. Own(id) # 0
    BY <1>1, <2>1, NotPublished
  <2>3. p.msg = Own(id)
    <3>1. id # 0
      BY <1>1 DEF MsgId
    <3> QED BY <1>0, <1>1, <1>2, <3>1 DEF OutboundInv, Fits, Own
  <2> QED BY <1>1, <1>2, <2>2, <2>3 DEF Extends
<1>3. CASE p.type = "PUBREL" /\ published' = Append(published, stored[id])
  <2>1. OutboundCount(id)["PUBREL"] # 0
    BY <1>1, <1>3 DEF Forth
  <2>2. Own(id) # 0 /\ stored[id] = Own(id)
    BY <1>1, <2>1, NotPublished
  <2> QED BY <1>1, <1>3, <2>2 DEF Extends
<1> QED BY <1>0, <1>2, <1>3 DEF BrokerReads, Direct

\* A step that begins no publication with QoS 0 and ends none.
LEMMA DirectKept ==
  ASSUME DirectInv, UNCHANGED <<askedQos, commands, unnumbered, pendingWrite>>,
         \A id \in MsgId : Own(id)' = 0 \/ Own(id)' = Own(id),
         \A m : Holds(completed', m) => Holds(completed, m) \/ askedQos[m] # 0,
         \A m : Holds(published', m) => Holds(published, m) \/ ~DirectIn(toBroker', m),
         \A m : DirectIn(toBroker', m) => DirectIn(toBroker, m),
         DirectOnce(toBroker')
  PROVE  DirectInv'
<1>1. \A m : Queued(m)' <=> Queued(m)
  BY DEF Queued
<1>2. \A m \in unnumbered' : askedQos'[m] = 0 /\ ~Queued(m)' /\ ~Holds(completed', m)
  BY <1>1 DEF DirectInv
<1>3. \A m : DirectIn(toBroker', m) => askedQos'[m] = 0 /\ ~Queued(m)' /\ ~Holds(published', m)
  BY <1>1 DEF DirectInv
<1> QED BY <1>2, <1>3 DEF DirectInv

\* Acknowledgements publish nothing.
LEMMA DirectAcknowledged ==
  ASSUME TypeOK, DirectInv,
         \/ UNCHANGED toBroker
         \/ \E a \in AckPacket : toBroker' = Append(toBroker, a)
  PROVE  /\ \A m : DirectIn(toBroker', m) => DirectIn(toBroker, m)
         /\ DirectOnce(toBroker')
<1>0. DirectOnce(toBroker)
  BY DEF DirectInv
<1>1. CASE UNCHANGED toBroker
  BY <1>0, <1>1
<1>2. ASSUME NEW a \in AckPacket, toBroker' = Append(toBroker, a)
      PROVE  /\ \A m : DirectIn(toBroker', m) => DirectIn(toBroker, m)
             /\ DirectOnce(toBroker')
  <2>1. a \in BrokerPacket /\ toBroker \in Seq(BrokerPacket)
    BY Sequences
  <2>2. ~Direct(a)
    BY DEF Direct, AckPacket, AckType
  <2> QED BY <1>0, <1>2, <2>1, <2>2, DirectAppend
<1> QED BY <1>1, <1>2

LEMMA DirectReceive ==
  ASSUME TypeOK, CompletionInv, DirectInv, Receive
  PROVE  DirectInv'
<1>1. UNCHANGED <<askedQos, commands, unnumbered, pendingWrite, published>>
  BY DEF Receive, HandlePublishes, HandlePubrels, HandlePubacks, HandlePubrecs, HandlePubcomps,
         outbound, direct, requests, broker
<1>2. PICK type \in AckType \cup {"PUBLISH"} : Take(type)
  BY DEF Receive, HandlePublishes, HandlePubrels, HandlePubacks, HandlePubrecs, HandlePubcomps,
         AckType
<1>3. PICK p, id : p = Head(toClient) /\ id = p.id
  OBVIOUS
<1>4. p.type \in AckType \/ p.qos # 0 => id \in MsgId
  <2>1. ReceiveType /\ ins \in Nat
    BY Bounds, TypeParts DEF BrokerType
  <2>2. "PUBLISH" \notin AckType
    BY DEF AckType
  <2> QED BY <1>2, <1>3, <2>1, <2>2, TakeHead
<1>5. \/ UNCHANGED toBroker
      \/ \E a \in AckPacket : toBroker' = Append(toBroker, a)
  <2>1. ASSUME NEW t \in AckType, id \in MsgId, Send(Ack(t, id))
        PROVE  \/ UNCHANGED toBroker
               \/ \E a \in AckPacket : toBroker' = Append(toBroker, a)
    <3>1. Ack(t, id) \in AckPacket
      BY <2>1 DEF Ack, AckPacket
    <3> QED BY <2>1, <3>1 DEF Send, Write
  <2>2. {"PUBACK", "PUBREC", "PUBREL", "PUBCOMP"} \subseteq AckType
    BY DEF AckType
  <2>3. CASE HandlePublishes
    BY <1>3, <1>4, <2>1, <2>2, <2>3 DEF HandlePublishes, socket
  <2>4. CASE HandlePubrels \/ HandlePubrecs
    <3>1. id \in MsgId
      BY <1>3, <1>4, <2>2, <2>4 DEF HandlePubrels, HandlePubrecs, Take
    <3> QED BY <1>3, <2>1, <2>2, <2>4, <3>1 DEF HandlePubrels, HandlePubrecs
  <2>5. CASE HandlePubacks \/ HandlePubcomps
    BY <2>5 DEF HandlePubacks, HandlePubcomps, socket
  <2> QED BY <2>3, <2>4, <2>5 DEF Receive
<1>6. \A j \in MsgId : Own(j)' = 0 \/ Own(j)' = Own(j)
  <2>1. outboundMsgs \in [MsgId -> Exchange(outs)]
    BY DEF TypeOK
  <2>2. PICK c, d : \/ UNCHANGED outboundMsgs
                    \/ outboundMsgs' = [outboundMsgs EXCEPT
                         ![id] = IF c THEN Free ELSE IF d THEN [@ EXCEPT !.next = "PUBCOMP"] ELSE @]
    <3>1. CASE HandlePublishes \/ HandlePubrels
      BY <3>1 DEF HandlePublishes, HandlePubrels, outbound
    <3>2. CASE HandlePubacks
      BY <1>3, <3>2 DEF HandlePubacks
    <3>3. CASE HandlePubrecs
      BY <1>3, <3>3 DEF HandlePubrecs
    <3>4. CASE HandlePubcomps
      BY <1>3, <3>4 DEF HandlePubcomps
    <3> QED BY <3>1, <3>2, <3>3, <3>4 DEF Receive
  <2>3. ASSUME NEW j \in MsgId PROVE [outboundMsgs[j] EXCEPT !.next = "PUBCOMP"].msg = Own(j)
    <3>1. outboundMsgs[j] \in Exchange(outs)
      BY <2>1
    <3> QED BY <3>1 DEF Exchange, Own
  <2>4. Free.msg = 0
    BY DEF Free
  <2> QED BY <2>1, <2>2, <2>3, <2>4 DEF Own
<1>7. \A m : Holds(completed', m) => Holds(completed, m) \/ askedQos[m] # 0
  <2>1. CASE UNCHANGED completed
    BY <2>1
  <2>2. CASE (HandlePubacks \/ HandlePubcomps) /\ ~UNCHANGED completed
    <3>1. id \in MsgId
      BY <1>3, <1>4, <2>2 DEF HandlePubacks, HandlePubcomps, Take, AckType
    <3>2. responses[id] # 0 /\ completed' = Append(completed, responses[id])
      BY <1>3, <2>2 DEF HandlePubacks, HandlePubcomps, Complete
    <3>3. responses[id] = Own(id) /\ askedQos[Own(id)] # 0 /\ Own(id) \in 1 .. outs
      BY <3>1, <3>2, OwnType DEF CompletionInv, DirectInv
    <3>4. completed \in Seq(1 .. outs) /\ Extends(completed', completed, Own(id))
      BY <3>2, <3>3 DEF TypeOK, Extends
    <3> QED BY <3>3, <3>4, MessageAdded
  <2>3. HandlePublishes \/ HandlePubrels \/ HandlePubrecs => UNCHANGED completed
    BY DEF HandlePublishes, HandlePubrels, HandlePubrecs, outbound
  <2> QED BY <2>1, <2>2, <2>3 DEF Receive
<1> QED BY <1>1, <1>5, <1>6, <1>7, DirectAcknowledged, DirectKept

LEMMA DirectBroker ==
  ASSUME TypeOK, OutboundInv, CompletionInv, DirectInv, BrokerReads
  PROVE  DirectInv'
<1>1. /\ UNCHANGED <<askedQos, commands, unnumbered, pendingWrite, completed, outboundMsgs>>
      /\ toBroker' = Tail(toBroker)
  BY DEF BrokerReads, requests, outbound, direct
<1>2. toBroker # <<>> /\ toBroker \in Seq(BrokerPacket)
  <2>1. toBroker # <<>>
    BY DEF BrokerReads, TypeOK
  <2> QED BY <2>1, Sequences
<1>3. PICK p : p = Head(toBroker)
  OBVIOUS
<1>4. /\ \A m : DirectIn(toBroker', m) => DirectIn(toBroker, m)
      /\ DirectOnce(toBroker')
      /\ Direct(p) => ~DirectIn(toBroker', p.msg)
  BY <1>1, <1>2, <1>3, DirectTail DEF DirectInv
<1>5. \A m : Holds(published', m) => Holds(published, m) \/ ~DirectIn(toBroker', m)
  <2>0. published \in Seq(1 .. outs)
    BY DEF TypeOK
  <2>1. CASE UNCHANGED published
    BY <2>1
  <2>2. ASSUME NEW id \in MsgId, Own(id) # 0, Extends(published', published, Own(id))
        PROVE  \A m : Holds(published', m) => Holds(published, m) \/ ~DirectIn(toBroker', m)
    <3>1. Own(id) \in 1 .. outs /\ askedQos[Own(id)] # 0
      BY <2>2, OwnType DEF DirectInv
    <3>2. ~DirectIn(toBroker', Own(id))
      BY <1>4, <3>1 DEF DirectInv
    <3> QED BY <2>0, <2>2, <3>1, <3>2, MessageAdded
  <2>3. CASE Direct(p)
    <3>1. Extends(published', published, p.msg)
      BY <1>3, <2>3 DEF BrokerReads, Direct, Extends
    <3>2. p.msg \in 1 .. outs
      <4>1. p \in BrokerPacket
        BY <1>3, ReadPassed
      <4>2. outs \in Nat
        BY DEF TypeOK
      <4> QED BY <2>3, <4>1, <4>2, PacketFacts DEF Direct, BrokerPacket
    <3> QED BY <1>4, <2>0, <2>3, <3>1, <3>2, MessageAdded
  <2> QED BY <1>3, <2>1, <2>2, <2>3, PublishedOwn
<1> QED BY <1>1, <1>4, <1>5, DirectKept DEF Own

LEMMA DirectWritten ==
  ASSUME TypeOK, DirectInv, WriteComplete
  PROVE  DirectInv'
<1>1. /\ UNCHANGED <<askedQos, commands, outboundMsgs, published, toBroker>>
      /\ completed' = IF pendingWrite = 0 THEN completed ELSE Append(completed, pendingWrite)
      /\ unnumbered' = unnumbered \ {pendingWrite} /\ pendingWrite' = 0
  BY DEF WriteComplete, requests, broker, socket
<1>2. \A m : (Queued(m)' <=> Queued(m)) /\ \A id \in MsgId : Own(id)' = Own(id)
  BY <1>1 DEF Queued, Own
<1>3. \A m : Holds(completed', m) => Holds(completed, m) \/ m = pendingWrite
  <2>1. CASE pendingWrite = 0
    BY <1>1, <2>1
  <2>2. CASE pendingWrite # 0
    <3>1. pendingWrite \in 1 .. outs /\ completed \in Seq(1 .. outs)
      BY <2>2 DEF TypeOK
    <3>2. Extends(completed', completed, pendingWrite)
      BY <1>1, <2>2 DEF Extends
    <3> QED BY <3>1, <3>2, MessageAdded
  <2> QED BY <2>1, <2>2
<1> QED BY <1>1, <1>2, <1>3 DEF DirectInv

LEMMA DirectStarted ==
  ASSUME TypeOK, CompletionInv, DirectInv, StartPublish \/ StartPublishQoS0
  PROVE  DirectInv'
<1>1. PICK p :
        /\ p = Head(commands) /\ TakeCommand /\ toBroker' = Append(toBroker, p)
        /\ UNCHANGED <<published, askedQos>>
        /\ \/ /\ p.qos > 0 /\ UNCHANGED <<completed, unnumbered, pendingWrite>>
              /\ \E e : outboundMsgs' = [outboundMsgs EXCEPT ![p.id] = e] /\ e.msg = p.msg
           \/ /\ p.qos = 0 /\ UNCHANGED outboundMsgs
              /\ \/ /\ pendingWrite' = p.msg /\ unnumbered' = unnumbered \cup {p.msg}
                    /\ UNCHANGED completed
                 \/ /\ Extends(completed', completed, p.msg)
                    /\ UNCHANGED <<unnumbered, pendingWrite>>
  <2>1. TakeCommand /\ toBroker' = Append(toBroker, Head(commands)) /\ UNCHANGED published
        /\ UNCHANGED askedQos
    BY DEF StartPublish, StartPublishQoS0, TakeCommand, Write, broker
  <2>2. CASE StartPublish
    <3>1. PICK q, e : /\ q = Head(commands) /\ e.msg = q.msg /\ q.qos > 0
                      /\ outboundMsgs' = [outboundMsgs EXCEPT ![q.id] = e]
      BY <2>2 DEF StartPublish
    <3> QED BY <2>1, <2>2, <3>1 DEF StartPublish, direct
  <2>3. CASE StartPublishQoS0
    BY <2>1, <2>3 DEF StartPublishQoS0, Extends
  <2> QED BY <2>2, <2>3
<1>2. p \in Publication(outs)
  BY <1>1, CommandTaken
<1>3. /\ p.type = "PUBLISH" /\ p.msg \in 1 .. outs /\ p.qos \in 0 .. 2
      /\ p.qos > 0 => p.id \in MsgId
  BY <1>2 DEF Publication, Numbered
<1>4. Queued(p.msg) /\ \A m : Queued(m)' => Queued(m) /\ m # p.msg
  BY <1>1, CommandTaken
<1>5. /\ \A k \in 1 .. Len(commands') : askedQos'[commands'[k].msg] = commands'[k].qos
      /\ askedQos[p.msg] = p.qos
  BY <1>1, CommandTaken DEF DirectInv
<1>6. ~Holds(published, p.msg) /\ ~Holds(completed, p.msg)
  BY <1>4 DEF CompletionInv
<1>7. \A id \in MsgId : Own(id)' # 0 => askedQos'[Own(id)'] # 0
  <2>1. outboundMsgs \in [MsgId -> Exchange(outs)]
    BY DEF TypeOK
  <2>2. ASSUME NEW id \in MsgId
        PROVE  Own(id)' = Own(id) \/ (p.qos > 0 /\ Own(id)' = p.msg)
    BY <1>1, <1>3, <2>1 DEF Own
  <2>3. p.qos > 0 => askedQos[p.msg] # 0
    BY <1>3, <1>5
  <2> QED BY <1>1, <2>2, <2>3 DEF DirectInv
<1>8. \A m : Holds(completed', m) =>
        Holds(completed, m) \/ (m = p.msg /\ unnumbered' = unnumbered)
  <2>1. completed \in Seq(1 .. outs)
    BY DEF TypeOK
  <2> QED BY <1>1, <1>3, <2>1, MessageAdded
<1>9. \A m \in unnumbered' : askedQos'[m] = 0 /\ ~Queued(m)' /\ ~Holds(completed', m)
  <2>1. \A m \in unnumbered' : m \in unnumbered \/ (m = p.msg /\ p.qos = 0 /\ UNCHANGED completed)
    BY <1>1
  <2>2. p.msg \notin unnumbered
    BY <1>4 DEF DirectInv
  <2> QED BY <1>1, <1>4, <1>5, <1>6, <1>8, <2>1, <2>2 DEF DirectInv
<1>10. pendingWrite' \in unnumbered' \cup {0}
  BY <1>1 DEF DirectInv
<1>11. ~DirectIn(toBroker, p.msg)
  BY <1>4 DEF DirectInv
<1>12. /\ \A m : DirectIn(toBroker', m) => DirectIn(toBroker, m) \/ (p.qos = 0 /\ m = p.msg)
       /\ DirectOnce(toBroker')
  <2>1. p \in BrokerPacket /\ toBroker \in Seq(BrokerPacket)
    BY <1>2, Sequences DEF BrokerPacket
  <2>2. DirectOnce(toBroker)
    BY DEF DirectInv
  <2>3. \A m : Direct(p) /\ p.msg = m => p.qos = 0 /\ m = p.msg
    BY DEF Direct
  <2> QED BY <1>1, <1>11, <2>1, <2>2, <2>3, DirectAppend
<1>13. \A m : DirectIn(toBroker', m) => askedQos'[m] = 0 /\ ~Queued(m)' /\ ~Holds(published', m)
  BY <1>1, <1>4, <1>5, <1>6, <1>12 DEF DirectInv
<1> QED BY <1>5, <1>7, <1>9, <1>10, <1>12, <1>13 DEF DirectInv

LEMMA DirectSent ==
  ASSUME TypeOK, DirectInv, NEW qos \in Qos, SendMessage(qos)
  PROVE  DirectInv'
<1>1. PICK q : commands' = Append(commands, q) /\ q.msg = outs + 1 /\ q.qos = qos
  <2>1. PICK id, c : commands' = Append(commands, Publish(id, outs + 1, c)) /\ c = qos
    BY DEF SendMessage
  <2> QED BY <2>1 DEF Publish
<1>2. /\ UNCHANGED <<outboundMsgs, published, completed, toBroker, unnumbered, pendingWrite>>
      /\ askedQos' = [m \in 1 .. outs + 1 |-> IF m = outs + 1 THEN qos ELSE askedQos[m]]
  BY DEF SendMessage, outbound, direct, broker, socket
<1>3. outs \in Nat /\ commands \in Seq(Publication(outs)) /\ unnumbered \subseteq 1 .. outs
  BY DEF TypeOK
<1>4. \A m \in 1 .. outs : m # outs + 1 /\ askedQos'[m] = askedQos[m]
  BY <1>2, <1>3
<1>5. /\ Len(commands') = Len(commands) + 1 /\ Len(commands) \in Nat
      /\ commands'[Len(commands) + 1] = q
      /\ \A k \in 1 .. Len(commands) : commands'[k] = commands[k]
  BY <1>1, <1>3
<1>6. \A k \in 1 .. Len(commands') : k \in 1 .. Len(commands) \/ k = Len(commands) + 1
  BY <1>5
<1>7. \A m \in 1 .. outs : Queued(m)' => Queued(m)
  BY <1>1, <1>4, <1>5, <1>6 DEF Queued
<1>8. \A k \in 1 .. Len(commands) : commands[k].msg \in 1 .. outs
  <2>1. ASSUME NEW k \in 1 .. Len(commands) PROVE commands[k].msg \in 1 .. outs
    <3>1. commands[k] \in Publication(outs)
      BY <1>3
    <3> QED BY <3>1 DEF Publication, Numbered
  <2> QED BY <2>1
<1>9. \A k \in 1 .. Len(commands') : askedQos'[commands'[k].msg] = commands'[k].qos
  <2>1. outs + 1 \in 1 .. outs + 1
    BY <1>3
  <2>2. askedQos'[q.msg] = q.qos
    BY <1>1, <1>2, <2>1
  <2> QED BY <1>4, <1>5, <1>6, <1>8, <2>2 DEF DirectInv
<1>10. \A id \in MsgId : Own(id)' # 0 => askedQos'[Own(id)'] # 0
  BY <1>2, <1>4, OwnType DEF DirectInv, Own
<1>11. \A m \in unnumbered' : askedQos'[m] = 0 /\ ~Queued(m)' /\ ~Holds(completed', m)
  BY <1>2, <1>3, <1>4, <1>7 DEF DirectInv
<1>12. \A m : DirectIn(toBroker', m) => askedQos'[m] = 0 /\ ~Queued(m)' /\ ~Holds(published', m)
  <2>1. ASSUME NEW k \in 1 .. Len(toBroker), Direct(toBroker[k])
        PROVE  toBroker[k].msg \in 1 .. outs
    <3>1. toBroker[k] \in AckPacket \cup Publication(outs)
      BY Sequences DEF BrokerPacket
    <3> QED BY <1>3, <2>1, <3>1, PacketFacts DEF Direct
  <2>2. \A m : DirectIn(toBroker, m) => m \in 1 .. outs
    BY <2>1 DEF DirectIn
  <2> QED BY <1>2, <1>4, <1>7, <2>2 DEF DirectInv
<1> QED BY <1>2, <1>9, <1>10, <1>11, <1>12 DEF DirectInv

LEMMA DirectCleared ==
  ASSUME NEW c, NEW b, c = <<>>, b = <<>>
  PROVE  /\ 1 .. Len(c) = {} /\ DirectOnce(b) /\ \A m : ~DirectIn(b, m)
<1>1. Len(<<>>) = 0 /\ 1 .. 0 = {}
  OBVIOUS
<1> QED BY <1>1 DEF DirectOnce, DirectIn

LEMMA DirectStep ==
  ASSUME TypeOK, TypeOK', ExchangeInv, CompletionInv, DirectInv, [Next]_vars
  PROVE  DirectInv'
<1>0. OutboundInv /\ QueueInv
  BY DEF ExchangeInv
<1>1. CASE Receive
  BY <1>1, DirectReceive
<1>2. CASE BrokerReads
  BY <1>0, <1>2, DirectBroker
<1>3. CASE WriteComplete \/ StartPublish \/ StartPublishQoS0
  BY <1>3, DirectWritten, DirectStarted
<1>4. ASSUME NEW qos \in Qos, SendMessage(qos) PROVE DirectInv'
  BY <1>4, DirectSent
<1>5. CASE ReadySocket \/ WriteAvailable \/ (\E qos \in Qos : Forward(qos)) \/ UNCHANGED vars
  <2>1. UNCHANGED <<askedQos, commands, unnumbered, pendingWrite, outboundMsgs, completed, published>>
    BY <1>5 DEF ReadySocket, WriteAvailable, Forward, vars, outbound, direct, requests, broker
  <2>2. \/ UNCHANGED toBroker
        \/ \E a \in AckPacket : toBroker' = Append(toBroker, a)
    BY <1>0, <1>5, FlushCount DEF ReadySocket, Forward, vars, socket
  <2> QED BY <2>1, <2>2, DirectAcknowledged, DirectKept DEF Own
<1>6. CASE Lose
  <2>1. /\ commands' = <<>> /\ toBroker' = <<>> /\ unnumbered' = {} /\ pendingWrite' = 0
        /\ \A id \in MsgId : Own(id)' = 0
    BY <1>6 DEF Lose, Own, Free
  <2> QED BY <2>1, DirectCleared DEF DirectInv
<1> QED BY <1>1, <1>2, <1>3, <1>4, <1>5, <1>6 DEF Next

LEMMA DirectInit ==
  ASSUME Init
  PROVE  DirectInv
<1>1. /\ commands = <<>> /\ toBroker = <<>> /\ unnumbered = {} /\ pendingWrite = 0
      /\ \A id \in MsgId : Own(id) = 0
  BY DEF Init, Own, Free
<1> QED BY <1>1, DirectCleared DEF DirectInv

LEMMA CompletionStep ==
  ASSUME TypeOK, TypeOK', ExchangeInv, CompletionInv, DirectInv, [Next]_vars
  PROVE  CompletionInv'
<1>0. OutboundInv
  BY DEF ExchangeInv
<1>1. ASSUME Receive PROVE CompletionInv'
  BY <1>0, <1>1, CompletionClient, CompletionEnds DEF Receive
<1>2. ASSUME BrokerReads \/ Lose PROVE CompletionInv'
  BY <1>0, <1>2, CompletionBroker, CompletionLose
<1>3. ASSUME StartPublish \/ StartPublishQoS0 \/ WriteComplete PROVE CompletionInv'
  BY <1>3, CompletionStarted, CompletionStartedQoS0, CompletionWritten
<1>4. ASSUME NEW qos \in Qos, Forward(qos) \/ SendMessage(qos) PROVE CompletionInv'
  BY <1>4, CompletionForward, CompletionSent
<1>5. ASSUME ReadySocket \/ WriteAvailable \/ UNCHANGED vars PROVE CompletionInv'
  <2>1. UNCHANGED <<responses, commands, outboundMsgs, published, completed, askedQos, toClient>>
    BY <1>5 DEF ReadySocket, WriteAvailable, vars, outbound, requests, broker
  <2> QED BY <2>1, CompletionOther
<1> QED BY <1>1, <1>2, <1>3, <1>4, <1>5 DEF Next

\* A publication of ours waits in one place; with QoS 0 its packet is the only
\* one, and it is not published while it is under way.
THEOREM CompletionKept == Spec => [](CompletionInv /\ DirectInv)
<1>1. Init => CompletionInv /\ DirectInv
  BY CompletionInit, DirectInit
<1>2. TypeOK /\ TypeOK' /\ ExchangeInv /\ CompletionInv /\ DirectInv /\ [Next]_vars
        => CompletionInv' /\ DirectInv'
  BY CompletionStep, DirectStep
<1> QED BY <1>1, <1>2, TypeCorrect, ExchangesCorrect, PTL DEF Spec

\* A publication of our own is published once and reported complete once,
\* however often ids are used again and connections are lost: when the broker
\* has published it if it is to be acknowledged, and with QoS 0 only when it is
\* no longer a command.
THEOREM CompletionCorrect == Spec => []CompletedWhenPublished
<1>1. TypeOK /\ CompletionInv => CompletedWhenPublished
  <2> SUFFICES ASSUME TypeOK, CompletionInv PROVE CompletedWhenPublished
    OBVIOUS
  <2>1. ASSUME NEW i \in 1 .. Len(completed)
        PROVE  IF askedQos[completed[i]] > 0
               THEN \E j \in 1 .. Len(published) : completed[i] = published[j]
               ELSE \A k \in 1 .. Len(commands) : commands[k].msg # completed[i]
    <3>1. Holds(completed, completed[i])
      BY DEF Holds
    <3>2. askedQos[completed[i]] > 0 => Holds(published, completed[i])
      BY <3>1 DEF CompletionInv
    <3>3. ~Queued(completed[i])
      BY <3>1 DEF CompletionInv
    <3> QED BY <3>2, <3>3 DEF Holds, Queued
  <2> QED BY <2>1 DEF CompletionInv, CompletedWhenPublished, Apart
<1> QED BY <1>1, TypeCorrect, CompletionKept, PTL

=============================================================================
