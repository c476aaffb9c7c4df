--------------------------- MODULE MessageOrderProofs ---------------------------
(***************************************************************************)
(* The order in which MessageDelivery gives messages to messageArrived,    *)
(* and the broker publishes ours, from the exchanges that                  *)
(* MessageDeliveryProofs shows to go on; and from it, that each direction  *)
(* of the connection implements OrderedDelivery.                           *)
(***************************************************************************)
EXTENDS MessageDeliveryProofs
-----------------------------------------------------------------------------
(* Messages are received in the order in which they were forwarded *)

\* The message a packet is about, of the exchanges ex.
MsgOf(p, ex) == IF p.type = "PUBLISH" THEN p.msg ELSE ex[p.id].msg

\* The packets of a type are in the order of their messages.
InOrder(seq, type, ex) ==
  \A j, k \in 1 .. Len(seq) : j < k /\ seq[j].type = type /\ seq[k].type = type =>
    MsgOf(seq[j], ex) < MsgOf(seq[k], ex)

\* The messages of the packets of a type, QoS 2 ones if they are publications.
Between(seq, type, ex, low, high) ==
  \A p : Holds(seq, p) /\ p.type = type /\ (type = "PUBLISH" => p.qos = 2) =>
    MsgOf(p, ex) \in low + 1 .. high

\* A QoS 2 message goes from its PUBLISH to PUBREC, in the queue and in the
\* socket, then to PUBREL, then to messageArrived: at any time four messages
\* separate these places.
Cuts(a, b, c, d) ==
  /\ a <= b /\ b <= c /\ c <= d /\ d <= ins
  /\ \A m : Holds(received, m) /\ qosOf[m] = 2 => m <= a
  /\ Between(toClient, "PUBREL", sending, a, b)
  /\ Between(toBroker, "PUBREC", sending, b, c)
  /\ Between(outboundQueue, "PUBREC", sending, c, d)
  /\ Between(toClient, "PUBLISH", sending, d, ins)

\* No message of its quality of service has been received that comes after a
\* publication under way.
NotReceived ==
  \A p : Holds(toClient, p) /\ p.type = "PUBLISH" =>
    /\ qosOf[p.msg] = p.qos
    /\ \A m : Holds(received, m) /\ qosOf[m] = p.qos => m < p.msg

OrderInv ==
  /\ InOrder(toClient, "PUBLISH", sending) /\ InOrder(toClient, "PUBREL", sending)
  /\ InOrder(toBroker, "PUBREC", sending)
  /\ \E a, b, c, d \in Nat : Cuts(a, b, c, d)
  /\ NotReceived
  /\ \A id \in MsgId : sending[id].msg # 0 => qosOf[sending[id].msg] = sending[id].qos
  /\ ReceivedInOrder

LEMMA OrderTail ==
  ASSUME NEW S, NEW seq \in Seq(S), seq # <<>>, NEW type, NEW ex, InOrder(seq, type, ex)
  PROVE  /\ InOrder(Tail(seq), type, ex)
         /\ Head(seq).type = type =>
              \A p : Holds(Tail(seq), p) /\ p.type = type => MsgOf(Head(seq), ex) < MsgOf(p, ex)
<1>1. /\ Head(seq) = seq[1] /\ Len(seq) = Len(Tail(seq)) + 1 /\ Len(Tail(seq)) \in Nat
      /\ \A k \in 1 .. Len(Tail(seq)) : Tail(seq)[k] = seq[k + 1]
  OBVIOUS
<1>2. /\ 1 \in 1 .. Len(seq)
      /\ \A k \in 1 .. Len(Tail(seq)) : k + 1 \in 1 .. Len(seq) /\ 1 < k + 1
      /\ \A j, k \in 1 .. Len(Tail(seq)) : j < k => j + 1 < k + 1
  BY <1>1
<1>3. InOrder(Tail(seq), type, ex)
  BY <1>1, <1>2 DEF InOrder
<1>4. ASSUME Head(seq).type = type, NEW p, Holds(Tail(seq), p), p.type = type
      PROVE  MsgOf(Head(seq), ex) < MsgOf(p, ex)
  <2>1. PICK k \in 1 .. Len(Tail(seq)) : seq[k + 1] = p
    BY <1>1, <1>4 DEF Holds
  <2> QED BY <1>1, <1>2, <1>4, <2>1 DEF InOrder
<1> QED BY <1>3, <1>4

LEMMA OrderAppend ==
  ASSUME NEW S, NEW seq \in Seq(S), NEW x \in S, NEW type, NEW ex, InOrder(seq, type, ex),
         x.type = type =>
           \A p : Holds(seq, p) /\ p.type = type => MsgOf(p, ex) < MsgOf(x, ex)
  PROVE  InOrder(Append(seq, x), type, ex)
<1>1. /\ Len(Append(seq, x)) = Len(seq) + 1 /\ Append(seq, x)[Len(seq) + 1] = x
      /\ Len(seq) \in Nat
      /\ \A k \in 1 .. Len(seq) : Append(seq, x)[k] = seq[k]
  OBVIOUS
<1>2. \A j, k \in 1 .. Len(seq) + 1 : j < k =>
        j \in 1 .. Len(seq) /\ (k \in 1 .. Len(seq) \/ k = Len(seq) + 1)
  BY <1>1
<1>3. \A j \in 1 .. Len(seq) : Holds(seq, seq[j])
  BY DEF Holds
<1> QED BY <1>1, <1>2, <1>3 DEF InOrder

\* Packets whose exchanges keep their messages stay in order.
LEMMA OrderSame ==
  ASSUME NEW seq, NEW type, NEW ex, NEW ex2,
         \A p : Holds(seq, p) /\ p.type = type => MsgOf(p, ex2) = MsgOf(p, ex)
  PROVE  /\ InOrder(seq, type, ex) => InOrder(seq, type, ex2)
         /\ \A low, high : Between(seq, type, ex, low, high) => Between(seq, type, ex2, low, high)
<1>1. \A k \in 1 .. Len(seq) : seq[k].type = type => MsgOf(seq[k], ex2) = MsgOf(seq[k], ex)
  BY DEF Holds
<1> QED BY <1>1 DEF InOrder, Between

LEMMA BetweenTail ==
  ASSUME NEW S, NEW seq \in Seq(S), seq # <<>>, NEW type, NEW ex, NEW low \in Nat, NEW high \in Nat,
         Between(seq, type, ex, low, high)
  PROVE  /\ Between(Tail(seq), type, ex, low, high)
         /\ InOrder(seq, type, ex) /\ Head(seq).type = type
              /\ (type = "PUBLISH" => Head(seq).qos = 2) =>
              /\ MsgOf(Head(seq), ex) \in low + 1 .. high
              /\ Between(Tail(seq), type, ex, MsgOf(Head(seq), ex), high)
<1>1. Holds(seq, Head(seq)) /\ \A q : Holds(Tail(seq), q) => Holds(seq, q)
  BY HoldsFacts
<1>2. Between(Tail(seq), type, ex, low, high)
  BY <1>1 DEF Between
<1>3. ASSUME InOrder(seq, type, ex), Head(seq).type = type, type = "PUBLISH" => Head(seq).qos = 2
      PROVE  /\ MsgOf(Head(seq), ex) \in low + 1 .. high
             /\ Between(Tail(seq), type, ex, MsgOf(Head(seq), ex), high)
  <2>1. MsgOf(Head(seq), ex) \in low + 1 .. high
    BY <1>1, <1>3 DEF Between
  <2>2. ASSUME NEW p, Holds(Tail(seq), p), p.type = type, type = "PUBLISH" => p.qos = 2
        PROVE  MsgOf(p, ex) \in MsgOf(Head(seq), ex) + 1 .. high
    <3>1. MsgOf(p, ex) \in low + 1 .. high
      BY <1>2, <2>2 DEF Between
    <3>2. MsgOf(Head(seq), ex) < MsgOf(p, ex)
      BY <1>3, <2>2, OrderTail
    <3> QED BY <2>1, <3>1, <3>2
  <2> QED BY <2>1, <2>2 DEF Between
<1> QED BY <1>2, <1>3

LEMMA BetweenAppend ==
  ASSUME NEW S, NEW seq \in Seq(S), NEW x \in S, NEW type, NEW ex,
         NEW low \in Nat, NEW mid \in Nat, NEW high \in Nat, mid <= high,
         Between(seq, type, ex, low, mid)
  PROVE  /\ Between(seq, type, ex, low, high)
         /\ (x.type = type => MsgOf(x, ex) \in low + 1 .. high) =>
              Between(Append(seq, x), type, ex, low, high)
         /\ InOrder(seq, type, ex) /\ (type # "PUBLISH")
              /\ (x.type = type => MsgOf(x, ex) \in mid + 1 .. high) =>
              InOrder(Append(seq, x), type, ex)
<1>1. \A q : Holds(Append(seq, x), q) <=> Holds(seq, q) \/ q = x
  BY AppendHolds
<1>2. low + 1 .. mid \subseteq low + 1 .. high
  OBVIOUS
<1>3. Between(seq, type, ex, low, high)
  BY <1>2 DEF Between
<1>4. ASSUME x.type = type => MsgOf(x, ex) \in low + 1 .. high
      PROVE  Between(Append(seq, x), type, ex, low, high)
  BY <1>1, <1>3, <1>4 DEF Between
<1>5. ASSUME InOrder(seq, type, ex), type # "PUBLISH",
             x.type = type => MsgOf(x, ex) \in mid + 1 .. high
      PROVE  InOrder(Append(seq, x), type, ex)
  <2>1. ASSUME x.type = type, NEW p, Holds(seq, p), p.type = type
        PROVE  MsgOf(p, ex) < MsgOf(x, ex)
    <3>1. MsgOf(p, ex) \in low + 1 .. mid
      BY <1>5, <2>1 DEF Between
    <3>2. MsgOf(x, ex) \in mid + 1 .. high
      BY <1>5, <2>1
    <3> QED BY <3>1, <3>2
  <2> QED BY <1>5, <2>1, OrderAppend
<1> QED BY <1>3, <1>4, <1>5

LEMMA BetweenEmpty ==
  ASSUME NEW seq, seq = <<>>, NEW type, NEW ex, NEW low, NEW high
  PROVE  Between(seq, type, ex, low, high) /\ InOrder(seq, type, ex)
<1>1. \A p : ~Holds(seq, p)
  BY DEF Holds
<1>2. Len(seq) = 0
  OBVIOUS
<1> QED BY <1>1, <1>2 DEF Between, InOrder

-----------------------------------------------------------------------------

\* Packets of the type are taken from the sequence at most, and others put in.
Kept(seq, seq2, type) ==
  /\ \A ex : InOrder(seq, type, ex) => InOrder(seq2, type, ex)
  /\ \A ex, low, high : Between(seq, type, ex, low, high) => Between(seq2, type, ex, low, high)

LEMMA KeptFacts ==
  ASSUME NEW S, NEW seq \in Seq(S), NEW type
  PROVE  /\ Kept(seq, seq, type) /\ Kept(seq, <<>>, type)
         /\ seq # <<>> => Kept(seq, Tail(seq), type)
         /\ \A x \in S : x.type # type => Kept(seq, Append(seq, x), type)
<1>1. Kept(seq, seq, type)
  BY DEF Kept
<1>2. Kept(seq, <<>>, type)
  BY BetweenEmpty DEF Kept
<1>3. ASSUME seq # <<>> PROVE Kept(seq, Tail(seq), type)
  <2>1. \A q : Holds(Tail(seq), q) => Holds(seq, q)
    BY <1>3, HoldsFacts
  <2>2. ASSUME NEW ex, InOrder(seq, type, ex) PROVE InOrder(Tail(seq), type, ex)
    BY <1>3, <2>2, OrderTail
  <2> QED BY <2>1, <2>2 DEF Kept, Between
<1>4. ASSUME NEW x \in S, x.type # type PROVE Kept(seq, Append(seq, x), type)
  <2>1. \A q : Holds(Append(seq, x), q) <=> Holds(seq, q) \/ q = x
    BY AppendHolds
  <2>2. ASSUME NEW ex, InOrder(seq, type, ex) PROVE InOrder(Append(seq, x), type, ex)
    BY <1>4, <2>2, OrderAppend
  <2> QED BY <1>4, <2>1, <2>2 DEF Kept, Between
<1> QED BY <1>1, <1>2, <1>3, <1>4

LEMMA KeptTake ==
  ASSUME TypeOK, NEW taken, Take(taken), NEW type
  PROVE  Kept(toClient, toClient', type)
<1>1. toClient # <<>> /\ toClient' = Tail(toClient)
  BY DEF Take, TypeOK
<1> QED BY <1>1, Sequences, KeptFacts

LEMMA KeptAnswer ==
  ASSUME TypeOK, NEW x \in ClientPacket, NEW type, x.type # type, toClient' = Append(toClient, x)
  PROVE  Kept(toClient, toClient', type)
BY Sequences, KeptFacts

LEMMA KeptSend ==
  ASSUME TypeOK, NEW type, UNCHANGED socket \/ \E x \in AckPacket : x.type # type /\ Send(x)
  PROVE  Kept(toBroker, toBroker', type) /\ Kept(outboundQueue, outboundQueue', type)
<1>1. CASE UNCHANGED socket
  BY <1>1, Sequences, KeptFacts DEF socket
<1>2. ASSUME NEW x \in AckPacket, x.type # type, Send(x)
      PROVE  Kept(toBroker, toBroker', type) /\ Kept(outboundQueue, outboundQueue', type)
  <2>1. x \in BrokerPacket
    BY Sequences
  <2>2. \/ toBroker' = toBroker /\ outboundQueue' = Append(outboundQueue, x)
        \/ toBroker' = Append(toBroker, x) /\ outboundQueue' = outboundQueue
    BY <1>2 DEF Send, Write
  <2> QED BY <1>2, <2>1, <2>2, Sequences, KeptFacts
<1> QED BY <1>1, <1>2

\* What a step that receives nothing leaves true.
LEMMA OrderRest ==
  ASSUME OrderInv, UNCHANGED <<received, qosOf>>,
         \A p : Holds(toClient', p) /\ p.type = "PUBLISH" => Holds(toClient, p),
         \A id \in MsgId : sending'[id].msg # 0 =>
           sending'[id].msg = sending[id].msg /\ sending'[id].qos = sending[id].qos,
         /\ InOrder(toClient', "PUBLISH", sending') /\ InOrder(toClient', "PUBREL", sending')
         /\ InOrder(toBroker', "PUBREC", sending'),
         NEW a \in Nat, NEW b \in Nat, NEW c \in Nat, NEW d \in Nat, Cuts(a, b, c, d)'
  PROVE  OrderInv'
<1>1. NotReceived'
  BY DEF OrderInv, NotReceived
<1>2. ReceivedInOrder'
  BY DEF OrderInv, ReceivedInOrder
<1>3. \A id \in MsgId : sending'[id].msg # 0 => qosOf'[sending'[id].msg] = sending'[id].qos
  BY DEF OrderInv
<1>4. \E w, x, y, z \in Nat : Cuts(w, x, y, z)'
  OBVIOUS
<1> QED BY <1>1, <1>2, <1>3, <1>4 DEF OrderInv

LEMMA OrderQuiet ==
  ASSUME OrderInv, UNCHANGED <<received, qosOf, ins>>,
         Kept(toClient, toClient', "PUBLISH"), Kept(toClient, toClient', "PUBREL"),
         Kept(toBroker, toBroker', "PUBREC"), Kept(outboundQueue, outboundQueue', "PUBREC"),
         \A p : Holds(toClient', p) /\ p.type = "PUBLISH" => Holds(toClient, p),
         \A id \in MsgId : sending'[id].msg # 0 =>
           sending'[id].msg = sending[id].msg /\ sending'[id].qos = sending[id].qos,
         \A p : \/ Holds(toClient', p) /\ p.type = "PUBREL"
                \/ Holds(toBroker', p) /\ p.type = "PUBREC"
                \/ Holds(outboundQueue', p) /\ p.type = "PUBREC"
                => sending'[p.id].msg = sending[p.id].msg
  PROVE  OrderInv'
<1>1. \A p : \/ Holds(toClient', p) /\ p.type \in {"PUBLISH", "PUBREL"}
             \/ Holds(toBroker', p) /\ p.type = "PUBREC"
             \/ Holds(outboundQueue', p) /\ p.type = "PUBREC"
             => MsgOf(p, sending') = MsgOf(p, sending)
  BY DEF MsgOf
<1>2. PICK a, b, c, d \in Nat : Cuts(a, b, c, d)
  BY DEF OrderInv
<1>3. /\ InOrder(toClient', "PUBLISH", sending) /\ InOrder(toClient', "PUBREL", sending)
      /\ InOrder(toBroker', "PUBREC", sending)
  BY DEF OrderInv, Kept
<1>4. /\ InOrder(toClient', "PUBLISH", sending') /\ InOrder(toClient', "PUBREL", sending')
      /\ InOrder(toBroker', "PUBREC", sending')
  BY <1>1, <1>3, OrderSame
<1>5. /\ Between(toClient', "PUBREL", sending, a, b)
      /\ Between(toBroker', "PUBREC", sending, b, c)
      /\ Between(outboundQueue', "PUBREC", sending, c, d)
      /\ Between(toClient', "PUBLISH", sending, d, ins)
  BY <1>2 DEF Cuts, Kept
<1>6. /\ Between(toClient', "PUBREL", sending', a, b)
      /\ Between(toBroker', "PUBREC", sending', b, c)
      /\ Between(outboundQueue', "PUBREC", sending', c, d)
      /\ Between(toClient', "PUBLISH", sending', d, ins)
  BY <1>1, <1>5, OrderSame
<1>7. Cuts(a, b, c, d)'
  BY <1>2, <1>6 DEF Cuts
<1> QED BY <1>4, <1>7, OrderRest

LEMMA OrderAcks ==
  ASSUME TypeOK, OrderInv, HandlePubacks \/ HandlePubrecs \/ HandlePubcomps
  PROVE  OrderInv'
<1>1. PICK type : Take(type)
  BY DEF HandlePubacks, HandlePubrecs, HandlePubcomps
<1>2. UNCHANGED <<received, qosOf, ins, sending>>
  BY DEF HandlePubacks, HandlePubrecs, HandlePubcomps, broker
<1>3. Kept(toClient, toClient', "PUBLISH") /\ Kept(toClient, toClient', "PUBREL")
  BY <1>1, KeptTake
<1>4. Kept(toBroker, toBroker', "PUBREC") /\ Kept(outboundQueue, outboundQueue', "PUBREC")
  <2>1. CASE HandlePubacks \/ HandlePubcomps
    BY <2>1, KeptSend DEF HandlePubacks, HandlePubcomps
  <2>2. CASE HandlePubrecs
    <3>1. PICK id : id = Head(toClient).id
      OBVIOUS
    <3>2. Take("PUBREC") /\ Send(Ack("PUBREL", id))
      BY <2>2, <3>1 DEF HandlePubrecs
    <3>3. id \in MsgId
      BY <3>1, <3>2, TypeParts, Bounds, TakeHead DEF BrokerType
    <3>4. Ack("PUBREL", id) \in AckPacket /\ Ack("PUBREL", id).type # "PUBREC"
      BY <3>3 DEF Ack, AckPacket, AckType
    <3> QED BY <3>2, <3>4, KeptSend
  <2> QED BY <2>1, <2>2
<1>5. \A p : Holds(toClient', p) => Holds(toClient, p)
  BY <1>1, TakeHolds
<1> QED BY <1>2, <1>3, <1>4, <1>5, OrderQuiet

LEMMA OrderSilent ==
  ASSUME TypeOK, OrderInv,
         \/ ReadySocket \/ WriteComplete \/ StartPublish \/ StartPublishQoS0
         \/ (\E qos \in Qos : SendMessage(qos)) \/ UNCHANGED vars
  PROVE  OrderInv'
<1>1. UNCHANGED <<received, qosOf, ins, sending, toClient, outboundQueue>>
  BY DEF ReadySocket, WriteComplete, StartPublish, StartPublishQoS0, TakeCommand, SendMessage,
         Write, vars, socket, broker
<1>2. UNCHANGED toBroker
        \/ \E x \in Publication(outs) : toBroker' = Append(toBroker, x)
  <2>1. CASE StartPublish \/ StartPublishQoS0
    <3>1. PICK x : x = Head(commands) /\ commands # <<>> /\ toBroker' = Append(toBroker, x)
      BY <2>1 DEF StartPublish, StartPublishQoS0, TakeCommand, Write
    <3>2. x \in Publication(outs)
      BY <3>1, HeadTail DEF TypeOK
    <3> QED BY <3>1, <3>2
  <2> QED BY <2>1 DEF ReadySocket, WriteComplete, SendMessage, vars, socket
<1>3. Kept(toBroker, toBroker', "PUBREC")
  <2>1. ASSUME NEW x \in Publication(outs), toBroker' = Append(toBroker, x)
        PROVE  Kept(toBroker, toBroker', "PUBREC")
    <3>1. x \in BrokerPacket /\ x.type # "PUBREC"
      BY DEF BrokerPacket, Publication, Numbered
    <3> QED BY <2>1, <3>1, Sequences, KeptFacts
  <2> QED BY <1>2, <2>1, Sequences, KeptFacts
<1>4. /\ Kept(toClient, toClient', "PUBLISH") /\ Kept(toClient, toClient', "PUBREL")
      /\ Kept(outboundQueue, outboundQueue', "PUBREC")
  BY <1>1, Sequences, KeptFacts
<1> QED BY <1>1, <1>3, <1>4, OrderQuiet

LEMMA OrderLose ==
  ASSUME TypeOK, OrderInv, Lose
  PROVE  OrderInv'
<1>1. /\ toClient' = <<>> /\ toBroker' = <<>> /\ outboundQueue' = <<>>
      /\ UNCHANGED <<received, qosOf, ins>>
      /\ \A id \in MsgId : sending'[id].msg = 0
  BY DEF Lose, Free
<1>2. received \in Seq(1 .. ins) /\ ins \in Nat
  BY DEF TypeOK
<1>3. \A m : Holds(received, m) => m <= ins
  BY <1>2 DEF Holds
<1>4. Cuts(ins, ins, ins, ins)'
  BY <1>1, <1>2, <1>3, BetweenEmpty DEF Cuts
<1>5. /\ InOrder(toClient', "PUBLISH", sending') /\ InOrder(toClient', "PUBREL", sending')
      /\ InOrder(toBroker', "PUBREC", sending')
  BY <1>1, BetweenEmpty
<1>6. \A p : ~Holds(toClient', p)
  BY <1>1 DEF Holds
<1>7. PICK n \in Nat : n = ins
  BY <1>2
<1>8. Cuts(n, n, n, n)'
  BY <1>1, <1>4, <1>7
<1> QED BY <1>1, <1>5, <1>6, <1>8, OrderRest

\* The messages of the exchanges and of what is under way are numbers.
LEMMA MsgTypes ==
  ASSUME TypeOK
  PROVE  /\ ins \in Nat /\ received \in Seq(1 .. ins)
         /\ \A id \in MsgId : sending[id].msg \in 0 .. ins
         /\ \A p : Holds(toClient, p) /\ p.type = "PUBLISH" => p.msg \in 1 .. ins
         /\ \A m : Holds(received, m) => m \in 1 .. ins
<1>1. ins \in Nat /\ received \in Seq(1 .. ins) /\ sending \in [MsgId -> Exchange(ins)]
  BY DEF TypeOK
<1>2. \A id \in MsgId : sending[id].msg \in 0 .. ins
  BY <1>1 DEF Exchange
<1>3. ASSUME NEW p, Holds(toClient, p), p.type = "PUBLISH" PROVE p.msg \in 1 .. ins
  <2>1. p \in ClientPacket
    BY <1>3, Sequences, HoldsFacts
  <2> QED BY <1>3, <2>1 DEF ClientPacket, AckPacket, AckType, Publication, Numbered
<1>4. \A m : Holds(received, m) => m \in 1 .. ins
  BY <1>1 DEF Holds
<1> QED BY <1>1, <1>2, <1>3, <1>4

\* A message is received that comes after all of its quality of service.
LEMMA ReceivedNext ==
  ASSUME TypeOK, ReceivedInOrder, UNCHANGED qosOf, NEW m \in 1 .. ins,
         Extends(received', received, m),
         \A n : Holds(received, n) /\ qosOf[n] = qosOf[m] => n < m
  PROVE  ReceivedInOrder'
<1>1. received \in Seq(1 .. ins) /\ ins \in Nat
  BY DEF TypeOK
<1>2. /\ Len(received') = Len(received) + 1 /\ Len(received) \in Nat
      /\ received'[Len(received) + 1] = m
      /\ \A k \in 1 .. Len(received) : received'[k] = received[k]
  BY <1>1 DEF Extends
<1>3. \A i, j \in 1 .. Len(received') : i < j =>
        i \in 1 .. Len(received) /\ (j \in 1 .. Len(received) \/ j = Len(received) + 1)
  BY <1>2
<1>4. \A i \in 1 .. Len(received) : Holds(received, received[i])
  BY DEF Holds
<1> QED BY <1>2, <1>3, <1>4 DEF ReceivedInOrder

LEMMA ReceivedAdded ==
  ASSUME TypeOK, NEW m \in 1 .. ins, Extends(received', received, m)
  PROVE  \A q : Holds(received', q) <=> Holds(received, q) \/ q = m
<1> DEFINE S == 1 .. ins
<1>1. received \in Seq(S) /\ m \in S
  BY DEF TypeOK
<1> HIDE DEF S
<1> QED BY <1>1, ExtendsFacts

\* What was separated by a, b, c and d stays so, a moving up to what is received.
LEMMA OrderReceived ==
  ASSUME TypeOK, OrderInv, UNCHANGED <<qosOf, ins, sending>>,
         NEW m \in 1 .. ins, Extends(received', received, m),
         Kept(toClient, toClient', "PUBLISH"), Kept(toClient, toClient', "PUBREL"),
         Kept(toBroker, toBroker', "PUBREC"), Kept(outboundQueue, outboundQueue', "PUBREC"),
         \A p : Holds(toClient', p) => Holds(toClient, p),
         \A n : Holds(received, n) /\ qosOf[n] = qosOf[m] => n < m,
         \A p : Holds(toClient', p) /\ p.type = "PUBLISH" /\ p.qos = qosOf[m] => m < p.msg,
         NEW a \in Nat, NEW b \in Nat, NEW c \in Nat, NEW d \in Nat, Cuts(a, b, c, d),
         qosOf[m] = 2 =>
           a < m /\ m <= b /\ Between(toClient', "PUBREL", sending, m, b)
  PROVE  OrderInv'
<1>1. \A q : Holds(received', q) <=> Holds(received, q) \/ q = m
  BY ReceivedAdded
<1>2. NotReceived'
  BY <1>1 DEF OrderInv, NotReceived
<1>3. ReceivedInOrder'
  BY ReceivedNext DEF OrderInv
<1>4. /\ InOrder(toClient', "PUBLISH", sending') /\ InOrder(toClient', "PUBREL", sending')
      /\ InOrder(toBroker', "PUBREC", sending')
  BY DEF OrderInv, Kept
<1>5. /\ a <= b /\ b <= c /\ c <= d /\ d <= ins'
      /\ Between(toClient', "PUBREL", sending', a, b)
      /\ Between(toBroker', "PUBREC", sending', b, c)
      /\ Between(outboundQueue', "PUBREC", sending', c, d)
      /\ Between(toClient', "PUBLISH", sending', d, ins')
      /\ \A n : Holds(received, n) /\ qosOf[n] = 2 => n <= a
  BY DEF Cuts, Kept
<1>6. \E w, x, y, z \in Nat : Cuts(w, x, y, z)'
  <2>1. CASE qosOf[m] # 2
    <3>1. Cuts(a, b, c, d)'
      BY <1>1, <1>5, <2>1 DEF Cuts
    <3> QED BY <3>1
  <2>2. CASE qosOf[m] = 2
    <3>1. \A n : Holds(received', n) /\ qosOf'[n] = 2 => n <= m
      <4>1. ASSUME NEW n, Holds(received, n), qosOf[n] = 2 PROVE n <= m
        <5>1. n <= a /\ n \in Nat
          BY <1>5, <4>1, MsgTypes
        <5> QED BY <2>2, <5>1
      <4> QED BY <1>1, <4>1
    <3>2. Cuts(m, b, c, d)'
      BY <1>5, <2>2, <3>1 DEF Cuts
    <3>3. m \in Nat
      OBVIOUS
    <3> QED BY <3>2, <3>3
  <2> QED BY <2>1, <2>2
<1>7. \A id \in MsgId : sending'[id].msg # 0 => qosOf'[sending'[id].msg] = sending'[id].qos
  BY DEF OrderInv
<1> QED BY <1>2, <1>3, <1>4, <1>6, <1>7 DEF OrderInv

LEMMA OrderPublishes ==
  ASSUME TypeOK, InboundInv, OrderInv, HandlePublishes
  PROVE  OrderInv'
<1>0. PICK p : p = Head(toClient)
  OBVIOUS
<1>1. /\ Take("PUBLISH") /\ UNCHANGED <<sending, qosOf, ins>>
      /\ toClient # <<>> /\ toClient' = Tail(toClient)
  BY DEF HandlePublishes, outbound, broker, Take, TypeOK
<1>2. /\ p \in ClientPacket /\ p.type = "PUBLISH" /\ p.msg \in 1 .. ins /\ ins \in Nat
      /\ p.qos # 0 => p.id \in MsgId
  <2>1. ReceiveType /\ ins \in Nat
    BY Bounds, TypeParts DEF BrokerType
  <2>2. p \in ClientPacket /\ p.type = "PUBLISH"
    BY <1>0, <1>1, <2>1, TakeHead
  <2> QED BY <2>1, <2>2, PacketFacts DEF ClientPacket
<1>3. Holds(toClient, p) /\ \A q : Holds(toClient', q) => Holds(toClient, q)
  BY <1>0, <1>1, TakeHolds
<1>4. PICK a, b, c, d \in Nat : Cuts(a, b, c, d)
  BY DEF OrderInv
<1>5. Kept(toClient, toClient', "PUBLISH") /\ Kept(toClient, toClient', "PUBREL")
  BY <1>1, KeptTake
<1>6. \A q : Holds(toClient', q) /\ q.type = "PUBLISH" => p.msg < q.msg
  <2>1. \A q : Holds(Tail(toClient), q) /\ q.type = "PUBLISH" =>
               MsgOf(p, sending) < MsgOf(q, sending)
    BY <1>0, <1>1, <1>2, Sequences, OrderTail DEF OrderInv
  <2> QED BY <1>1, <1>2, <2>1 DEF MsgOf
<1>7. /\ qosOf[p.msg] = p.qos
      /\ \A n : Holds(received, n) /\ qosOf[n] = p.qos => n < p.msg
  BY <1>2, <1>3 DEF OrderInv, NotReceived
<1>8. CASE p.qos # 2
  <2>1. Extends(received', received, p.msg)
    BY <1>0, <1>8 DEF HandlePublishes, Extends
  <2>2. Kept(toBroker, toBroker', "PUBREC") /\ Kept(outboundQueue, outboundQueue', "PUBREC")
    <3>1. UNCHANGED socket \/ (p.id \in MsgId /\ Send(Ack("PUBACK", p.id)))
      BY <1>0, <1>2, <1>8 DEF HandlePublishes
    <3>2. p.id \in MsgId => Ack("PUBACK", p.id) \in AckPacket
                            /\ Ack("PUBACK", p.id).type # "PUBREC"
      BY DEF Ack, AckPacket, AckType
    <3> QED BY <3>1, <3>2, KeptSend
  <2> QED BY <1>1, <1>2, <1>3, <1>4, <1>5, <1>6, <1>7, <1>8, <2>1, <2>2, OrderReceived
<1>9. CASE p.qos = 2
  <2>1. PICK x : x = Ack("PUBREC", p.id) /\ Send(x) /\ UNCHANGED received
    BY <1>0, <1>9 DEF HandlePublishes
  <2>2. x \in AckPacket /\ x \in BrokerPacket /\ x.type = "PUBREC" /\ x.id = p.id
    BY <1>2, <1>9, <2>1, Sequences DEF Ack, AckPacket, AckType
  <2>3. MsgOf(x, sending) = p.msg /\ MsgOf(p, sending) = p.msg
    <3>1. p.id # 0
      BY <1>2, <1>9 DEF MsgId
    <3>2. p.msg = sending[p.id].msg
      BY <1>2, <1>3, <3>1 DEF InboundInv, Fits
    <3> QED BY <1>2, <2>2, <3>2 DEF MsgOf
  <2>4. /\ a <= b /\ b <= c /\ c <= d /\ d <= ins
        /\ \A m : Holds(received, m) /\ qosOf[m] = 2 => m <= a
        /\ Between(toClient, "PUBREL", sending, a, b)
        /\ Between(toBroker, "PUBREC", sending, b, c)
        /\ Between(outboundQueue, "PUBREC", sending, c, d)
        /\ Between(toClient, "PUBLISH", sending, d, ins)
    BY <1>4 DEF Cuts
  <2>5. p.msg \in d + 1 .. ins /\ Between(toClient', "PUBLISH", sending, p.msg, ins)
    <3>1. /\ MsgOf(p, sending) \in d + 1 .. ins
          /\ Between(Tail(toClient), "PUBLISH", sending, MsgOf(p, sending), ins)
      BY <1>0, <1>1, <1>2, <1>9, <2>4, Sequences, BetweenTail DEF OrderInv
    <3> QED BY <1>1, <2>3, <3>1
  <2>6. Between(toClient', "PUBREL", sending, a, b)
    BY <1>5, <2>4 DEF Kept
  <2>7. /\ InOrder(toClient', "PUBLISH", sending) /\ InOrder(toClient', "PUBREL", sending)
        /\ InOrder(toBroker, "PUBREC", sending)
    BY <1>5 DEF OrderInv, Kept
  <2>8. p.msg \in Nat /\ p.msg <= ins /\ d < p.msg /\ c < p.msg
    BY <1>2, <2>4, <2>5
  <2>9. CASE pending
    <3>1. outboundQueue' = Append(outboundQueue, x) /\ toBroker' = toBroker
      BY <2>1, <2>9 DEF Send
    <3>2. Between(outboundQueue', "PUBREC", sending, c, p.msg)
      <4>1. MsgOf(x, sending) \in c + 1 .. p.msg /\ d <= p.msg
        BY <2>3, <2>8
      <4> QED BY <2>2, <2>4, <2>8, <3>1, <4>1, Sequences, BetweenAppend
    <3>3. c <= p.msg
      BY <2>8
    <3>4. Cuts(a, b, c, p.msg)'
      BY <1>1, <2>1, <2>4, <2>5, <2>6, <2>8, <3>1, <3>2, <3>3 DEF Cuts
    <3> QED BY <1>1, <1>3, <2>1, <2>7, <2>8, <3>1, <3>4, OrderRest
  <2>10. CASE ~pending
    <3>1. outboundQueue = <<>> /\ outboundQueue' = outboundQueue /\ toBroker' = Append(toBroker, x)
      BY <2>1, <2>10 DEF Send, Write, TypeOK
    <3>2. Between(toBroker', "PUBREC", sending, b, p.msg) /\ InOrder(toBroker', "PUBREC", sending)
      <4>1. MsgOf(x, sending) \in c + 1 .. p.msg /\ MsgOf(x, sending) \in b + 1 .. p.msg
            /\ c <= p.msg
        BY <2>3, <2>4, <2>8
      <4> QED BY <2>2, <2>4, <2>7, <2>8, <3>1, <4>1, Sequences, BetweenAppend
    <3>3. b <= p.msg /\ p.msg <= p.msg /\ Between(outboundQueue', "PUBREC", sending, p.msg, p.msg)
      BY <2>4, <2>8, <3>1, BetweenEmpty
    <3>4. Cuts(a, b, p.msg, p.msg)'
      BY <1>1, <2>1, <2>4, <2>5, <2>6, <2>8, <3>2, <3>3 DEF Cuts
    <3> QED BY <1>1, <1>3, <2>1, <2>7, <2>8, <3>2, <3>4, OrderRest
  <2> QED BY <2>9, <2>10
<1> QED BY <1>8, <1>9

LEMMA OrderPubrels ==
  ASSUME TypeOK, InboundInv, OrderInv, HandlePubrels
  PROVE  OrderInv'
<1>0. PICK p, id : p = Head(toClient) /\ id = p.id
  OBVIOUS
<1>1. /\ Take("PUBREL") /\ UNCHANGED <<sending, qosOf, ins>> /\ Send(Ack("PUBCOMP", id))
      /\ toClient # <<>> /\ toClient' = Tail(toClient)
  BY <1>0 DEF HandlePubrels, outbound, broker, Take, TypeOK
<1>2. p.type = "PUBREL" /\ id \in MsgId
  BY <1>0, <1>1, TypeParts, Bounds, TakeHead DEF BrokerType
<1>3. \A q : Holds(toClient', q) => Holds(toClient, q)
  BY <1>1, TakeHolds
<1>4. Kept(toClient, toClient', "PUBLISH") /\ Kept(toClient, toClient', "PUBREL")
  BY <1>1, KeptTake
<1>5. Kept(toBroker, toBroker', "PUBREC") /\ Kept(outboundQueue, outboundQueue', "PUBREC")
  <2>1. Ack("PUBCOMP", id) \in AckPacket /\ Ack("PUBCOMP", id).type # "PUBREC"
    BY <1>2 DEF Ack, AckPacket, AckType
  <2> QED BY <1>1, <2>1, KeptSend
<1>6. CASE UNCHANGED received
  BY <1>1, <1>3, <1>4, <1>5, <1>6, OrderQuiet
<1>7. CASE ~UNCHANGED received
  <2>1. inboundMsgs[id] # 0 /\ Extends(received', received, inboundMsgs[id])
    BY <1>0, <1>7 DEF HandlePubrels, Extends
  <2>2. PICK had \in BOOLEAN : had = Holds(received, sending[id].msg)
    BY DEF Holds
  <2>3. UnderWay(sending[id], inboundMsgs[id], had, "PUBREL")
    <3>1. "PUBREL" \in PacketType /\ Forth("PUBREL")
      BY DEF PacketType, AckType, Forth
    <3>2. InboundCount(id)["PUBREL"] # 0
      BY <1>0, <1>1, <1>2, <3>1, TakeHolds
    <3>3. Going(sending[id], InboundCount(id), inboundMsgs[id], had)
      BY <1>2, <2>2 DEF InboundInv
    <3> QED BY <3>1, <3>2, <3>3, AtHand
  <2>4. PICK m : m = inboundMsgs[id]
    OBVIOUS
  <2>5. m = sending[id].msg /\ sending[id].qos = 2 /\ m # 0
    BY <2>1, <2>3, <2>4 DEF UnderWay
  <2>6. m \in 1 .. ins /\ ins \in Nat
    <3>1. m \in 0 .. ins /\ ins \in Nat
      BY <1>2, <2>5, MsgTypes
    <3> QED BY <2>5, <3>1
  <2>7. qosOf[m] = 2 /\ MsgOf(p, sending) = m
    BY <1>0, <1>2, <2>5 DEF OrderInv, MsgOf
  <2>8. PICK a, b, c, d \in Nat : Cuts(a, b, c, d)
    BY DEF OrderInv
  <2>9. m \in a + 1 .. b /\ Between(toClient', "PUBREL", sending, m, b)
    <3>1. Between(toClient, "PUBREL", sending, a, b)
      BY <2>8 DEF Cuts
    <3>2. /\ MsgOf(p, sending) \in a + 1 .. b
          /\ Between(Tail(toClient), "PUBREL", sending, MsgOf(p, sending), b)
      BY <1>0, <1>1, <1>2, <3>1, Sequences, BetweenTail DEF OrderInv
    <3> QED BY <1>1, <2>7, <3>2
  <2>10. a < m /\ m <= b
    BY <2>8, <2>9
  <2>11. \A n : Holds(received, n) /\ qosOf[n] = qosOf[m] => n < m
    <3>1. ASSUME NEW n, Holds(received, n), qosOf[n] = 2 PROVE n < m
      <4>1. n <= a /\ n \in Nat
        BY <2>8, <3>1, MsgTypes DEF Cuts
      <4> QED BY <2>6, <2>10, <4>1
    <3> QED BY <2>7, <3>1
  <2>12. \A q : Holds(toClient', q) /\ q.type = "PUBLISH" /\ q.qos = qosOf[m] => m < q.msg
    <3>1. ASSUME NEW q, Holds(toClient, q), q.type = "PUBLISH", q.qos = 2 PROVE m < q.msg
      <4>1. MsgOf(q, sending) \in d + 1 .. ins
        BY <2>8, <3>1 DEF Cuts, Between
      <4>2. MsgOf(q, sending) = q.msg /\ b <= d
        BY <2>8, <3>1 DEF MsgOf, Cuts
      <4> QED BY <2>6, <2>10, <4>1, <4>2
    <3> QED BY <1>3, <2>7, <3>1
  <2>13. Extends(received', received, m)
    BY <2>1, <2>4
  <2> QED BY <1>1, <1>3, <1>4, <1>5, <2>6, <2>8, <2>9, <2>10, <2>11, <2>12, <2>13, OrderReceived
<1> QED BY <1>6, <1>7

LEMMA OrderFlush ==
  ASSUME TypeOK, QueueInv, OrderInv, WriteAvailable
  PROVE  OrderInv'
<1>1. UNCHANGED <<toClient, sending, received, qosOf, ins>> /\ outboundQueue' = <<>>
  BY DEF WriteAvailable, broker
<1>2. PICK a, b, c, d \in Nat : Cuts(a, b, c, d)
  BY DEF OrderInv
<1>3. /\ a <= b /\ b <= c /\ c <= d /\ b <= d /\ d <= ins /\ d <= d
      /\ \A m : Holds(received, m) /\ qosOf[m] = 2 => m <= a
      /\ Between(toClient, "PUBREL", sending, a, b)
      /\ Between(toBroker, "PUBREC", sending, b, c)
      /\ Between(outboundQueue, "PUBREC", sending, c, d)
      /\ Between(toClient, "PUBLISH", sending, d, ins)
  BY <1>2 DEF Cuts
<1>4. /\ InOrder(toClient, "PUBLISH", sending) /\ InOrder(toClient, "PUBREL", sending)
      /\ InOrder(toBroker, "PUBREC", sending)
  BY DEF OrderInv
<1>5. Between(toBroker', "PUBREC", sending, b, d) /\ InOrder(toBroker', "PUBREC", sending)
  <2>1. CASE toBroker' = toBroker
    <3>1. c + 1 .. d \subseteq b + 1 .. d /\ b + 1 .. c \subseteq b + 1 .. d
      BY <1>3
    <3> QED BY <1>3, <1>4, <2>1, <3>1 DEF Between
  <2>2. ASSUME NEW x \in AckPacket, outboundQueue = <<x>>, toBroker' = Append(toBroker, x)
        PROVE  Between(toBroker', "PUBREC", sending, b, d) /\ InOrder(toBroker', "PUBREC", sending)
    <3>1. Holds(outboundQueue, x)
      <4>1. outboundQueue[1] = x /\ Len(outboundQueue) = 1
        BY <2>2, LenFacts
      <4>2. 1 \in 1 .. Len(outboundQueue)
        BY <4>1
      <4> QED BY <4>1, <4>2 DEF Holds
    <3>2. x.type = "PUBREC" => MsgOf(x, sending) \in c + 1 .. d
      BY <1>3, <3>1 DEF Between
    <3>3. x.type = "PUBREC" => MsgOf(x, sending) \in b + 1 .. d
      BY <1>3, <3>2
    <3>4. x \in BrokerPacket
      BY Sequences
    <3> QED BY <1>3, <1>4, <2>2, <3>2, <3>3, <3>4, Sequences, BetweenAppend
  <2> QED BY <2>1, <2>2, FlushCount
<1>6. Between(outboundQueue', "PUBREC", sending, d, d)
  BY <1>1, BetweenEmpty
<1>7. Cuts(a, b, d, d)'
  BY <1>1, <1>3, <1>5, <1>6 DEF Cuts
<1> QED BY <1>1, <1>4, <1>5, <1>7, OrderRest

LEMMA HeldCount ==
  ASSUME TypeOK, NEW p
  PROVE  /\ Holds(toClient, p) /\ p.type = "PUBREL" =>
              p.id \in MsgId /\ InboundCount(p.id)["PUBREL"] # 0
         /\ (Holds(toBroker, p) \/ Holds(outboundQueue, p)) /\ p.type = "PUBREC" =>
              p.id \in MsgId /\ InboundCount(p.id)["PUBREC"] # 0
<1>1. "PUBREL" \in PacketType /\ "PUBREC" \in PacketType
  BY DEF PacketType, AckType
<1>2. ASSUME Holds(toClient, p), p.type = "PUBREL"
      PROVE  p.id \in MsgId /\ InboundCount(p.id)["PUBREL"] # 0
  <2>1. p \in ClientPacket /\ Count("PUBREL", p.id, toClient) # 0
    BY <1>2, Sequences, HoldsFacts, HoldsCount
  <2>2. p.id \in MsgId
    BY <1>2, <2>1 DEF ClientPacket, AckPacket, Publication, Numbered
  <2>3. Inward("PUBREL", p.id) # 0
    BY <2>1, Counts
  <2> QED BY <1>1, <2>2, <2>3 DEF InboundCount
<1>3. ASSUME Holds(toBroker, p) \/ Holds(outboundQueue, p), p.type = "PUBREC"
      PROVE  p.id \in MsgId /\ InboundCount(p.id)["PUBREC"] # 0
  <2>1. /\ p \in BrokerPacket
        /\ Count("PUBREC", p.id, toBroker) # 0 \/ Count("PUBREC", p.id, outboundQueue) # 0
    BY <1>3, Sequences, HoldsFacts, HoldsCount
  <2>2. p.id \in MsgId
    BY <1>3, <2>1 DEF BrokerPacket, AckPacket, Publication, Numbered
  <2>3. Count("PUBREC", p.id, toBroker) \in Nat /\ Count("PUBREC", p.id, outboundQueue) \in Nat
    BY Sequences, CountType
  <2>4. Outward("PUBREC", p.id) # 0
    BY <2>1, <2>3, Counts
  <2> QED BY <1>1, <2>2, <2>4 DEF InboundCount
<1> QED BY <1>2, <1>3

LEMMA OrderForward ==
  ASSUME TypeOK, InboundInv, OrderInv, NEW qos \in Qos, Forward(qos)
  PROVE  OrderInv'
<1>1. /\ UNCHANGED <<toBroker, outboundQueue, received>> /\ ins' = ins + 1 /\ ins \in Nat
      /\ \A m \in 1 .. ins : qosOf'[m] = qosOf[m]
      /\ qosOf'[ins + 1] = qos /\ toClient \in Seq(ClientPacket)
  <2>1. ins \in Nat /\ toClient \in Seq(ClientPacket)
    BY Sequences DEF TypeOK
  <2>2. ins + 1 \in 1 .. ins + 1 /\ \A m \in 1 .. ins : m \in 1 .. ins + 1 /\ m # ins + 1
    BY <2>1
  <2>3. qosOf' = [m \in 1 .. ins + 1 |-> IF m = ins + 1 THEN qos ELSE qosOf[m]]
    BY DEF Forward
  <2> QED BY <2>1, <2>2, <2>3 DEF Forward, socket
<1>2. PICK q, id :
        /\ toClient' = Append(toClient, q) /\ q.type = "PUBLISH" /\ q.msg = ins + 1 /\ q.qos = qos
        /\ \/ UNCHANGED sending
           \/ /\ id \in MsgId /\ sending[id] = Free
              /\ \E e : e.msg = ins + 1 /\ e.qos = qos /\ sending' = [sending EXCEPT ![id] = e]
  <2>1. CASE qos = 0
    <3>1. toClient' = Append(toClient, Publish(0, ins + 1, 0)) /\ UNCHANGED sending
      BY <2>1 DEF Forward
    <3> QED BY <2>1, <3>1 DEF Publish
  <2>2. CASE qos # 0
    <3>1. PICK id \in MsgId :
            /\ sending[id] = Free /\ toClient' = Append(toClient, Publish(id, ins + 1, qos))
            /\ sending' = [sending EXCEPT
                 ![id] = [msg |-> ins + 1, qos |-> qos,
                          next |-> IF qos = 1 THEN "PUBACK" ELSE "PUBREC"]]
      BY <2>2 DEF Forward
    <3> DEFINE e == [msg |-> ins + 1, qos |-> qos,
                     next |-> IF qos = 1 THEN "PUBACK" ELSE "PUBREC"]
    <3>2. e.msg = ins + 1 /\ e.qos = qos /\ sending' = [sending EXCEPT ![id] = e]
      BY <3>1
    <3> QED BY <3>1, <3>2 DEF Publish
  <2> QED BY <2>1, <2>2
<1>3. \A j \in MsgId :
        \/ sending'[j] = sending[j]
        \/ sending[j] = Free /\ sending'[j].msg = ins + 1 /\ sending'[j].qos = qos
  <2>1. sending \in [MsgId -> Exchange(ins)]
    BY DEF TypeOK
  <2> QED BY <1>2, <2>1

<1>4. ASSUME NEW p, \/ Holds(toClient, p) /\ p.type = "PUBREL"
                    \/ (Holds(toBroker, p) \/ Holds(outboundQueue, p)) /\ p.type = "PUBREC"
      PROVE  MsgOf(p, sending') = MsgOf(p, sending)
  <2>1. /\ p.id \in MsgId /\ p.type \in PacketType /\ p.type # "PUBLISH"
        /\ InboundCount(p.id)[p.type] # 0
    BY <1>4, HeldCount DEF PacketType, AckType
  <2>2. sending[p.id] # Free
    BY <2>1 DEF InboundInv, Going, Free
  <2> QED BY <1>3, <2>1, <2>2 DEF MsgOf
<1>5. /\ \A p : Holds(toClient, p) /\ p.type = "PUBLISH" =>
              MsgOf(p, sending') = MsgOf(p, sending) /\ MsgOf(p, sending) = p.msg
      /\ MsgOf(q, sending') = ins + 1
  BY <1>2 DEF MsgOf
<1>6. PICK S : q \in S /\ toClient \in Seq(S) /\ S = ClientPacket \cup {q}
  BY <1>1, SeqSubset
<1>7. \A p : Holds(toClient', p) <=> Holds(toClient, p) \/ p = q
  BY <1>2, <1>6, ExtendsFacts DEF Extends
<1>8. /\ InOrder(toClient, "PUBLISH", sending') /\ InOrder(toClient, "PUBREL", sending')
      /\ InOrder(toBroker', "PUBREC", sending')
  <2>1. /\ InOrder(toClient, "PUBLISH", sending) /\ InOrder(toClient, "PUBREL", sending)
        /\ InOrder(toBroker, "PUBREC", sending)
    BY DEF OrderInv
  <2>2. InOrder(toClient, "PUBLISH", sending') /\ InOrder(toClient, "PUBREL", sending')
    BY <1>4, <1>5, <2>1, OrderSame
  <2>3. InOrder(toBroker, "PUBREC", sending')
    BY <1>4, <2>1, OrderSame
  <2> QED BY <1>1, <2>2, <2>3
<1>9. InOrder(toClient', "PUBLISH", sending')
  <2>1. \A p : Holds(toClient, p) /\ p.type = "PUBLISH" => MsgOf(p, sending') < MsgOf(q, sending')
    BY <1>1, <1>5, MsgTypes
  <2>2. InOrder(Append(toClient, q), "PUBLISH", sending')
    BY <1>6, <1>8, <2>1, OrderAppend
  <2> QED BY <1>2, <2>2
<1>10. InOrder(toClient', "PUBREL", sending')
  <2>1. Kept(toClient, Append(toClient, q), "PUBREL")
    BY <1>2, <1>6, KeptFacts
  <2> QED BY <1>2, <1>8, <2>1 DEF Kept
<1>11. PICK a, b, c, d \in Nat : Cuts(a, b, c, d)
  BY DEF OrderInv
<1>12. /\ a <= b /\ b <= c /\ c <= d /\ d <= ins
       /\ \A m : Holds(received, m) /\ qosOf[m] = 2 => m <= a
       /\ Between(toClient, "PUBREL", sending', a, b)
       /\ Between(toBroker, "PUBREC", sending', b, c)
       /\ Between(outboundQueue, "PUBREC", sending', c, d)
       /\ Between(toClient, "PUBLISH", sending', d, ins)
  <2>1. /\ Between(toClient, "PUBREL", sending, a, b)
        /\ Between(toBroker, "PUBREC", sending, b, c)
        /\ Between(outboundQueue, "PUBREC", sending, c, d)
        /\ Between(toClient, "PUBLISH", sending, d, ins)
    BY <1>11 DEF Cuts
  <2>2. /\ Between(toClient, "PUBREL", sending', a, b)
        /\ Between(toClient, "PUBLISH", sending', d, ins)
    BY <1>4, <1>5, <2>1, OrderSame
  <2>3. /\ Between(toBroker, "PUBREC", sending', b, c)
        /\ Between(outboundQueue, "PUBREC", sending', c, d)
    BY <1>4, <2>1, OrderSame
  <2> QED BY <1>11, <2>2, <2>3 DEF Cuts
<1>13. Between(toClient', "PUBLISH", sending', d, ins + 1)
  <2>1. MsgOf(q, sending') \in d + 1 .. ins + 1 /\ ins <= ins + 1 /\ ins + 1 \in Nat
    BY <1>1, <1>5, <1>12
  <2>2. Between(Append(toClient, q), "PUBLISH", sending', d, ins + 1)
    BY <1>1, <1>6, <1>12, <2>1, BetweenAppend
  <2> QED BY <1>2, <2>2
<1>14. Between(toClient', "PUBREL", sending', a, b)
  <2>1. Kept(toClient, Append(toClient, q), "PUBREL")
    BY <1>2, <1>6, KeptFacts
  <2> QED BY <1>2, <1>12, <2>1 DEF Kept
<1>15. Cuts(a, b, c, d)'
  <2>1. \A m : Holds(received', m) /\ qosOf'[m] = 2 => m <= a
    BY <1>1, <1>12, MsgTypes
  <2>2. d <= ins'
    BY <1>1, <1>12
  <2> QED BY <1>1, <1>12, <1>13, <1>14, <2>1, <2>2 DEF Cuts
<1>16. NotReceived'
  <2> SUFFICES ASSUME NEW p, Holds(toClient', p), p.type = "PUBLISH"
               PROVE  /\ qosOf'[p.msg] = p.qos
                      /\ \A m : Holds(received', m) /\ qosOf'[m] = p.qos => m < p.msg
    BY DEF NotReceived
  <2>1. CASE p = q
    BY <1>1, <1>2, <2>1, MsgTypes
  <2>2. CASE Holds(toClient, p)
    BY <1>1, <2>2, MsgTypes DEF OrderInv, NotReceived
  <2> QED BY <1>7, <2>1, <2>2
<1>17. \A j \in MsgId : sending'[j].msg # 0 => qosOf'[sending'[j].msg] = sending'[j].qos
  <2> SUFFICES ASSUME NEW j \in MsgId, sending'[j].msg # 0
               PROVE  qosOf'[sending'[j].msg] = sending'[j].qos
    OBVIOUS
  <2>1. CASE sending'[j] = sending[j]
    <3>1. sending[j].msg \in 1 .. ins
      BY <1>1, <2>1, MsgTypes
    <3> QED BY <1>1, <2>1, <3>1 DEF OrderInv
  <2>2. CASE sending'[j].msg = ins + 1 /\ sending'[j].qos = qos
    BY <1>1, <2>2
  <2> QED BY <1>3, <2>1, <2>2
<1>18. ReceivedInOrder'
  <2>1. \A k \in 1 .. Len(received) : received[k] \in 1 .. ins
    BY MsgTypes DEF Holds
  <2>2. \A k \in 1 .. Len(received) : qosOf'[received[k]] = qosOf[received[k]]
    BY <1>1, <2>1
  <2>3. ReceivedInOrder /\ received' = received
    BY <1>1 DEF OrderInv
  <2> QED BY <2>2, <2>3 DEF ReceivedInOrder
<1>19. \E w, x, y, z \in Nat : Cuts(w, x, y, z)'
  BY <1>15
<1> QED BY <1>8, <1>9, <1>10, <1>16, <1>17, <1>18, <1>19 DEF OrderInv

\* A publication with QoS 0 is read, which the broker does not answer.
LEMMA OrderBrokerDirect ==
  ASSUME TypeOK, OrderInv, BrokerReads, Direct(Head(toBroker))
  PROVE  OrderInv'
<1>1. /\ UNCHANGED <<received, qosOf, ins, outboundQueue, toClient, sending>>
      /\ toBroker # <<>> /\ toBroker' = Tail(toBroker)
  <2>1. UNCHANGED <<toClient, sending>>
    BY DEF BrokerReads, Direct
  <2> QED BY <2>1 DEF BrokerReads, TypeOK
<1>2. /\ Kept(toBroker, toBroker', "PUBREC") /\ Kept(outboundQueue, outboundQueue', "PUBREC")
      /\ Kept(toClient, toClient', "PUBLISH") /\ Kept(toClient, toClient', "PUBREL")
  BY <1>1, Sequences, KeptFacts
<1> QED BY <1>1, <1>2, OrderQuiet

LEMMA OrderBroker ==
  ASSUME TypeOK, InboundInv, OrderInv, BrokerReads, ~Direct(Head(toBroker))
  PROVE  OrderInv'
<1>0. PICK p, id : p = Head(toBroker) /\ id = p.id
  OBVIOUS
<1>1. /\ UNCHANGED <<received, qosOf, ins, outboundQueue>>
      /\ toBroker # <<>> /\ toBroker' = Tail(toBroker)
  BY DEF BrokerReads, TypeOK
<1>2. /\ id \in MsgId /\ p.type \in PacketType
      /\ InboundCount(id)[p.type] # 0 \/ Forth(p.type)
      /\ \A q : Holds(toBroker', q) => Holds(toBroker, q)
  BY <1>0, ReadPassed DEF Direct
<1>3. Kept(toBroker, toBroker', "PUBREC") /\ Kept(outboundQueue, outboundQueue', "PUBREC")
  BY <1>1, Sequences, KeptFacts
<1>4. sending \in [MsgId -> Exchange(ins)]
  BY DEF TypeOK
<1>5. \A type \in AckType : /\ Ack(type, id) \in ClientPacket
                            /\ Ack(type, id).type = type /\ Ack(type, id).id = id
  BY <1>2 DEF Ack, ClientPacket, AckPacket
<1>6. ASSUME NEW x \in ClientPacket, toClient' = Append(toClient, x)
      PROVE  /\ \A q : Holds(toClient', q) <=> Holds(toClient, q) \/ q = x
             /\ \A type : x.type # type => Kept(toClient, toClient', type)
  <2>1. Extends(toClient', toClient, x)
    BY <1>6 DEF Extends
  <2>2. \A q : Holds(toClient', q) <=> Holds(toClient, q) \/ q = x
    BY <2>1, Sequences, ExtendsFacts
  <2>3. ASSUME NEW type, x.type # type PROVE Kept(toClient, toClient', type)
    BY <1>6, <2>3, KeptAnswer
  <2> QED BY <2>2, <2>3
<1>7. ASSUME UNCHANGED sending, NEW type \in {"PUBACK", "PUBREC", "PUBCOMP"},
             toClient' = Append(toClient, Ack(type, id))
      PROVE  OrderInv'
  <2>1. PICK x : x = Ack(type, id)
    OBVIOUS
  <2>2. type \in AckType /\ type # "PUBLISH" /\ type # "PUBREL"
    BY DEF AckType
  <2>3. x \in ClientPacket /\ x.type = type /\ toClient' = Append(toClient, x)
    BY <1>5, <1>7, <2>1, <2>2
  <2>4. /\ Kept(toClient, toClient', "PUBLISH") /\ Kept(toClient, toClient', "PUBREL")
        /\ \A q : Holds(toClient', q) /\ q.type = "PUBLISH" => Holds(toClient, q)
    BY <1>6, <2>2, <2>3
  <2> QED BY <1>1, <1>3, <1>7, <2>4, OrderQuiet
<1>8. CASE /\ p.type \in {"PUBACK", "PUBCOMP"} /\ UNCHANGED toClient
           /\ sending' = [sending EXCEPT ![id] = IF @.next = p.type THEN Free ELSE @]
  <2>1. Kept(toClient, toClient', "PUBLISH") /\ Kept(toClient, toClient', "PUBREL")
    BY <1>8, Sequences, KeptFacts
  <2>2. \A j \in MsgId : /\ j # id => sending'[j] = sending[j]
                         /\ sending'[j] = sending[j] \/ sending'[j] = Free
    BY <1>2, <1>4, <1>8
  <2>3. \A j \in MsgId : sending'[j].msg # 0 =>
          sending'[j].msg = sending[j].msg /\ sending'[j].qos = sending[j].qos
    BY <2>2 DEF Free
  <2>4. InboundCount(id)["PUBREL"] = 0 /\ InboundCount(id)["PUBREC"] = 0
    <3>1. PICK had \in BOOLEAN : had = Holds(received, sending[id].msg)
      BY DEF Holds
    <3>2. Going(sending[id], InboundCount(id), inboundMsgs[id], had)
      BY <1>2, <3>1 DEF InboundInv
    <3>3. "PUBREL" \in PacketType /\ "PUBREC" \in PacketType /\ InboundCount(id)[p.type] # 0
      BY <1>2, <1>8 DEF PacketType, AckType, Forth
    <3>4. \A t \in PacketType : InboundCount(id)[t] = IF t = p.type THEN 1 ELSE 0
      BY <1>2, <3>2, <3>3, AtHand
    <3> QED BY <1>8, <3>3, <3>4
  <2>5. ASSUME NEW q, \/ Holds(toClient', q) /\ q.type = "PUBREL"
                      \/ Holds(toBroker', q) /\ q.type = "PUBREC"
                      \/ Holds(outboundQueue', q) /\ q.type = "PUBREC"
        PROVE  sending'[q.id].msg = sending[q.id].msg
    <3>1. q.id \in MsgId /\ q.id # id
      BY <1>1, <1>2, <1>8, <2>4, <2>5, HeldCount
    <3> QED BY <2>2, <3>1
  <2> QED BY <1>1, <1>3, <1>8, <2>1, <2>3, <2>5, OrderQuiet
<1>9. CASE /\ p.type = "PUBREC" /\ toClient' = Append(toClient, Ack("PUBREL", id))
           /\ sending' = [sending EXCEPT ![id] = IF @.next = "PUBREC"
                                                 THEN [@ EXCEPT !.next = "PUBCOMP"] ELSE @]
  <2>1. \A j \in MsgId : sending'[j].msg = sending[j].msg /\ sending'[j].qos = sending[j].qos
    <3>1. ASSUME NEW j \in MsgId
          PROVE  LET e == [sending[j] EXCEPT !.next = "PUBCOMP"]
                 IN  e.msg = sending[j].msg /\ e.qos = sending[j].qos
      <4>1. sending[j] \in Exchange(ins)
        BY <1>4
      <4> QED BY <4>1 DEF Exchange
    <3> QED BY <1>2, <1>4, <1>9, <3>1
  <2>2. PICK x : x = Ack("PUBREL", id)
    OBVIOUS
  <2>3. /\ x \in ClientPacket /\ x.type = "PUBREL" /\ x.id = id /\ toClient' = Append(toClient, x)
    BY <1>5, <1>9, <2>2 DEF AckType
  <2>4. PICK m : m = sending[id].msg
    OBVIOUS
  <2>5. MsgOf(p, sending) = m /\ MsgOf(x, sending) = m /\ m \in Nat
    BY <1>0, <1>2, <1>9, <2>3, <2>4, MsgTypes DEF MsgOf
  <2>6. PICK a, b, c, d \in Nat : Cuts(a, b, c, d)
    BY DEF OrderInv
  <2>7. /\ a <= b /\ b <= c /\ c <= d /\ d <= ins
        /\ \A n : Holds(received, n) /\ qosOf[n] = 2 => n <= a
        /\ Between(toClient, "PUBREL", sending, a, b)
        /\ Between(toBroker, "PUBREC", sending, b, c)
        /\ Between(outboundQueue, "PUBREC", sending, c, d)
        /\ Between(toClient, "PUBLISH", sending, d, ins)
    BY <2>6 DEF Cuts
  <2>8. m \in b + 1 .. c /\ Between(toBroker', "PUBREC", sending, m, c)
    <3>1. /\ MsgOf(p, sending) \in b + 1 .. c
          /\ Between(Tail(toBroker), "PUBREC", sending, MsgOf(p, sending), c)
      BY <1>0, <1>1, <1>9, <2>7, Sequences, BetweenTail DEF OrderInv
    <3> QED BY <1>1, <2>5, <3>1
  <2>9. a <= m /\ m <= c /\ b <= m /\ m \in a + 1 .. m /\ m \in b + 1 .. m
    BY <2>5, <2>7, <2>8
  <2>10. Between(toClient', "PUBREL", sending, a, m) /\ InOrder(toClient', "PUBREL", sending)
    <3>1. InOrder(toClient, "PUBREL", sending) /\ toClient \in Seq(ClientPacket)
      BY Sequences DEF OrderInv
    <3>2. /\ Between(Append(toClient, x), "PUBREL", sending, a, m)
          /\ InOrder(Append(toClient, x), "PUBREL", sending)
      BY <2>3, <2>5, <2>7, <2>9, <3>1, BetweenAppend
    <3> QED BY <2>3, <3>2
  <2>11. /\ Kept(toClient, toClient', "PUBLISH")
         /\ \A q : Holds(toClient', q) /\ q.type = "PUBLISH" => Holds(toClient, q)
    BY <1>6, <2>3
  <2>12. /\ InOrder(toClient', "PUBLISH", sending) /\ InOrder(toBroker', "PUBREC", sending)
         /\ Between(toClient', "PUBLISH", sending, d, ins)
    BY <1>3, <2>7, <2>11 DEF OrderInv, Kept
  <2>13. \A q : \/ Holds(toClient', q) /\ q.type \in {"PUBLISH", "PUBREL"}
                \/ (Holds(toBroker', q) \/ Holds(outboundQueue, q)) /\ q.type = "PUBREC"
                => MsgOf(q, sending') = MsgOf(q, sending)
    <3>1. \A q : \/ Holds(toClient', q) /\ q.type = "PUBREL"
                 \/ (Holds(toBroker', q) \/ Holds(outboundQueue, q)) /\ q.type = "PUBREC"
                 => q.id \in MsgId
      BY <1>2, <1>6, <2>3, HeldCount
    <3> QED BY <2>1, <3>1 DEF MsgOf
  <2>14. /\ InOrder(toClient', "PUBLISH", sending') /\ InOrder(toClient', "PUBREL", sending')
         /\ Between(toClient', "PUBLISH", sending', d, ins)
         /\ Between(toClient', "PUBREL", sending', a, m)
    BY <2>10, <2>12, <2>13, OrderSame
  <2>15. /\ InOrder(toBroker', "PUBREC", sending') /\ Between(toBroker', "PUBREC", sending', m, c)
         /\ Between(outboundQueue, "PUBREC", sending', c, d)
    BY <2>7, <2>8, <2>12, <2>13, OrderSame
  <2>16. Cuts(a, m, c, d)'
    BY <1>1, <2>7, <2>9, <2>14, <2>15 DEF Cuts
  <2> QED BY <1>1, <2>1, <2>5, <2>11, <2>14, <2>15, <2>16, OrderRest
<1> QED BY <1>0, <1>7, <1>8, <1>9 DEF BrokerReads, Direct

LEMMA OrderInit ==
  ASSUME Init
  PROVE  OrderInv
<1>1. /\ toClient = <<>> /\ toBroker = <<>> /\ outboundQueue = <<>> /\ received = <<>> /\ ins = 0
      /\ \A id \in MsgId : sending[id].msg = 0
  BY DEF Init, Free
<1>2. \A x : ~Holds(toClient, x) /\ ~Holds(received, x)
  BY <1>1 DEF Holds
<1>3. Cuts(0, 0, 0, 0)
  BY <1>1, <1>2, BetweenEmpty DEF Cuts
<1>4. \E a, b, c, d \in Nat : Cuts(a, b, c, d)
  BY <1>3
<1>5. /\ InOrder(toClient, "PUBLISH", sending) /\ InOrder(toClient, "PUBREL", sending)
      /\ InOrder(toBroker, "PUBREC", sending)
  BY <1>1, BetweenEmpty
<1>6. NotReceived
  BY <1>2 DEF NotReceived
<1>7. ReceivedInOrder
  <2>1. Len(received) = 0
    BY <1>1
  <2> QED BY <2>1 DEF ReceivedInOrder
<1> QED BY <1>1, <1>4, <1>5, <1>6, <1>7 DEF OrderInv

LEMMA OrderStep ==
  ASSUME TypeOK, ExchangeInv, OrderInv, [Next]_vars
  PROVE  OrderInv'
<1>0. QueueInv /\ InboundInv
  BY DEF ExchangeInv
<1>1. ASSUME Receive PROVE OrderInv'
  BY <1>0, <1>1, OrderPublishes, OrderPubrels, OrderAcks DEF Receive
<1>2. ASSUME BrokerReads \/ WriteAvailable \/ Lose PROVE OrderInv'
  BY <1>0, <1>2, OrderBrokerDirect, OrderBroker, OrderFlush, OrderLose
<1>3. ASSUME NEW qos \in Qos, Forward(qos) PROVE OrderInv'
  BY <1>0, <1>3, OrderForward
<1>4. ASSUME \/ ReadySocket \/ WriteComplete \/ StartPublish \/ StartPublishQoS0
             \/ (\E qos \in Qos : SendMessage(qos)) \/ UNCHANGED vars
      PROVE  OrderInv'
  BY <1>4, OrderSilent
<1> QED BY <1>1, <1>2, <1>3, <1>4 DEF Next

\* What separates the messages under way, and has been received, stays in order.
THEOREM OrderKept == Spec => []OrderInv
<1>1. Init => OrderInv
  BY OrderInit
<1>2. TypeOK /\ ExchangeInv /\ OrderInv /\ [Next]_vars => OrderInv'
  BY OrderStep
<1> QED BY <1>1, <1>2, TypeCorrect, ExchangesCorrect, PTL DEF Spec

\* Messages of one quality of service are given to messageArrived in the order in
\* which the broker forwarded them, none of them twice: also the QoS 2 ones,
\* which wait for their PUBREL, and whose PUBREC may have to wait in the queue.
THEOREM OrderCorrect == Spec => []ReceivedInOrder
<1>1. OrderInv => ReceivedInOrder
  BY DEF OrderInv
<1> QED BY <1>1, OrderKept, PTL

-----------------------------------------------------------------------------
(* The order in which the broker publishes what we send *)

\* A QoS 2 publication of ours goes from the commands to its PUBLISH and PUBREC,
\* then to PUBREL, in the queue and in the socket: three messages separate them.
OutCuts(a, b, c) ==
  /\ a <= b /\ b <= c /\ c <= outs
  /\ Between(toBroker, "PUBREL", outboundMsgs, 0, a)
  /\ Between(outboundQueue, "PUBREL", outboundMsgs, a, b)
  /\ Between(toClient, "PUBREC", outboundMsgs, b, c)
  /\ Between(toBroker, "PUBLISH", outboundMsgs, c, outs)
  /\ Between(commands, "PUBLISH", outboundMsgs, c, outs)

\* What has been sent was a command before those that are commands still.
SentFirst ==
  \A p, q : Holds(toBroker, p) /\ p.type = "PUBLISH" /\ Holds(commands, q) => p.msg < q.msg

OutOrderInv ==
  /\ InOrder(toBroker, "PUBLISH", outboundMsgs) /\ InOrder(toBroker, "PUBREL", outboundMsgs)
  /\ InOrder(toClient, "PUBREC", outboundMsgs) /\ InOrder(commands, "PUBLISH", outboundMsgs)
  /\ \E a, b, c \in Nat : OutCuts(a, b, c)
  /\ SentFirst

\* What a step that publishes nothing new leaves true.
LEMMA OutOrderRest ==
  ASSUME OutOrderInv, UNCHANGED <<commands, outs>>,
         \A p : Holds(toBroker', p) /\ p.type = "PUBLISH" => Holds(toBroker, p),
         /\ InOrder(toBroker', "PUBLISH", outboundMsgs')
         /\ InOrder(toBroker', "PUBREL", outboundMsgs')
         /\ InOrder(toClient', "PUBREC", outboundMsgs'),
         NEW a \in Nat, NEW b \in Nat, NEW c \in Nat, OutCuts(a, b, c)'
  PROVE  OutOrderInv'
<1>1. SentFirst'
  BY DEF OutOrderInv, SentFirst
<1>2. InOrder(commands', "PUBLISH", outboundMsgs')
  <2>1. \A p : p.type = "PUBLISH" => MsgOf(p, outboundMsgs') = MsgOf(p, outboundMsgs)
    BY DEF MsgOf
  <2> QED BY <2>1, OrderSame DEF OutOrderInv
<1>3. \E w, x, y \in Nat : OutCuts(w, x, y)'
  OBVIOUS
<1> QED BY <1>1, <1>2, <1>3 DEF OutOrderInv

LEMMA OutOrderQuiet ==
  ASSUME OutOrderInv, UNCHANGED <<commands, outs>>,
         Kept(toBroker, toBroker', "PUBLISH"), Kept(toBroker, toBroker', "PUBREL"),
         Kept(outboundQueue, outboundQueue', "PUBREL"), Kept(toClient, toClient', "PUBREC"),
         \A p : Holds(toBroker', p) /\ p.type = "PUBLISH" => Holds(toBroker, p),
         \A p : \/ Holds(toClient', p) /\ p.type = "PUBREC"
                \/ (Holds(toBroker', p) \/ Holds(outboundQueue', p)) /\ p.type = "PUBREL"
                => outboundMsgs'[p.id].msg = outboundMsgs[p.id].msg
  PROVE  OutOrderInv'
<1>1. /\ \A p : Holds(toClient', p) /\ p.type = "PUBREC" =>
                  MsgOf(p, outboundMsgs') = MsgOf(p, outboundMsgs)
      /\ \A p : (Holds(toBroker', p) \/ Holds(outboundQueue', p)) /\ p.type = "PUBREL" =>
                  MsgOf(p, outboundMsgs') = MsgOf(p, outboundMsgs)
      /\ \A p : p.type = "PUBLISH" => MsgOf(p, outboundMsgs') = MsgOf(p, outboundMsgs)
  BY DEF MsgOf
<1>2. PICK a, b, c \in Nat : OutCuts(a, b, c)
  BY DEF OutOrderInv
<1>3. /\ InOrder(toBroker', "PUBLISH", outboundMsgs) /\ InOrder(toBroker', "PUBREL", outboundMsgs)
      /\ InOrder(toClient', "PUBREC", outboundMsgs)
  BY DEF OutOrderInv, Kept
<1>4. /\ InOrder(toBroker', "PUBLISH", outboundMsgs')
      /\ InOrder(toBroker', "PUBREL", outboundMsgs')
      /\ InOrder(toClient', "PUBREC", outboundMsgs')
  BY <1>1, <1>3, OrderSame
<1>5. /\ a <= b /\ b <= c /\ c <= outs
      /\ Between(toBroker', "PUBREL", outboundMsgs, 0, a)
      /\ Between(outboundQueue', "PUBREL", outboundMsgs, a, b)
      /\ Between(toClient', "PUBREC", outboundMsgs, b, c)
      /\ Between(toBroker', "PUBLISH", outboundMsgs, c, outs)
      /\ Between(commands', "PUBLISH", outboundMsgs, c, outs)
  BY <1>2 DEF OutCuts, Kept
<1>6. /\ Between(toBroker', "PUBREL", outboundMsgs', 0, a)
      /\ Between(outboundQueue', "PUBREL", outboundMsgs', a, b)
      /\ Between(toClient', "PUBREC", outboundMsgs', b, c)
      /\ Between(toBroker', "PUBLISH", outboundMsgs', c, outs)
      /\ Between(commands', "PUBLISH", outboundMsgs', c, outs)
  BY <1>1, <1>5, OrderSame
<1>7. OutCuts(a, b, c)'
  BY <1>5, <1>6 DEF OutCuts
<1> QED BY <1>4, <1>7, OutOrderRest

\* Steps that move no publication of ours and keep their exchanges.
LEMMA OutOrderSilent ==
  ASSUME TypeOK, OutOrderInv,
         \/ ReadySocket \/ WriteComplete \/ HandlePublishes \/ HandlePubrels \/ UNCHANGED vars
         \/ \E qos \in Qos : Forward(qos)
  PROVE  OutOrderInv'
<1>1. UNCHANGED <<commands, outs, outboundMsgs>>
  BY DEF ReadySocket, WriteComplete, HandlePublishes, HandlePubrels, Forward, vars, outbound,
         requests
<1>2. UNCHANGED socket \/ \E x \in AckPacket : x.type \in {"PUBACK", "PUBREC", "PUBCOMP"} /\ Send(x)
  <2>1. CASE HandlePublishes
    <3>1. PICK p : p = Head(toClient)
      OBVIOUS
    <3>2. /\ \/ UNCHANGED socket
             \/ p.qos # 0 /\ Send(Ack("PUBACK", p.id))
             \/ p.qos # 0 /\ Send(Ack("PUBREC", p.id))
          /\ p.qos # 0 => p.id \in MsgId
      <4>1. Take("PUBLISH")
        BY <2>1 DEF HandlePublishes
      <4>2. p.qos # 0 => p.id \in MsgId
        BY <3>1, <4>1, TypeParts, Bounds, TakeHead DEF BrokerType
      <4> QED BY <2>1, <3>1, <4>2 DEF HandlePublishes
    <3>3. p.id \in MsgId =>
            /\ Ack("PUBACK", p.id) \in AckPacket /\ Ack("PUBACK", p.id).type = "PUBACK"
            /\ Ack("PUBREC", p.id) \in AckPacket /\ Ack("PUBREC", p.id).type = "PUBREC"
      BY DEF Ack, AckPacket, AckType
    <3> QED BY <3>2, <3>3
  <2>2. CASE HandlePubrels
    <3>1. PICK id : id = Head(toClient).id
      OBVIOUS
    <3>2. Take("PUBREL") /\ Send(Ack("PUBCOMP", id))
      BY <2>2, <3>1 DEF HandlePubrels
    <3>3. id \in MsgId
      BY <3>1, <3>2, TypeParts, Bounds, TakeHead DEF BrokerType
    <3>4. Ack("PUBCOMP", id) \in AckPacket /\ Ack("PUBCOMP", id).type = "PUBCOMP"
      BY <3>3 DEF Ack, AckPacket, AckType
    <3> QED BY <3>2, <3>4
  <2> QED BY <2>1, <2>2 DEF ReadySocket, WriteComplete, Forward, vars, socket
<1>3. /\ Kept(toBroker, toBroker', "PUBLISH") /\ Kept(toBroker, toBroker', "PUBREL")
      /\ Kept(outboundQueue, outboundQueue', "PUBREL")
  BY <1>2, KeptSend
<1>4. Kept(toClient, toClient', "PUBREC")
  <2>1. CASE HandlePublishes \/ HandlePubrels
    <3>1. PICK type : Take(type)
      BY <2>1 DEF HandlePublishes, HandlePubrels
    <3> QED BY <3>1, KeptTake
  <2>2. CASE UNCHANGED toClient
    BY <2>2, Sequences, KeptFacts
  <2>3. ASSUME NEW qos \in Qos, Forward(qos) PROVE Kept(toClient, toClient', "PUBREC")
    <3>1. PICK q : q.type = "PUBLISH" /\ toClient' = Append(toClient, q)
      BY <2>3 DEF Forward, Publish
    <3>2. PICK S : q \in S /\ toClient \in Seq(S) /\ S = ClientPacket \cup {q}
      BY Sequences, SeqSubset
    <3> QED BY <3>1, <3>2, KeptFacts
  <2> QED BY <2>1, <2>2, <2>3 DEF ReadySocket, WriteComplete, vars
<1>5. \A p : Holds(toBroker', p) /\ p.type = "PUBLISH" => Holds(toBroker, p)
  BY <1>2, SendHolds
<1> QED BY <1>1, <1>3, <1>4, <1>5, OutOrderQuiet

LEMMA OutHeldCount ==
  ASSUME TypeOK, NEW p
  PROVE  /\ Holds(toClient, p) /\ p.type = "PUBREC" =>
              p.id \in MsgId /\ OutboundCount(p.id)["PUBREC"] # 0
         /\ (Holds(toBroker, p) \/ Holds(outboundQueue, p)) /\ p.type = "PUBREL" =>
              p.id \in MsgId /\ OutboundCount(p.id)["PUBREL"] # 0
<1>1. "PUBREL" \in PacketType /\ "PUBREC" \in PacketType
  BY DEF PacketType, AckType
<1>2. ASSUME Holds(toClient, p), p.type = "PUBREC"
      PROVE  p.id \in MsgId /\ OutboundCount(p.id)["PUBREC"] # 0
  <2>1. p \in ClientPacket /\ Count("PUBREC", p.id, toClient) # 0
    BY <1>2, Sequences, HoldsFacts, HoldsCount
  <2>2. p.id \in MsgId
    BY <1>2, <2>1 DEF ClientPacket, AckPacket, Publication, Numbered
  <2>3. Inward("PUBREC", p.id) # 0
    BY <2>1, Counts
  <2> QED BY <1>1, <2>2, <2>3 DEF OutboundCount
<1>3. ASSUME Holds(toBroker, p) \/ Holds(outboundQueue, p), p.type = "PUBREL"
      PROVE  p.id \in MsgId /\ OutboundCount(p.id)["PUBREL"] # 0
  <2>1. /\ p \in BrokerPacket
        /\ Count("PUBREL", p.id, toBroker) # 0 \/ Count("PUBREL", p.id, outboundQueue) # 0
    BY <1>3, Sequences, HoldsFacts, HoldsCount
  <2>2. p.id \in MsgId
    BY <1>3, <2>1 DEF BrokerPacket, AckPacket, Publication, Numbered
  <2>3. Count("PUBREL", p.id, toBroker) \in Nat /\ Count("PUBREL", p.id, outboundQueue) \in Nat
    BY Sequences, CountType
  <2>4. Outward("PUBREL", p.id) # 0
    BY <2>1, <2>3, Counts
  <2> QED BY <1>1, <2>2, <2>4 DEF OutboundCount
<1> QED BY <1>2, <1>3

LEMMA OutOrderEnds ==
  ASSUME TypeOK, OutboundInv, OutOrderInv, HandlePubacks \/ HandlePubcomps
  PROVE  OutOrderInv'
<1>0. PICK p, id : p = Head(toClient) /\ id = p.id
  OBVIOUS
<1>1. PICK type \in {"PUBACK", "PUBCOMP"} :
        Take(type) /\ \E e : outboundMsgs' = [outboundMsgs EXCEPT ![id] = e]
  BY <1>0 DEF HandlePubacks, HandlePubcomps
<1>2. UNCHANGED <<socket, toBroker, outboundQueue, commands, outs>>
  BY DEF HandlePubacks, HandlePubcomps, requests, socket
<1>3. /\ Kept(toBroker, toBroker', "PUBLISH") /\ Kept(toBroker, toBroker', "PUBREL")
      /\ Kept(outboundQueue, outboundQueue', "PUBREL") /\ Kept(toClient, toClient', "PUBREC")
  BY <1>1, <1>2, KeptTake, KeptSend
<1>4. /\ id \in MsgId /\ type \in PacketType /\ ~Forth(type)
      /\ "PUBREC" \in PacketType /\ "PUBREL" \in PacketType
  BY <1>0, <1>1, TypeParts, Bounds, TakeHead DEF BrokerType, PacketType, AckType, Forth
<1>5. OutboundCount(id)["PUBREC"] = 0 /\ OutboundCount(id)["PUBREL"] = 0
  <2>1. PICK had \in BOOLEAN : had = Holds(published, outboundMsgs[id].msg)
    BY DEF Holds
  <2>2. Going(outboundMsgs[id], OutboundCount(id), stored[id], had)
    BY <1>4, <2>1 DEF OutboundInv
  <2>3. OutboundCount(id)[type] # 0
    BY <1>0, <1>1, <1>4, TakeHolds
  <2>4. \A t \in PacketType : OutboundCount(id)[t] = IF t = type THEN 1 ELSE 0
    BY <1>4, <2>2, <2>3, AtHand
  <2> QED BY <1>4, <2>4
<1>6. ASSUME NEW q, \/ Holds(toClient', q) /\ q.type = "PUBREC"
                    \/ (Holds(toBroker', q) \/ Holds(outboundQueue', q)) /\ q.type = "PUBREL"
      PROVE  outboundMsgs'[q.id].msg = outboundMsgs[q.id].msg
  <2>1. \/ Holds(toClient, q) /\ q.type = "PUBREC"
        \/ (Holds(toBroker, q) \/ Holds(outboundQueue, q)) /\ q.type = "PUBREL"
    BY <1>1, <1>2, <1>6, TakeHolds
  <2>2. q.id \in MsgId /\ q.id # id
    BY <1>5, <2>1, OutHeldCount
  <2>3. outboundMsgs \in [MsgId -> Exchange(outs)]
    BY DEF TypeOK
  <2> QED BY <1>1, <2>2, <2>3
<1> QED BY <1>2, <1>3, <1>6, OutOrderQuiet

LEMMA OutOrderPubrecs ==
  ASSUME TypeOK, OutboundInv, OutOrderInv, HandlePubrecs
  PROVE  OutOrderInv'
<1>0. PICK p, id : p = Head(toClient) /\ id = p.id
  OBVIOUS
<1>1. PICK x : x = Ack("PUBREL", id)
  OBVIOUS
<1>2. /\ Take("PUBREC") /\ UNCHANGED <<commands, outs>> /\ Send(x)
      /\ toClient # <<>> /\ toClient' = Tail(toClient)
  BY <1>0, <1>1 DEF HandlePubrecs, requests, Take, TypeOK
<1>3. p.type = "PUBREC" /\ id \in MsgId
  BY <1>0, <1>2, TypeParts, Bounds, TakeHead DEF BrokerType
<1>4. x \in AckPacket /\ x \in BrokerPacket /\ x.type = "PUBREL" /\ x.id = id
  BY <1>1, <1>3, Sequences DEF Ack, AckPacket, AckType
<1>5. \A j \in MsgId : outboundMsgs'[j].msg = outboundMsgs[j].msg
  <2>1. outboundMsgs \in [MsgId -> Exchange(outs)]
    BY DEF TypeOK
  <2>2. [outboundMsgs[id] EXCEPT !.next = "PUBCOMP"].msg = outboundMsgs[id].msg
    <3>1. outboundMsgs[id] \in Exchange(outs)
      BY <1>3, <2>1
    <3> QED BY <3>1 DEF Exchange
  <2>3. outboundMsgs' = [outboundMsgs EXCEPT
          ![id] = IF @.qos = 2 /\ @.next = "PUBREC" THEN [@ EXCEPT !.next = "PUBCOMP"] ELSE @]
    BY <1>0 DEF HandlePubrecs
  <2> QED BY <2>1, <2>2, <2>3
<1>6. \A q : \/ Holds(toClient', q) /\ q.type = "PUBREC"
             \/ (Holds(toBroker', q) \/ Holds(outboundQueue', q)) /\ q.type = "PUBREL"
             => q.id \in MsgId
  <2>1. \A q : Holds(toClient', q) => Holds(toClient, q)
    BY <1>2, TakeHolds
  <2>2. \A q : Holds(toBroker', q) \/ Holds(outboundQueue', q) =>
              Holds(toBroker, q) \/ Holds(outboundQueue, q) \/ q = x
    <3>1. \/ toBroker' = toBroker /\ Extends(outboundQueue', outboundQueue, x)
          \/ Extends(toBroker', toBroker, x) /\ outboundQueue' = outboundQueue
      BY <1>2 DEF Send, Write, Extends
    <3> QED BY <1>4, <3>1, Sequences, ExtendsFacts
  <2> QED BY <1>3, <1>4, <2>1, <2>2, OutHeldCount
<1>7. /\ \A q : Holds(toClient', q) /\ q.type = "PUBREC" =>
                  MsgOf(q, outboundMsgs') = MsgOf(q, outboundMsgs)
      /\ \A q : (Holds(toBroker', q) \/ Holds(outboundQueue', q)) /\ q.type = "PUBREL" =>
                  MsgOf(q, outboundMsgs') = MsgOf(q, outboundMsgs)
      /\ \A q : q.type = "PUBLISH" => MsgOf(q, outboundMsgs') = MsgOf(q, outboundMsgs)
  BY <1>5, <1>6 DEF MsgOf
<1>8. PICK m : m = outboundMsgs[id].msg
  OBVIOUS
<1>9. /\ MsgOf(p, outboundMsgs) = m /\ MsgOf(x, outboundMsgs) = m
      /\ m \in Nat /\ outs \in Nat
  <2>1. outboundMsgs[id] \in Exchange(outs) /\ outs \in Nat
    BY <1>3 DEF TypeOK
  <2> QED BY <1>0, <1>3, <1>4, <1>8, <2>1 DEF MsgOf, Exchange
<1>10. PICK a, b, c \in Nat : OutCuts(a, b, c)
  BY DEF OutOrderInv
<1>11. /\ a <= b /\ b <= c /\ c <= outs
       /\ Between(toBroker, "PUBREL", outboundMsgs, 0, a)
       /\ Between(outboundQueue, "PUBREL", outboundMsgs, a, b)
       /\ Between(toClient, "PUBREC", outboundMsgs, b, c)
       /\ Between(toBroker, "PUBLISH", outboundMsgs, c, outs)
       /\ Between(commands, "PUBLISH", outboundMsgs, c, outs)
  BY <1>10 DEF OutCuts
<1>12. m \in b + 1 .. c /\ Between(toClient', "PUBREC", outboundMsgs, m, c)
  <2>1. /\ MsgOf(p, outboundMsgs) \in b + 1 .. c
        /\ Between(Tail(toClient), "PUBREC", outboundMsgs, MsgOf(p, outboundMsgs), c)
    BY <1>0, <1>2, <1>3, <1>11, Sequences, BetweenTail DEF OutOrderInv
  <2> QED BY <1>2, <1>9, <2>1
<1>13. /\ Kept(toBroker, toBroker', "PUBLISH") /\ Kept(toClient, toClient', "PUBREC")
       /\ \A q : Holds(toBroker', q) /\ q.type = "PUBLISH" => Holds(toBroker, q)
  <2>1. Kept(toBroker, toBroker', "PUBLISH")
    BY <1>2, <1>4, KeptSend
  <2>2. Kept(toClient, toClient', "PUBREC")
    BY <1>2, KeptTake
  <2> QED BY <1>2, <1>4, <2>1, <2>2, SendHolds
<1>14. /\ InOrder(toBroker', "PUBLISH", outboundMsgs) /\ InOrder(toClient', "PUBREC", outboundMsgs)
       /\ InOrder(toBroker, "PUBREL", outboundMsgs)
       /\ Between(toBroker', "PUBLISH", outboundMsgs, c, outs)
  BY <1>11, <1>13 DEF OutOrderInv, Kept
<1>15. PICK w, y \in Nat :
         /\ w <= y /\ y <= m
         /\ Between(toBroker', "PUBREL", outboundMsgs, 0, w)
         /\ InOrder(toBroker', "PUBREL", outboundMsgs)
         /\ Between(outboundQueue', "PUBREL", outboundMsgs, w, y)
  <2>1. CASE pending
    <3>1. outboundQueue' = Append(outboundQueue, x) /\ toBroker' = toBroker
      BY <1>2, <2>1 DEF Send
    <3>2. MsgOf(x, outboundMsgs) \in a + 1 .. m /\ b <= m /\ a <= m
      BY <1>9, <1>11, <1>12
    <3>3. Between(outboundQueue', "PUBREL", outboundMsgs, a, m)
      BY <1>4, <1>9, <1>11, <3>1, <3>2, Sequences, BetweenAppend
    <3> QED BY <1>9, <1>11, <1>14, <3>1, <3>2, <3>3
  <2>2. CASE ~pending
    <3>1. outboundQueue = <<>> /\ outboundQueue' = outboundQueue /\ toBroker' = Append(toBroker, x)
      BY <1>2, <2>2 DEF Send, Write, TypeOK
    <3>2. /\ MsgOf(x, outboundMsgs) \in a + 1 .. m /\ MsgOf(x, outboundMsgs) \in 0 + 1 .. m
          /\ a <= m
      BY <1>9, <1>11, <1>12
    <3>3. /\ Between(toBroker', "PUBREL", outboundMsgs, 0, m)
          /\ InOrder(toBroker', "PUBREL", outboundMsgs)
      BY <1>4, <1>9, <1>11, <1>14, <3>1, <3>2, Sequences, BetweenAppend
    <3>4. Between(outboundQueue', "PUBREL", outboundMsgs, m, m)
      BY <3>1, BetweenEmpty
    <3> QED BY <1>9, <3>3, <3>4
  <2> QED BY <2>1, <2>2
<1>16. /\ InOrder(toBroker', "PUBLISH", outboundMsgs')
       /\ InOrder(toBroker', "PUBREL", outboundMsgs')
       /\ InOrder(toClient', "PUBREC", outboundMsgs')
  BY <1>7, <1>14, <1>15, OrderSame
<1>17. /\ Between(toBroker', "PUBREL", outboundMsgs', 0, w)
       /\ Between(outboundQueue', "PUBREL", outboundMsgs', w, y)
       /\ Between(toClient', "PUBREC", outboundMsgs', m, c)
       /\ Between(toBroker', "PUBLISH", outboundMsgs', c, outs)
       /\ Between(commands, "PUBLISH", outboundMsgs', c, outs)
  <2>1. /\ Between(toBroker', "PUBREL", outboundMsgs', 0, w)
        /\ Between(outboundQueue', "PUBREL", outboundMsgs', w, y)
    BY <1>7, <1>15, OrderSame
  <2>2. Between(toClient', "PUBREC", outboundMsgs', m, c)
    BY <1>7, <1>12, OrderSame
  <2>3. /\ Between(toBroker', "PUBLISH", outboundMsgs', c, outs)
        /\ Between(commands, "PUBLISH", outboundMsgs', c, outs)
    BY <1>7, <1>11, <1>14, OrderSame
  <2> QED BY <2>1, <2>2, <2>3
<1>18. Between(outboundQueue', "PUBREL", outboundMsgs', w, m)
  <2>1. w + 1 .. y \subseteq w + 1 .. m
    BY <1>9, <1>15
  <2> QED BY <1>17, <2>1 DEF Between
<1>19. w <= m /\ m <= c
  BY <1>9, <1>12, <1>15
<1>20. OutCuts(w, m, c)'
  BY <1>2, <1>11, <1>17, <1>18, <1>19 DEF OutCuts
<1> QED BY <1>2, <1>9, <1>13, <1>16, <1>20, OutOrderRest

LEMMA OutOrderFlush ==
  ASSUME TypeOK, QueueInv, OutOrderInv, WriteAvailable
  PROVE  OutOrderInv'
<1>1. UNCHANGED <<toClient, outboundMsgs, commands, outs>> /\ outboundQueue' = <<>>
  BY DEF WriteAvailable, outbound, requests
<1>2. PICK a, b, c \in Nat : OutCuts(a, b, c)
  BY DEF OutOrderInv
<1>3. /\ a <= b /\ b <= c /\ c <= outs
      /\ Between(toBroker, "PUBREL", outboundMsgs, 0, a)
      /\ Between(outboundQueue, "PUBREL", outboundMsgs, a, b)
      /\ Between(toClient, "PUBREC", outboundMsgs, b, c)
      /\ Between(toBroker, "PUBLISH", outboundMsgs, c, outs)
      /\ Between(commands, "PUBLISH", outboundMsgs, c, outs)
  BY <1>2 DEF OutCuts
<1>4. /\ Between(toBroker', "PUBREL", outboundMsgs, 0, b)
      /\ InOrder(toBroker', "PUBREL", outboundMsgs)
      /\ Kept(toBroker, toBroker', "PUBLISH")
      /\ \A q : Holds(toBroker', q) /\ q.type = "PUBLISH" => Holds(toBroker, q)
  <2>1. CASE toBroker' = toBroker
    <3>1. 0 + 1 .. a \subseteq 0 + 1 .. b
      BY <1>3
    <3>2. Between(toBroker, "PUBREL", outboundMsgs, 0, b)
      BY <1>3, <3>1 DEF Between
    <3>3. Kept(toBroker, toBroker, "PUBLISH")
      BY Sequences, KeptFacts
    <3> QED BY <2>1, <3>2, <3>3 DEF OutOrderInv
  <2>2. ASSUME NEW x \in AckPacket, outboundQueue = <<x>>, toBroker' = Append(toBroker, x)
        PROVE  /\ Between(toBroker', "PUBREL", outboundMsgs, 0, b)
               /\ InOrder(toBroker', "PUBREL", outboundMsgs)
               /\ Kept(toBroker, toBroker', "PUBLISH")
               /\ \A q : Holds(toBroker', q) /\ q.type = "PUBLISH" => Holds(toBroker, q)
    <3>1. Holds(outboundQueue, x)
      <4>1. outboundQueue[1] = x /\ Len(outboundQueue) = 1
        BY <2>2, LenFacts
      <4>2. 1 \in 1 .. Len(outboundQueue)
        BY <4>1
      <4> QED BY <4>1, <4>2 DEF Holds
    <3>2. x.type = "PUBREL" => MsgOf(x, outboundMsgs) \in a + 1 .. b
      BY <1>3, <3>1 DEF Between
    <3>3. x.type = "PUBREL" => MsgOf(x, outboundMsgs) \in 0 + 1 .. b
      BY <1>3, <3>2
    <3>4. x \in BrokerPacket /\ x.type # "PUBLISH"
      BY Sequences DEF AckPacket, AckType
    <3>5. InOrder(toBroker, "PUBREL", outboundMsgs)
      BY DEF OutOrderInv
    <3>6. /\ Between(toBroker', "PUBREL", outboundMsgs, 0, b)
          /\ InOrder(toBroker', "PUBREL", outboundMsgs)
      BY <1>3, <2>2, <3>2, <3>3, <3>4, <3>5, Sequences, BetweenAppend
    <3>7. Kept(toBroker, toBroker', "PUBLISH")
      BY <2>2, <3>4, Sequences, KeptFacts
    <3>8. \A q : Holds(toBroker', q) => Holds(toBroker, q) \/ q = x
      BY <2>2, <3>4, Sequences, AppendHolds
    <3> QED BY <3>4, <3>6, <3>7, <3>8
  <2> QED BY <2>1, <2>2, FlushCount
<1>5. Between(outboundQueue', "PUBREL", outboundMsgs, b, b)
  BY <1>1, BetweenEmpty
<1>6. /\ InOrder(toBroker', "PUBLISH", outboundMsgs) /\ InOrder(toClient, "PUBREC", outboundMsgs)
      /\ Between(toBroker', "PUBLISH", outboundMsgs, c, outs)
  BY <1>3, <1>4 DEF OutOrderInv, Kept
<1>7. b <= b
  BY <1>3
<1>8. OutCuts(b, b, c)'
  BY <1>1, <1>3, <1>4, <1>5, <1>6, <1>7 DEF OutCuts
<1> QED BY <1>1, <1>4, <1>6, <1>8, OutOrderRest

LEMMA OutOrderBroker ==
  ASSUME TypeOK, OutboundInv, OutOrderInv, BrokerReads
  PROVE  OutOrderInv'
<1>0. PICK p, id : p = Head(toBroker) /\ id = p.id
  OBVIOUS
<1>1. /\ UNCHANGED <<outboundQueue, commands, outs, outboundMsgs>>
      /\ toBroker # <<>> /\ toBroker' = Tail(toBroker)
  BY DEF BrokerReads, TypeOK, outbound, requests
<1>2. /\ Holds(toBroker, p) /\ \A q : Holds(toBroker', q) => Holds(toBroker, q)
      /\ IF p.type = "PUBLISH" /\ p.qos = 0 THEN id = 0 ELSE id \in MsgId
  BY <1>0, ReadPassed
<1>3. /\ Kept(toBroker, toBroker', "PUBLISH") /\ Kept(toBroker, toBroker', "PUBREL")
      /\ Kept(outboundQueue, outboundQueue', "PUBREL")
  BY <1>1, Sequences, KeptFacts
<1>4. id \in MsgId =>
        \A type \in AckType : Ack(type, id) \in ClientPacket /\ Ack(type, id).type = type
                              /\ Ack(type, id).id = id
  BY DEF Ack, ClientPacket, AckPacket
<1>5. CASE \/ UNCHANGED toClient
           \/ id \in MsgId /\ \E type \in AckType \ {"PUBREC"} :
                                toClient' = Append(toClient, Ack(type, id))
  <2>1. Kept(toClient, toClient', "PUBREC")
    BY <1>4, <1>5, Sequences, KeptFacts
  <2> QED BY <1>1, <1>2, <1>3, <2>1, OutOrderQuiet
<1>6. CASE p.type = "PUBLISH" /\ p.qos = 2 /\ toClient' = Append(toClient, Ack("PUBREC", id))
  <2>1. PICK x : x = Ack("PUBREC", id)
    OBVIOUS
  <2>2. /\ x \in ClientPacket /\ x.type = "PUBREC" /\ x.id = id /\ toClient' = Append(toClient, x)
    BY <1>2, <1>4, <1>6, <2>1 DEF AckType
  <2>3. PICK m : m = outboundMsgs[id].msg
    OBVIOUS
  <2>4. m \in Nat /\ outs \in Nat
    <3>1. outboundMsgs[id] \in Exchange(outs) /\ outs \in Nat
      BY <1>2, <1>6 DEF TypeOK
    <3> QED BY <2>3, <3>1 DEF Exchange
  <2>5. MsgOf(p, outboundMsgs) = m /\ MsgOf(x, outboundMsgs) = m
    <3>1. id # 0
      BY <1>2, <1>6, Bounds DEF MsgId
    <3>2. p.msg = outboundMsgs[id].msg
      BY <1>0, <1>2, <1>6, <3>1 DEF OutboundInv, Fits
    <3> QED BY <1>6, <2>2, <2>3, <3>2 DEF MsgOf
  <2>6. PICK a, b, c \in Nat : OutCuts(a, b, c)
    BY DEF OutOrderInv
  <2>7. /\ a <= b /\ b <= c /\ c <= outs
        /\ Between(toBroker, "PUBREL", outboundMsgs, 0, a)
        /\ Between(outboundQueue, "PUBREL", outboundMsgs, a, b)
        /\ Between(toClient, "PUBREC", outboundMsgs, b, c)
        /\ Between(toBroker, "PUBLISH", outboundMsgs, c, outs)
        /\ Between(commands, "PUBLISH", outboundMsgs, c, outs)
    BY <2>6 DEF OutCuts
  <2>8. m \in c + 1 .. outs /\ Between(toBroker', "PUBLISH", outboundMsgs, m, outs)
    <3>1. /\ MsgOf(p, outboundMsgs) \in c + 1 .. outs
          /\ Between(Tail(toBroker), "PUBLISH", outboundMsgs, MsgOf(p, outboundMsgs), outs)
      BY <1>0, <1>1, <1>6, <2>4, <2>7, Sequences, BetweenTail DEF OutOrderInv
    <3> QED BY <1>1, <2>5, <3>1
  <2>9. Between(commands, "PUBLISH", outboundMsgs, m, outs)
    <3> SUFFICES ASSUME NEW q, Holds(commands, q), q.type = "PUBLISH", q.qos = 2
                 PROVE  MsgOf(q, outboundMsgs) \in m + 1 .. outs
      BY DEF Between
    <3>1. MsgOf(q, outboundMsgs) \in c + 1 .. outs
      BY <2>7 DEF Between
    <3>2. MsgOf(p, outboundMsgs) < MsgOf(q, outboundMsgs)
      BY <1>2, <1>6 DEF OutOrderInv, SentFirst, MsgOf
    <3> QED BY <2>4, <2>5, <3>1, <3>2
  <2>10. MsgOf(x, outboundMsgs) \in b + 1 .. m /\ MsgOf(x, outboundMsgs) \in c + 1 .. m
         /\ b <= m /\ c <= m /\ m <= outs
    BY <2>4, <2>5, <2>7, <2>8
  <2>11. /\ Between(toClient', "PUBREC", outboundMsgs, b, m)
         /\ InOrder(toClient', "PUBREC", outboundMsgs)
    BY <2>2, <2>4, <2>7, <2>10, Sequences, BetweenAppend DEF OutOrderInv
  <2>12. /\ InOrder(toBroker', "PUBLISH", outboundMsgs)
         /\ InOrder(toBroker', "PUBREL", outboundMsgs)
         /\ Between(toBroker', "PUBREL", outboundMsgs, 0, a)
    BY <1>3, <2>7 DEF OutOrderInv, Kept
  <2>13. OutCuts(a, b, m)'
    BY <1>1, <2>7, <2>8, <2>9, <2>10, <2>11, <2>12 DEF OutCuts
  <2> QED BY <1>1, <1>2, <2>4, <2>11, <2>12, <2>13, OutOrderRest
<1>7. \/ UNCHANGED toClient
      \/ id \in MsgId /\ \E type \in AckType \ {"PUBREC"} :
                           toClient' = Append(toClient, Ack(type, id))
      \/ p.type = "PUBLISH" /\ p.qos = 2 /\ toClient' = Append(toClient, Ack("PUBREC", id))
  <2>1. CASE Direct(p)
    BY <1>0, <2>1 DEF BrokerReads, Direct
  <2>2. CASE ~Direct(p)
    <3>1. id \in MsgId
      BY <1>2, <2>2 DEF Direct
    <3>2. {"PUBACK", "PUBCOMP", "PUBREL"} \subseteq AckType \ {"PUBREC"}
      BY DEF AckType
    <3>3. \/ p.type = "PUBLISH" /\ p.qos = 2 /\ toClient' = Append(toClient, Ack("PUBREC", id))
          \/ UNCHANGED toClient
          \/ \E type \in {"PUBACK", "PUBCOMP", "PUBREL"} : toClient' = Append(toClient, Ack(type, id))
      BY <1>0, <2>2 DEF BrokerReads, Direct
    <3>4. ASSUME NEW type \in {"PUBACK", "PUBCOMP", "PUBREL"}, toClient' = Append(toClient, Ack(type, id))
          PROVE  id \in MsgId /\ \E t \in AckType \ {"PUBREC"} : toClient' = Append(toClient, Ack(t, id))
      BY <3>1, <3>2, <3>4
    <3> QED BY <3>3, <3>4
  <2> QED BY <2>1, <2>2
<1> QED BY <1>5, <1>6, <1>7

LEMMA OutOrderStart ==
  ASSUME TypeOK, OutboundInv, CommandsInv, OutOrderInv,
         StartPublish \/ StartPublishQoS0
  PROVE  OutOrderInv'
<1>0. PICK p, id : p = Head(commands) /\ id = p.id
  OBVIOUS
<1>1. /\ UNCHANGED <<toClient, outboundQueue, outs>>
      /\ commands # <<>> /\ commands' = Tail(commands) /\ toBroker' = Append(toBroker, p)
      /\ \/ p.qos > 0 /\ \E e : outboundMsgs' = [outboundMsgs EXCEPT ![id] = e]
         \/ UNCHANGED outboundMsgs
  BY <1>0 DEF StartPublish, StartPublishQoS0, TakeCommand, Write
<1>2. /\ commands \in Seq(Publication(outs)) /\ outs \in Nat /\ toBroker \in Seq(BrokerPacket)
      /\ outboundMsgs \in [MsgId -> Exchange(outs)]
  BY Sequences DEF TypeOK
<1>3. /\ p \in Publication(outs) /\ p \in BrokerPacket /\ p.type = "PUBLISH"
      /\ p.qos > 0 => id \in MsgId /\ id # 0
      /\ p.msg \in 1 .. outs
  <2>1. p \in Publication(outs)
    BY <1>0, <1>1, <1>2, HeadTail
  <2> QED BY <1>0, <2>1, NoIdZero DEF Publication, Numbered, BrokerPacket
<1>4. Holds(commands, p) /\ (id # 0 => outboundMsgs[id] = Free)
  <2>1. Len(commands) \in Nat /\ 1 \in 1 .. Len(commands) /\ commands[1] = p
    BY <1>0, <1>1, <1>2
  <2> QED BY <1>0, <2>1 DEF Holds, CommandsInv
<1>5. \A q : Holds(commands', q) => Holds(commands, q)
  BY <1>1, <1>2, HoldsFacts
<1>6. \A q : Holds(commands', q) => q.type = "PUBLISH" /\ p.msg < q.msg
  <2> SUFFICES ASSUME NEW q, Holds(commands', q) PROVE q.type = "PUBLISH" /\ p.msg < q.msg
    OBVIOUS
  <2>1. q \in Publication(outs)
    BY <1>2, <1>5, HoldsFacts
  <2>2. q.type = "PUBLISH"
    BY <2>1 DEF Publication, Numbered
  <2>3. MsgOf(p, outboundMsgs) < MsgOf(q, outboundMsgs)
    BY <1>0, <1>1, <1>2, <1>3, <2>2, OrderTail DEF OutOrderInv
  <2> QED BY <1>3, <2>2, <2>3 DEF MsgOf
<1>7. /\ \A q : Holds(toClient, q) /\ q.type = "PUBREC" =>
                  MsgOf(q, outboundMsgs') = MsgOf(q, outboundMsgs)
      /\ \A q : (Holds(toBroker, q) \/ Holds(outboundQueue, q)) /\ q.type = "PUBREL" =>
                  MsgOf(q, outboundMsgs') = MsgOf(q, outboundMsgs)
      /\ \A q : q.type = "PUBLISH" =>
            MsgOf(q, outboundMsgs') = q.msg /\ MsgOf(q, outboundMsgs) = q.msg
  <2>1. p.qos > 0 => OutboundCount(id)["PUBREC"] = 0 /\ OutboundCount(id)["PUBREL"] = 0
    <3> SUFFICES ASSUME p.qos > 0
                 PROVE  OutboundCount(id)["PUBREC"] = 0 /\ OutboundCount(id)["PUBREL"] = 0
      OBVIOUS
    <3>1. Going(outboundMsgs[id], OutboundCount(id), stored[id],
                Holds(published, outboundMsgs[id].msg))
      BY <1>3 DEF OutboundInv
    <3>2. "PUBREC" \in PacketType /\ "PUBREL" \in PacketType
      BY DEF PacketType, AckType
    <3> QED BY <1>3, <1>4, <3>1, <3>2 DEF Going, Free
  <2>2. \A j \in MsgId : (p.qos > 0 => j # id) => outboundMsgs'[j] = outboundMsgs[j]
    BY <1>1, <1>2
  <2> QED BY <2>1, <2>2, OutHeldCount DEF MsgOf
<1>8. \A q : Holds(toBroker', q) <=> Holds(toBroker, q) \/ q = p
  BY <1>1, <1>2, <1>3, AppendHolds
<1>9. PICK a, b, c \in Nat : OutCuts(a, b, c)
  BY DEF OutOrderInv
<1>10. /\ a <= b /\ b <= c /\ c <= outs
       /\ Between(toBroker, "PUBREL", outboundMsgs', 0, a)
       /\ Between(outboundQueue, "PUBREL", outboundMsgs', a, b)
       /\ Between(toClient, "PUBREC", outboundMsgs', b, c)
       /\ Between(toBroker, "PUBLISH", outboundMsgs', c, outs)
       /\ Between(commands, "PUBLISH", outboundMsgs', c, outs)
  <2>1. /\ Between(toBroker, "PUBREL", outboundMsgs, 0, a)
        /\ Between(outboundQueue, "PUBREL", outboundMsgs, a, b)
        /\ Between(toClient, "PUBREC", outboundMsgs, b, c)
        /\ Between(toBroker, "PUBLISH", outboundMsgs, c, outs)
        /\ Between(commands, "PUBLISH", outboundMsgs, c, outs)
    BY <1>9 DEF OutCuts
  <2>2. /\ Between(toBroker, "PUBREL", outboundMsgs', 0, a)
        /\ Between(outboundQueue, "PUBREL", outboundMsgs', a, b)
    BY <1>7, <2>1, OrderSame
  <2>3. /\ Between(toClient, "PUBREC", outboundMsgs', b, c)
        /\ Between(toBroker, "PUBLISH", outboundMsgs', c, outs)
        /\ Between(commands, "PUBLISH", outboundMsgs', c, outs)
    BY <1>7, <2>1, OrderSame
  <2> QED BY <1>9, <2>2, <2>3 DEF OutCuts
<1>11. /\ InOrder(toBroker, "PUBLISH", outboundMsgs') /\ InOrder(toBroker, "PUBREL", outboundMsgs')
       /\ InOrder(toClient, "PUBREC", outboundMsgs') /\ InOrder(commands, "PUBLISH", outboundMsgs')
  BY <1>7, OrderSame DEF OutOrderInv
<1>12. /\ InOrder(toBroker', "PUBLISH", outboundMsgs')
       /\ InOrder(toBroker', "PUBREL", outboundMsgs')
       /\ InOrder(commands', "PUBLISH", outboundMsgs')
  <2>1. \A q : Holds(toBroker, q) /\ q.type = "PUBLISH" =>
              MsgOf(q, outboundMsgs') < MsgOf(p, outboundMsgs')
    BY <1>3, <1>4, <1>7 DEF OutOrderInv, SentFirst
  <2>2. InOrder(Append(toBroker, p), "PUBLISH", outboundMsgs')
    BY <1>2, <1>3, <1>11, <2>1, OrderAppend
  <2>3. Kept(toBroker, Append(toBroker, p), "PUBREL")
    BY <1>2, <1>3, KeptFacts
  <2>4. InOrder(Tail(commands), "PUBLISH", outboundMsgs')
    BY <1>1, <1>2, <1>11, OrderTail
  <2> QED BY <1>1, <1>11, <2>2, <2>3, <2>4 DEF Kept
<1>13. /\ Between(toBroker', "PUBREL", outboundMsgs', 0, a)
       /\ Between(toBroker', "PUBLISH", outboundMsgs', c, outs)
       /\ Between(commands', "PUBLISH", outboundMsgs', c, outs)
  BY <1>3, <1>4, <1>5, <1>8, <1>10 DEF Between
<1>14. OutCuts(a, b, c)'
  BY <1>1, <1>10, <1>13 DEF OutCuts
<1>15. SentFirst'
  <2> SUFFICES ASSUME NEW q, NEW r, Holds(toBroker', q), q.type = "PUBLISH", Holds(commands', r)
               PROVE  q.msg < r.msg
    BY DEF SentFirst
  <2>1. CASE q = p
    BY <1>6, <2>1
  <2>2. CASE Holds(toBroker, q)
    BY <1>5, <2>2 DEF OutOrderInv, SentFirst
  <2> QED BY <1>8, <2>1, <2>2
<1>16. \E w, x, y \in Nat : OutCuts(w, x, y)'
  BY <1>14
<1> QED BY <1>1, <1>11, <1>12, <1>15, <1>16 DEF OutOrderInv

LEMMA OutOrderSend ==
  ASSUME TypeOK, OutOrderInv, NEW qos \in Qos, SendMessage(qos)
  PROVE  OutOrderInv'
<1>1. PICK p : /\ Extends(commands', commands, p) /\ p.type = "PUBLISH" /\ p.msg = outs + 1
  <2>1. PICK id, c : Extends(commands', commands, Publish(id, outs + 1, c))
    BY DEF SendMessage, Extends
  <2>2. Publish(id, outs + 1, c).type = "PUBLISH" /\ Publish(id, outs + 1, c).msg = outs + 1
    BY DEF Publish
  <2> QED BY <2>1, <2>2
<1>2. /\ UNCHANGED <<toClient, toBroker, outboundQueue, outboundMsgs>> /\ outs' = outs + 1
  BY DEF SendMessage, socket, outbound
<1>3. outs \in Nat /\ commands \in Seq(Publication(outs)) /\ toBroker \in Seq(BrokerPacket)
  BY Sequences DEF TypeOK
<1>4. PICK S : p \in S /\ commands \in Seq(S) /\ S = Publication(outs) \cup {p}
  BY <1>3, SeqSubset
<1>5. \A q : Holds(commands', q) <=> Holds(commands, q) \/ q = p
  BY <1>1, <1>4, ExtendsFacts
<1>6. /\ \A q : Holds(commands, q) => q.msg <= outs /\ q.msg \in Nat
      /\ \A q : Holds(toBroker, q) /\ q.type = "PUBLISH" => q.msg <= outs /\ q.msg \in Nat
  <2>1. \A q : Holds(commands, q) => q \in Publication(outs)
    BY <1>3, HoldsFacts
  <2>2. \A q : Holds(toBroker, q) => q \in BrokerPacket
    BY <1>3, HoldsFacts
  <2> QED BY <1>3, <2>1, <2>2 DEF Publication, Numbered, BrokerPacket, AckPacket, AckType
<1>7. InOrder(commands', "PUBLISH", outboundMsgs)
  <2>1. \A q : Holds(commands, q) /\ q.type = "PUBLISH" =>
              MsgOf(q, outboundMsgs) < MsgOf(p, outboundMsgs)
    BY <1>1, <1>3, <1>6 DEF MsgOf
  <2>2. InOrder(Append(commands, p), "PUBLISH", outboundMsgs)
    BY <1>4, <2>1, OrderAppend DEF OutOrderInv
  <2> QED BY <1>1, <2>2 DEF Extends
<1>8. PICK a, b, c \in Nat : OutCuts(a, b, c)
  BY DEF OutOrderInv
<1>9. c <= outs' /\ \A low, high : c + 1 .. outs \subseteq c + 1 .. outs'
  BY <1>2, <1>3, <1>8 DEF OutCuts
<1>10. Between(toBroker, "PUBLISH", outboundMsgs, c, outs')
  BY <1>8, <1>9 DEF OutCuts, Between
<1>11. Between(commands', "PUBLISH", outboundMsgs, c, outs')
  <2> SUFFICES ASSUME NEW q, Holds(commands', q), q.type = "PUBLISH", q.qos = 2
               PROVE  MsgOf(q, outboundMsgs) \in c + 1 .. outs'
    BY DEF Between
  <2>1. CASE q = p
    <3>1. MsgOf(q, outboundMsgs) = outs + 1
      BY <1>1, <2>1 DEF MsgOf
    <3>2. c <= outs
      BY <1>8 DEF OutCuts
    <3> QED BY <1>2, <1>3, <3>1, <3>2
  <2>2. CASE Holds(commands, q)
    BY <1>8, <1>9, <2>2 DEF OutCuts, Between
  <2> QED BY <1>5, <2>1, <2>2
<1>12. OutCuts(a, b, c)'
  BY <1>2, <1>8, <1>9, <1>10, <1>11 DEF OutCuts
<1>13. SentFirst'
  <2> SUFFICES ASSUME NEW q, NEW r, Holds(toBroker, q), q.type = "PUBLISH", Holds(commands', r)
               PROVE  q.msg < r.msg
    BY <1>2 DEF SentFirst
  <2>1. CASE r = p
    BY <1>1, <1>3, <1>6, <2>1
  <2>2. CASE Holds(commands, r)
    BY <2>2 DEF OutOrderInv, SentFirst
  <2> QED BY <1>5, <2>1, <2>2
<1>14. \E w, x, y \in Nat : OutCuts(w, x, y)'
  BY <1>12
<1> QED BY <1>2, <1>7, <1>13, <1>14 DEF OutOrderInv

\* With nothing under way everything is in order.
LEMMA OutOrderNone ==
  /\ TypeOK' /\ toClient' = <<>> /\ toBroker' = <<>> /\ outboundQueue' = <<>> /\ commands' = <<>>
       => OutOrderInv'
  /\ outs \in Nat /\ toClient = <<>> /\ toBroker = <<>> /\ outboundQueue = <<>> /\ commands = <<>>
       => OutOrderInv
<1>1. \A seq, type, ex, low, high : seq = <<>> =>
        Between(seq, type, ex, low, high) /\ InOrder(seq, type, ex) /\ \A p : ~Holds(seq, p)
  BY BetweenEmpty DEF Holds
<1>2. ASSUME TypeOK', toClient' = <<>>, toBroker' = <<>>, outboundQueue' = <<>>, commands' = <<>>
      PROVE  OutOrderInv'
  <2>1. outs' \in Nat
    BY <1>2 DEF TypeOK
  <2>2. OutCuts(0, 0, 0)'
    BY <1>1, <1>2, <2>1 DEF OutCuts
  <2>3. \E a, b, c \in Nat : OutCuts(a, b, c)'
    BY <2>2
  <2> QED BY <1>1, <1>2, <2>3 DEF OutOrderInv, SentFirst
<1>3. ASSUME outs \in Nat, toClient = <<>>, toBroker = <<>>, outboundQueue = <<>>, commands = <<>>
      PROVE  OutOrderInv
  <2>1. OutCuts(0, 0, 0)
    BY <1>1, <1>3 DEF OutCuts
  <2>2. \E a, b, c \in Nat : OutCuts(a, b, c)
    BY <2>1
  <2> QED BY <1>1, <1>3, <2>2 DEF OutOrderInv, SentFirst
<1> QED BY <1>2, <1>3

LEMMA OutOrderStep ==
  ASSUME TypeOK, TypeOK', ExchangeInv, OutOrderInv, [Next]_vars
  PROVE  OutOrderInv'
<1>0. QueueInv /\ CommandsInv /\ OutboundInv
  BY DEF ExchangeInv
<1>1. ASSUME Receive PROVE OutOrderInv'
  BY <1>0, <1>1, OutOrderSilent, OutOrderEnds, OutOrderPubrecs DEF Receive
<1>2. ASSUME BrokerReads \/ WriteAvailable \/ StartPublish \/ StartPublishQoS0
      PROVE  OutOrderInv'
  BY <1>0, <1>2, OutOrderBroker, OutOrderFlush, OutOrderStart
<1>3. ASSUME Lose PROVE OutOrderInv'
  BY <1>3, OutOrderNone DEF Lose
<1>4. ASSUME NEW qos \in Qos, SendMessage(qos) PROVE OutOrderInv'
  BY <1>4, OutOrderSend
<1>5. ASSUME ReadySocket \/ WriteComplete \/ (\E qos \in Qos : Forward(qos)) \/ UNCHANGED vars
      PROVE  OutOrderInv'
  BY <1>5, OutOrderSilent
<1> QED BY <1>1, <1>2, <1>3, <1>4, <1>5 DEF Next

\* Publications of our own stay in order on their way, in the exchanges as in the
\* commands, so that those of one quality of service are published in that order.
THEOREM OutOrderCorrect == Spec => []OutOrderInv
<1>1. Init => OutOrderInv
  BY OutOrderNone DEF Init
<1>2. TypeOK /\ TypeOK' /\ ExchangeInv /\ OutOrderInv /\ [Next]_vars => OutOrderInv'
  BY OutOrderStep
<1> QED BY <1>1, <1>2, TypeCorrect, ExchangesCorrect, PTL DEF Spec

-----------------------------------------------------------------------------
(* Each direction implements OrderedDelivery *)

PublicationOf(p) == [msg |-> p.msg, qos |-> p.qos]

LEMMA PublicationsHold ==
  ASSUME NEW seq, NEW x
  PROVE  x \in PublicationsOf(seq) <=>
           \E p : Holds(seq, p) /\ p.type = "PUBLISH" /\ x = PublicationOf(p)
BY DEF PublicationsOf, PublicationOf, Holds

LEMMA PublicationsAppend ==
  ASSUME NEW S, NEW seq \in Seq(S), NEW x \in S, NEW longer, Extends(longer, seq, x)
  PROVE  PublicationsOf(longer) = IF x.type = "PUBLISH"
                                  THEN PublicationsOf(seq) \cup {PublicationOf(x)}
                                  ELSE PublicationsOf(seq)
<1>1. \A q : Holds(longer, q) <=> Holds(seq, q) \/ q = x
  BY ExtendsFacts
<1>2. PublicationsOf(seq) \subseteq PublicationsOf(longer)
  <2> SUFFICES ASSUME NEW e \in PublicationsOf(seq) PROVE e \in PublicationsOf(longer)
    OBVIOUS
  <2>1. PICK p : Holds(seq, p) /\ p.type = "PUBLISH" /\ e = PublicationOf(p)
    BY PublicationsHold
  <2> QED BY <1>1, <2>1, PublicationsHold
<1>3. x.type = "PUBLISH" => PublicationOf(x) \in PublicationsOf(longer)
  BY <1>1, PublicationsHold
<1>4. ASSUME NEW e \in PublicationsOf(longer)
      PROVE  e \in PublicationsOf(seq) \/ (x.type = "PUBLISH" /\ e = PublicationOf(x))
  <2>1. PICK p : Holds(longer, p) /\ p.type = "PUBLISH" /\ e = PublicationOf(p)
    BY PublicationsHold
  <2> QED BY <1>1, <2>1, PublicationsHold
<1> QED BY <1>2, <1>3, <1>4

LEMMA PublicationsTail ==
  ASSUME NEW S, NEW seq \in Seq(S), seq # <<>>
  PROVE  PublicationsOf(seq) = IF Head(seq).type = "PUBLISH"
                               THEN PublicationsOf(Tail(seq)) \cup {PublicationOf(Head(seq))}
                               ELSE PublicationsOf(Tail(seq))
<1>1. ASSUME NEW q PROVE Holds(seq, q) <=> Holds(Tail(seq), q) \/ q = Head(seq)
  BY HoldsFacts, TailHolds
<1>2. ASSUME NEW e
      PROVE  e \in PublicationsOf(seq) <=>
               \/ e \in PublicationsOf(Tail(seq))
               \/ Head(seq).type = "PUBLISH" /\ e = PublicationOf(Head(seq))
  <2>1. e \in PublicationsOf(seq) =>
          \/ e \in PublicationsOf(Tail(seq))
          \/ Head(seq).type = "PUBLISH" /\ e = PublicationOf(Head(seq))
    BY <1>1, PublicationsHold
  <2>2. \/ e \in PublicationsOf(Tail(seq))
        \/ Head(seq).type = "PUBLISH" /\ e = PublicationOf(Head(seq))
        => e \in PublicationsOf(seq)
    BY <1>1, PublicationsHold
  <2> QED BY <2>1, <2>2
<1> QED BY <1>2

\* The publication at the head of a sequence in order is the first of all.
LEMMA PublicationsHead ==
  ASSUME NEW S, NEW seq \in Seq(S), seq # <<>>, NEW ex, InOrder(seq, "PUBLISH", ex),
         NEW p, p = Head(seq), p.type = "PUBLISH",
         \A q : Holds(seq, q) /\ q.type = "PUBLISH" => q.msg \in Nat
  PROVE  /\ PublicationOf(p) \in PublicationsOf(seq)
         /\ \A e \in PublicationsOf(seq) : p.msg <= e.msg
         /\ \A e \in PublicationsOf(Tail(seq)) : p.msg < e.msg
         /\ PublicationsOf(Tail(seq)) = PublicationsOf(seq) \ {PublicationOf(p)}
<1>1. Holds(seq, p) /\ \A q : Holds(Tail(seq), q) => Holds(seq, q)
  BY HoldsFacts
<1>2. \A q : Holds(Tail(seq), q) /\ q.type = "PUBLISH" => p.msg < q.msg
  BY OrderTail DEF MsgOf
<1>3. ASSUME NEW e \in PublicationsOf(Tail(seq)) PROVE p.msg < e.msg
  BY <1>2, PublicationsHold DEF PublicationOf
<1>4. p.msg \in Nat /\ PublicationOf(p).msg = p.msg
  BY <1>1 DEF PublicationOf
<1>5. PublicationsOf(seq) = PublicationsOf(Tail(seq)) \cup {PublicationOf(p)}
  BY PublicationsTail
<1>6. \A e \in PublicationsOf(seq) : e.msg \in Nat
  BY PublicationsHold DEF PublicationOf
<1>7. \A e \in PublicationsOf(seq) : p.msg <= e.msg
  BY <1>3, <1>4, <1>5, <1>6
<1>8. PublicationOf(p) \notin PublicationsOf(Tail(seq))
  BY <1>3, <1>4
<1> QED BY <1>3, <1>5, <1>7, <1>8

LEMMA StoredFacts ==
  ASSUME NEW msgs, NEW x
  PROVE  x \in StoredIn(msgs) <=>
           \E id \in MsgId : msgs[id] # 0 /\ x = [msg |-> msgs[id], qos |-> 2]
BY DEF StoredIn

\* A message is stored where there was none, or taken out.
Stores(new, msgs, id, m) == \A j \in MsgId : new[j] = IF j = id THEN m ELSE msgs[j]

LEMMA StoredPut ==
  ASSUME NEW msgs, NEW id \in MsgId, NEW m, NEW new, Stores(new, msgs, id, m),
         msgs[id] = 0, m # 0
  PROVE  \A e : e \in StoredIn(new) <=> e \in StoredIn(msgs) \/ e = [msg |-> m, qos |-> 2]
<1> SUFFICES ASSUME NEW e
             PROVE  e \in StoredIn(new) <=> e \in StoredIn(msgs) \/ e = [msg |-> m, qos |-> 2]
  OBVIOUS
<1>1. ASSUME e \in StoredIn(new), e # [msg |-> m, qos |-> 2] PROVE e \in StoredIn(msgs)
  <2>1. PICK j \in MsgId : new[j] # 0 /\ e = [msg |-> new[j], qos |-> 2]
    BY <1>1, StoredFacts
  <2>2. msgs[j] # 0 /\ e = [msg |-> msgs[j], qos |-> 2]
    BY <1>1, <2>1 DEF Stores
  <2> QED BY <2>2, StoredFacts
<1>2. ASSUME e \in StoredIn(msgs) PROVE e \in StoredIn(new)
  <2>1. PICK j \in MsgId : msgs[j] # 0 /\ e = [msg |-> msgs[j], qos |-> 2]
    BY <1>2, StoredFacts
  <2>2. new[j] # 0 /\ e = [msg |-> new[j], qos |-> 2]
    BY <2>1 DEF Stores
  <2> QED BY <2>2, StoredFacts
<1>3. ASSUME e = [msg |-> m, qos |-> 2] PROVE e \in StoredIn(new)
  <2>1. new[id] # 0 /\ e = [msg |-> new[id], qos |-> 2]
    BY <1>3 DEF Stores
  <2> QED BY <2>1, StoredFacts
<1> QED BY <1>1, <1>2, <1>3

LEMMA StoredTaken ==
  ASSUME NEW msgs, NEW id \in MsgId, NEW new, Stores(new, msgs, id, 0), msgs[id] # 0,
         \A j \in MsgId : j # id => msgs[j] # msgs[id]
  PROVE  /\ [msg |-> msgs[id], qos |-> 2] \in StoredIn(msgs)
         /\ StoredIn(new) = StoredIn(msgs) \ {[msg |-> msgs[id], qos |-> 2]}
<1>1. [msg |-> msgs[id], qos |-> 2] \in StoredIn(msgs)
  BY StoredFacts
<1>2. ASSUME NEW j \in MsgId, [msg |-> msgs[j], qos |-> 2] = [msg |-> msgs[id], qos |-> 2]
      PROVE  j = id
  <2>1. [msg |-> msgs[j], qos |-> 2].msg = [msg |-> msgs[id], qos |-> 2].msg
    BY <1>2
  <2> QED BY <2>1
<1>3. ASSUME NEW e \in StoredIn(new)
      PROVE  e \in StoredIn(msgs) /\ e # [msg |-> msgs[id], qos |-> 2]
  <2>1. PICK j \in MsgId : new[j] # 0 /\ e = [msg |-> new[j], qos |-> 2]
    BY <1>3, StoredFacts
  <2>2. j # id /\ msgs[j] # 0 /\ e = [msg |-> msgs[j], qos |-> 2]
    BY <2>1 DEF Stores
  <2> QED BY <1>2, <2>2, StoredFacts
<1>4. ASSUME NEW e \in StoredIn(msgs), e # [msg |-> msgs[id], qos |-> 2]
      PROVE  e \in StoredIn(new)
  <2>1. PICK j \in MsgId : msgs[j] # 0 /\ e = [msg |-> msgs[j], qos |-> 2]
    BY <1>4, StoredFacts
  <2>2. new[j] # 0 /\ e = [msg |-> new[j], qos |-> 2]
    BY <1>4, <2>1 DEF Stores
  <2> QED BY <2>2, StoredFacts
<1> QED BY <1>1, <1>3, <1>4

\* What a count that is not zero counts is there.
LEMMA CountHolds ==
  ASSUME NEW S, NEW seq \in Seq(S), NEW type, NEW id, Count(type, id, seq) # 0
  PROVE  \E p : Holds(seq, p) /\ p.type = type /\ p.id = id
<1>1. InSeq(type, id, seq) # {}
  BY FS_EmptySet DEF Count
<1> QED BY <1>1 DEF InSeq, Holds

-----------------------------------------------------------------------------
(* What the broker forwards *)

\* No two exchanges are about one message.
SendingApart ==
  \A i, j \in MsgId : i # j /\ sending[i].msg # 0 => sending[i].msg # sending[j].msg

\* An acknowledgement is no publication.
LEMMA AckKept ==
  ASSUME TypeOK
  PROVE  /\ \A type : Take(type) /\ type # "PUBLISH" =>
              PublicationsOf(toClient') = PublicationsOf(toClient)
         /\ \A x \in AckPacket : toClient' = Append(toClient, x) =>
              PublicationsOf(toClient') = PublicationsOf(toClient)
         /\ UNCHANGED socket \/ (\E x \in AckPacket : Send(x)) =>
              PublicationsOf(toBroker') = PublicationsOf(toBroker)
         /\ \A x \in AckPacket : toBroker' = Append(toBroker, x) =>
              PublicationsOf(toBroker') = PublicationsOf(toBroker)
<1>0. \A x \in AckPacket : x.type # "PUBLISH" /\ x \in BrokerPacket /\ x \in ClientPacket
  BY DEF AckPacket, AckType, BrokerPacket, ClientPacket
<1>1. ASSUME NEW type, Take(type), type # "PUBLISH"
      PROVE  PublicationsOf(toClient') = PublicationsOf(toClient)
  <2>1. toClient # <<>> /\ toClient' = Tail(toClient) /\ Head(toClient).type # "PUBLISH"
    BY <1>1 DEF Take, TypeOK
  <2> QED BY <2>1, Sequences, PublicationsTail
<1>2. ASSUME NEW x \in AckPacket, toClient' = Append(toClient, x)
      PROVE  PublicationsOf(toClient') = PublicationsOf(toClient)
  <2>1. Extends(toClient', toClient, x)
    BY <1>2 DEF Extends
  <2> QED BY <1>0, <2>1, Sequences, PublicationsAppend
<1>3. ASSUME NEW x \in AckPacket, toBroker' = Append(toBroker, x)
      PROVE  PublicationsOf(toBroker') = PublicationsOf(toBroker)
  <2>1. Extends(toBroker', toBroker, x)
    BY <1>3 DEF Extends
  <2> QED BY <1>0, <2>1, Sequences, PublicationsAppend
<1>4. ASSUME UNCHANGED socket \/ \E x \in AckPacket : Send(x)
      PROVE  PublicationsOf(toBroker') = PublicationsOf(toBroker)
  <2>1. toBroker' = toBroker \/ \E x \in AckPacket : toBroker' = Append(toBroker, x)
    BY <1>4 DEF socket, Send, Write
  <2> QED BY <1>3, <2>1
<1> QED BY <1>1, <1>2, <1>3, <1>4

\* The messages of the exchanges.
AwaitedOf(ex) == {ex[id].msg : id \in MsgId} \ {0}

LEMMA AwaitedSame ==
  ASSUME NEW ex, NEW ex2, \A id \in MsgId : ex2[id].msg = ex[id].msg
  PROVE  AwaitedOf(ex2) = AwaitedOf(ex)
BY DEF AwaitedOf

LEMMA AwaitedChanged ==
  ASSUME NEW ex, NEW ex2, NEW id \in MsgId, \A j \in MsgId : j # id => ex2[j].msg = ex[j].msg
  PROVE  /\ ex[id].msg = 0 /\ ex2[id].msg # 0 =>
              AwaitedOf(ex2) = AwaitedOf(ex) \cup {ex2[id].msg}
         /\ ex[id].msg # 0 /\ ex2[id].msg = 0
              /\ (\A j \in MsgId : j # id => ex[j].msg # ex[id].msg) =>
              /\ ex[id].msg \in AwaitedOf(ex)
              /\ AwaitedOf(ex2) = AwaitedOf(ex) \ {ex[id].msg}
<1>0. ASSUME NEW e PROVE \A m : m \in AwaitedOf(e) <=> m # 0 /\ \E j \in MsgId : m = e[j].msg
  BY DEF AwaitedOf
<1>1. ASSUME ex[id].msg = 0, ex2[id].msg # 0
      PROVE  AwaitedOf(ex2) = AwaitedOf(ex) \cup {ex2[id].msg}
  <2>1. ASSUME NEW m PROVE m \in AwaitedOf(ex2) <=> m \in AwaitedOf(ex) \/ m = ex2[id].msg
    BY <1>0, <1>1
  <2> QED BY <2>1
<1>2. ASSUME ex[id].msg # 0, ex2[id].msg = 0, \A j \in MsgId : j # id => ex[j].msg # ex[id].msg
      PROVE  /\ ex[id].msg \in AwaitedOf(ex)
             /\ AwaitedOf(ex2) = AwaitedOf(ex) \ {ex[id].msg}
  <2>1. ASSUME NEW m PROVE m \in AwaitedOf(ex2) <=> m \in AwaitedOf(ex) /\ m # ex[id].msg
    BY <1>0, <1>2
  <2>2. ex[id].msg \in AwaitedOf(ex)
    BY <1>0, <1>2
  <2> QED BY <2>1, <2>2
<1> QED BY <1>1, <1>2

LEMMA DueInFacts ==
  /\ DueIn = PublicationsOf(toClient) \cup StoredIn(inboundMsgs)
  /\ DueIn' = PublicationsOf(toClient') \cup StoredIn(inboundMsgs')
  /\ AwaitedIn = AwaitedOf(sending) /\ AwaitedIn' = AwaitedOf(sending')
BY DEF DueIn, AwaitedIn, AwaitedOf

IncomingMoves == Incoming!Next \/ UNCHANGED Incoming!deliveryVars

LEMMA IncomingStays ==
  ASSUME UNCHANGED <<ins, received, losses>>, UNCHANGED DueIn, UNCHANGED AwaitedIn
  PROVE  IncomingMoves
BY DEF IncomingMoves, Incoming!deliveryVars

LEMMA IncomingDelivers ==
  ASSUME NEW d \in DueIn, \A e \in DueIn : e.qos = d.qos => d.msg <= e.msg,
         Extends(received', received, d.msg), DueIn' = DueIn \ {d},
         UNCHANGED <<ins, losses>>, UNCHANGED AwaitedIn
  PROVE  IncomingMoves
<1>1. Incoming!Deliver(d)
  BY DEF Incoming!Deliver, Extends
<1> QED BY <1>1 DEF IncomingMoves, Incoming!Next

LEMMA IncomingSettles ==
  ASSUME NEW m \in AwaitedIn, Holds(received, m), AwaitedIn' = AwaitedIn \ {m},
         UNCHANGED <<ins, received, losses>>, UNCHANGED DueIn
  PROVE  IncomingMoves
<1>1. Incoming!Settle(m)
  BY DEF Incoming!Settle, Holds
<1> QED BY <1>1 DEF IncomingMoves, Incoming!Next

\* What is stored of an exchange is its message, with PUBREC or PUBREL under way.
LEMMA StoredUnderWay ==
  ASSUME InboundInv, NEW id \in MsgId, inboundMsgs[id] # 0
  PROVE  /\ inboundMsgs[id] = sending[id].msg
         /\ InboundCount(id)["PUBREC"] # 0 \/ InboundCount(id)["PUBREL"] # 0
<1>1. Going(sending[id], InboundCount(id), inboundMsgs[id], Holds(received, sending[id].msg))
  BY DEF InboundInv
<1>2. PICK type \in PacketType :
        /\ UnderWay(sending[id], inboundMsgs[id], Holds(received, sending[id].msg), type)
        /\ \A t \in PacketType : InboundCount(id)[t] = IF t = type THEN 1 ELSE 0
  BY <1>1 DEF Going
<1>3. type \in {"PUBREC", "PUBREL"} /\ inboundMsgs[id] = sending[id].msg
  BY <1>2 DEF UnderWay
<1> QED BY <1>2, <1>3

LEMMA IncomingPublishes ==
  ASSUME TypeOK, ExchangeInv, OrderInv, HandlePublishes
  PROVE  IncomingMoves
<1>0. PICK p, d : p = Head(toClient) /\ d = PublicationOf(p)
  OBVIOUS
<1>1. /\ Take("PUBLISH") /\ UNCHANGED <<sending, ins, losses>>
      /\ toClient # <<>> /\ toClient' = Tail(toClient) /\ p.type = "PUBLISH"
  BY <1>0 DEF HandlePublishes, broker, Take, TypeOK
<1>2. d.msg = p.msg /\ d.qos = p.qos
  BY <1>0 DEF PublicationOf
<1>3. /\ d \in PublicationsOf(toClient)
      /\ \A e \in PublicationsOf(toClient) : p.msg <= e.msg
      /\ PublicationsOf(toClient') = PublicationsOf(toClient) \ {d}
  <2>1. \A q : Holds(toClient, q) /\ q.type = "PUBLISH" => q.msg \in Nat
    BY MsgTypes
  <2>2. InOrder(toClient, "PUBLISH", sending) /\ toClient \in Seq(ClientPacket)
    BY Sequences DEF OrderInv
  <2> QED BY <1>0, <1>1, <2>1, <2>2, PublicationsHead
<1>4. UNCHANGED AwaitedIn
  BY <1>1 DEF AwaitedIn
<1>5. \A e \in StoredIn(inboundMsgs) : e.qos = 2
  BY StoredFacts
<1>6. CASE p.qos # 2
  <2>1. UNCHANGED inboundMsgs /\ Extends(received', received, d.msg)
    BY <1>0, <1>2, <1>6 DEF HandlePublishes, Extends
  <2>2. d \in DueIn /\ \A e \in DueIn : e.qos = d.qos => d.msg <= e.msg
    BY <1>2, <1>3, <1>5, <1>6, DueInFacts
  <2>3. DueIn' = DueIn \ {d}
    <3>1. d \notin StoredIn(inboundMsgs)
      BY <1>2, <1>5, <1>6
    <3> QED BY <1>3, <2>1, <3>1, DueInFacts
  <2> QED BY <1>1, <1>4, <2>1, <2>2, <2>3, IncomingDelivers
<1>7. CASE p.qos = 2
  <2>1. PICK id : id = p.id
    OBVIOUS
  <2>2. inboundMsgs' = [inboundMsgs EXCEPT ![id] = p.msg] /\ UNCHANGED received
    BY <1>0, <1>7, <2>1 DEF HandlePublishes
  <2>3. id \in MsgId /\ p.msg # 0
    <3>1. ReceiveType /\ ins \in Nat
      BY Bounds, TypeParts DEF BrokerType
    <3> QED BY <1>0, <1>1, <1>7, <2>1, <3>1, TakeHead
  <2>4. inboundMsgs[id] = 0
    <3>1. "PUBLISH" \in PacketType /\ Forth("PUBLISH")
      BY DEF PacketType, Forth
    <3>2. InboundCount(id)["PUBLISH"] # 0
      BY <1>0, <1>1, <2>1, <2>3, <3>1, TakeHolds
    <3>3. PICK had \in BOOLEAN : had = Holds(received, sending[id].msg)
      BY DEF Holds
    <3>4. Going(sending[id], InboundCount(id), inboundMsgs[id], had)
      BY <2>3, <3>3 DEF ExchangeInv, InboundInv
    <3>5. UnderWay(sending[id], inboundMsgs[id], had, "PUBLISH")
      BY <3>1, <3>2, <3>4, AtHand
    <3> QED BY <3>5 DEF UnderWay
  <2>5. d = [msg |-> p.msg, qos |-> 2]
    BY <1>0, <1>7 DEF PublicationOf
  <2>6. StoredIn(inboundMsgs') = StoredIn(inboundMsgs) \cup {d}
    <3>1. inboundMsgs \in [MsgId -> 0 .. ins]
      BY DEF TypeOK
    <3>2. Stores(inboundMsgs', inboundMsgs, id, p.msg)
      BY <2>2, <3>1 DEF Stores
    <3>3. \A e : e \in StoredIn(inboundMsgs') <=>
                   e \in StoredIn(inboundMsgs) \/ e = [msg |-> p.msg, qos |-> 2]
      BY <2>3, <2>4, <3>2, StoredPut
    <3> QED BY <2>5, <3>3
  <2>7. UNCHANGED DueIn
    BY <1>3, <2>6, DueInFacts
  <2> QED BY <1>1, <1>4, <2>2, <2>7, IncomingStays
<1> QED BY <1>6, <1>7

\* What is stored besides the message whose PUBREL comes first is later.
LEMMA StoredLater ==
  ASSUME TypeOK, InboundInv, OrderInv, toClient # <<>>,
         NEW p, p = Head(toClient), p.type = "PUBREL", NEW id \in MsgId, id = p.id,
         NEW m, m = sending[id].msg
  PROVE  /\ \A j \in MsgId : j # id /\ inboundMsgs[j] # 0 => m < inboundMsgs[j]
         /\ \A q : Holds(toClient, q) /\ q.type = "PUBLISH" /\ q.qos = 2 => m < q.msg
<1>1. PICK a, b, c, d \in Nat : Cuts(a, b, c, d)
  BY DEF OrderInv
<1>2. /\ b <= c /\ c <= d /\ d <= ins /\ m \in Nat
      /\ Between(toClient, "PUBREL", sending, a, b)
      /\ Between(toBroker, "PUBREC", sending, b, c)
      /\ Between(outboundQueue, "PUBREC", sending, c, d)
      /\ Between(toClient, "PUBLISH", sending, d, ins)
  BY <1>1, MsgTypes DEF Cuts
<1>3. MsgOf(p, sending) = m /\ Holds(toClient, p)
  BY Sequences, HoldsFacts DEF MsgOf
<1>4. m <= b
  BY <1>2, <1>3 DEF Between
<1>5. ASSUME NEW q, Holds(toClient, q), q.type = "PUBLISH", q.qos = 2 PROVE m < q.msg
  <2>1. MsgOf(q, sending) \in d + 1 .. ins /\ MsgOf(q, sending) = q.msg
    BY <1>2, <1>5 DEF Between, MsgOf
  <2>2. ins \in Nat
    BY MsgTypes
  <2> QED BY <1>2, <1>4, <2>1, <2>2
<1>6. ASSUME NEW j \in MsgId, j # id, inboundMsgs[j] # 0 PROVE m < inboundMsgs[j]
  <2>1. /\ inboundMsgs[j] = sending[j].msg
        /\ InboundCount(j)["PUBREC"] # 0 \/ InboundCount(j)["PUBREL"] # 0
    BY <1>6, StoredUnderWay
  <2>2. /\ InboundCount(j)["PUBREC"] = Count("PUBREC", j, outboundQueue)
                                         + Count("PUBREC", j, toBroker)
        /\ InboundCount(j)["PUBREL"] = Count("PUBREL", j, toClient)
    BY Counts DEF InboundCount, PacketType, AckType
  <2>3. CASE InboundCount(j)["PUBREL"] # 0
    <3>1. Count("PUBREL", j, toClient) # 0
      BY <2>2, <2>3
    <3>2. PICK q : Holds(toClient, q) /\ q.type = "PUBREL" /\ q.id = j
      BY <3>1, Sequences, CountHolds
    <3>3. Holds(Tail(toClient), q)
      BY <1>6, <3>2, Sequences, TailHolds
    <3>4. MsgOf(p, sending) < MsgOf(q, sending)
      BY <3>2, <3>3, Sequences, OrderTail DEF OrderInv
    <3>5. MsgOf(q, sending) = sending[j].msg
      BY <3>2 DEF MsgOf
    <3> QED BY <1>3, <2>1, <3>4, <3>5
  <2>4. CASE InboundCount(j)["PUBREC"] # 0
    <3>1. Count("PUBREC", j, outboundQueue) # 0 \/ Count("PUBREC", j, toBroker) # 0
      BY <2>2, <2>4
    <3>2. PICK q : (Holds(outboundQueue, q) \/ Holds(toBroker, q)) /\ q.type = "PUBREC" /\ q.id = j
      BY <3>1, Sequences, CountHolds
    <3>3. MsgOf(q, sending) \in b + 1 .. c \/ MsgOf(q, sending) \in c + 1 .. d
      BY <1>2, <3>2 DEF Between
    <3>4. MsgOf(q, sending) = sending[j].msg
      BY <3>2 DEF MsgOf
    <3> QED BY <1>2, <1>4, <2>1, <3>3, <3>4
  <2> QED BY <2>1, <2>3, <2>4
<1> QED BY <1>5, <1>6

LEMMA IncomingPubrels ==
  ASSUME TypeOK, ExchangeInv, OrderInv, SendingApart, HandlePubrels
  PROVE  IncomingMoves
<1>0. PICK p, id, m : p = Head(toClient) /\ id = p.id /\ m = inboundMsgs[id]
  OBVIOUS
<1>1. /\ Take("PUBREL") /\ UNCHANGED <<sending, ins, losses>>
      /\ toClient # <<>> /\ p.type = "PUBREL"
  BY <1>0 DEF HandlePubrels, broker, Take, TypeOK
<1>2. id \in MsgId /\ InboundInv
  BY <1>0, <1>1, TypeParts, Bounds, TakeHead DEF BrokerType, ExchangeInv
<1>3. PublicationsOf(toClient') = PublicationsOf(toClient) /\ UNCHANGED AwaitedIn
  <2>1. PublicationsOf(toClient') = PublicationsOf(toClient)
    BY <1>1, AckKept
  <2> QED BY <1>1, <2>1 DEF AwaitedIn
<1>4. CASE m = 0
  <2>1. UNCHANGED <<received, inboundMsgs>>
    BY <1>0, <1>4 DEF HandlePubrels
  <2>2. UNCHANGED DueIn
    BY <1>3, <2>1, DueInFacts
  <2> QED BY <1>1, <1>3, <2>1, <2>2, IncomingStays
<1>5. CASE m # 0
  <2>1. Extends(received', received, m) /\ inboundMsgs' = [inboundMsgs EXCEPT ![id] = 0]
    BY <1>0, <1>5 DEF HandlePubrels, Extends
  <2>2. PICK d : d = [msg |-> m, qos |-> 2]
    OBVIOUS
  <2>3. d.msg = m /\ d.qos = 2
    BY <2>2
  <2>4. \A j \in MsgId : inboundMsgs[j] # 0 => inboundMsgs[j] = sending[j].msg
    BY <1>2, StoredUnderWay
  <2>5. \A j \in MsgId : j # id => inboundMsgs[j] # inboundMsgs[id]
    BY <1>0, <1>2, <1>5, <2>4 DEF SendingApart
  <2>6. /\ d \in StoredIn(inboundMsgs)
        /\ StoredIn(inboundMsgs') = StoredIn(inboundMsgs) \ {d}
    <3>1. inboundMsgs \in [MsgId -> 0 .. ins]
      BY DEF TypeOK
    <3>2. Stores(inboundMsgs', inboundMsgs, id, 0)
      BY <2>1, <3>1 DEF Stores
    <3> QED BY <1>0, <1>2, <1>5, <2>2, <2>5, <3>2, StoredTaken
  <2>7. /\ \A j \in MsgId : j # id /\ inboundMsgs[j] # 0 => m < inboundMsgs[j]
        /\ \A q : Holds(toClient, q) /\ q.type = "PUBLISH" /\ q.qos = 2 => m < q.msg
    <3>1. m = sending[id].msg
      BY <1>0, <1>2, <1>5, <2>4
    <3> QED BY <1>0, <1>1, <1>2, <3>1, StoredLater
  <2>8. m \in Nat /\ ins \in Nat
    <3>1. inboundMsgs \in [MsgId -> 0 .. ins] /\ ins \in Nat
      BY DEF TypeOK
    <3> QED BY <1>0, <1>2, <3>1
  <2>9. ASSUME NEW e \in PublicationsOf(toClient), e.qos = 2 PROVE m < e.msg
    <3>1. PICK q : Holds(toClient, q) /\ q.type = "PUBLISH" /\ e = PublicationOf(q)
      BY PublicationsHold
    <3>2. e.msg = q.msg /\ e.qos = q.qos
      BY <3>1 DEF PublicationOf
    <3> QED BY <2>7, <2>9, <3>1, <3>2
  <2>10. ASSUME NEW e \in StoredIn(inboundMsgs) PROVE m <= e.msg
    <3>1. PICK j \in MsgId : inboundMsgs[j] # 0 /\ e = [msg |-> inboundMsgs[j], qos |-> 2]
      BY StoredFacts
    <3>2. e.msg = inboundMsgs[j] /\ inboundMsgs[j] \in 0 .. ins
      BY <3>1 DEF TypeOK
    <3> QED BY <1>0, <2>7, <2>8, <3>1, <3>2
  <2>11. \A e \in PublicationsOf(toClient) : e.msg \in Nat
    <3>1. \A q : Holds(toClient, q) /\ q.type = "PUBLISH" => q.msg \in Nat
      BY MsgTypes
    <3> QED BY <3>1, PublicationsHold DEF PublicationOf
  <2>12. d \in DueIn /\ \A e \in DueIn : e.qos = d.qos => d.msg <= e.msg
    BY <2>3, <2>6, <2>8, <2>9, <2>10, <2>11, DueInFacts
  <2>13. DueIn' = DueIn \ {d}
    <3>1. d \notin PublicationsOf(toClient)
      BY <2>3, <2>8, <2>9
    <3> QED BY <1>3, <2>6, <3>1, DueInFacts
  <2> QED BY <1>1, <1>3, <2>1, <2>3, <2>12, <2>13, IncomingDelivers
<1> QED BY <1>4, <1>5

LEMMA IncomingBrokerDirect ==
  ASSUME BrokerReads, Direct(Head(toBroker))
  PROVE  IncomingMoves
<1>1. UNCHANGED <<received, ins, losses, inboundMsgs, toClient, sending>>
  <2>1. UNCHANGED <<toClient, sending>>
    BY DEF BrokerReads, Direct
  <2> QED BY <2>1 DEF BrokerReads
<1>2. UNCHANGED DueIn /\ UNCHANGED AwaitedIn
  BY <1>1, DueInFacts
<1> QED BY <1>1, <1>2, IncomingStays

LEMMA IncomingBroker ==
  ASSUME TypeOK, ExchangeInv, SendingApart, BrokerReads, ~Direct(Head(toBroker))
  PROVE  IncomingMoves
<1>0. PICK p, id : p = Head(toBroker) /\ id = p.id
  OBVIOUS
<1>1. UNCHANGED <<received, ins, losses, inboundMsgs>>
  BY DEF BrokerReads
<1>2. id \in MsgId /\ p.type \in PacketType /\ (InboundCount(id)[p.type] # 0 \/ Forth(p.type))
  BY <1>0, ReadPassed DEF Direct
<1>3. sending \in [MsgId -> Exchange(ins)]
  BY DEF TypeOK
<1>4. ASSUME UNCHANGED toClient \/ \E type \in AckType : toClient' = Append(toClient, Ack(type, id))
      PROVE  UNCHANGED DueIn
  <2>1. PublicationsOf(toClient') = PublicationsOf(toClient)
    <3>1. \A type \in AckType : Ack(type, id) \in AckPacket
      BY <1>2, AckTypes
    <3> QED BY <1>4, <3>1, AckKept
  <2> QED BY <1>1, <2>1, DueInFacts
<1>5. ASSUME \A j \in MsgId : sending'[j].msg = sending[j].msg PROVE UNCHANGED AwaitedIn
  BY <1>5, AwaitedSame, DueInFacts
<1>6. CASE /\ p.type \in {"PUBLISH", "PUBREL"} /\ UNCHANGED sending
           /\ \E type \in AckType : toClient' = Append(toClient, Ack(type, id))
  BY <1>1, <1>4, <1>5, <1>6, IncomingStays
<1>7. CASE /\ p.type = "PUBREC" /\ toClient' = Append(toClient, Ack("PUBREL", id))
           /\ sending' = [sending EXCEPT ![id] = IF @.next = "PUBREC"
                                                 THEN [@ EXCEPT !.next = "PUBCOMP"] ELSE @]
  <2>1. ASSUME NEW j \in MsgId PROVE sending'[j].msg = sending[j].msg
    <3>1. sending[j] \in Exchange(ins)
      BY <1>3
    <3>2. [sending[j] EXCEPT !.next = "PUBCOMP"].msg = sending[j].msg
      BY <3>1 DEF Exchange
    <3> QED BY <1>2, <1>3, <1>7, <3>2
  <2>2. "PUBREL" \in AckType
    BY DEF AckType
  <2> QED BY <1>1, <1>4, <1>5, <1>7, <2>1, <2>2, IncomingStays
<1>8. CASE /\ p.type \in {"PUBACK", "PUBCOMP"} /\ UNCHANGED toClient
           /\ sending' = [sending EXCEPT ![id] = IF @.next = p.type THEN Free ELSE @]
  <2>1. PICK m, had : m = sending[id].msg /\ had \in BOOLEAN /\ had = Holds(received, m)
    BY DEF Holds
  <2>2. m # 0 /\ UnderWay(sending[id], inboundMsgs[id], had, p.type)
    <3>1. Going(sending[id], InboundCount(id), inboundMsgs[id], had)
      BY <1>2, <2>1 DEF ExchangeInv, InboundInv
    <3>2. InboundCount(id)[p.type] # 0
      BY <1>2, <1>8 DEF Forth
    <3> QED BY <1>2, <2>1, <3>1, <3>2, AtHand
  <2>3. Holds(received, m) /\ sending[id].next = p.type
    BY <1>8, <2>1, <2>2 DEF UnderWay
  <2>4. sending'[id].msg = 0 /\ \A j \in MsgId : j # id => sending'[j].msg = sending[j].msg
    BY <1>2, <1>3, <1>8, <2>3 DEF Free
  <2>5. \A j \in MsgId : j # id => sending[j].msg # sending[id].msg
    BY <1>2, <2>1, <2>2 DEF SendingApart
  <2>6. m \in AwaitedIn /\ AwaitedIn' = AwaitedIn \ {m}
    BY <1>2, <2>1, <2>2, <2>4, <2>5, AwaitedChanged, DueInFacts
  <2>7. UNCHANGED DueIn
    BY <1>4, <1>8
  <2> QED BY <1>1, <2>3, <2>6, <2>7, IncomingSettles
<1>9. /\ p.type \in {"PUBLISH", "PUBREL"} /\ UNCHANGED sending
         /\ \E type \in AckType : toClient' = Append(toClient, Ack(type, id))
      \/ /\ p.type = "PUBREC" /\ toClient' = Append(toClient, Ack("PUBREL", id))
         /\ sending' = [sending EXCEPT ![id] = IF @.next = "PUBREC"
                                               THEN [@ EXCEPT !.next = "PUBCOMP"] ELSE @]
      \/ /\ p.type \in {"PUBACK", "PUBCOMP"} /\ UNCHANGED toClient
         /\ sending' = [sending EXCEPT ![id] = IF @.next = p.type THEN Free ELSE @]
  <2>1. {"PUBACK", "PUBREC", "PUBCOMP"} \subseteq AckType
    BY DEF AckType
  <2> QED BY <1>0, <2>1 DEF BrokerReads, Direct
<1> QED BY <1>6, <1>7, <1>8, <1>9

LEMMA IncomingForward ==
  ASSUME TypeOK, NEW qos \in Qos, Forward(qos)
  PROVE  IncomingMoves
<1>1. UNCHANGED <<received, losses, inboundMsgs>> /\ ins' = ins + 1 /\ ins \in Nat
  BY DEF Forward, TypeOK
<1>2. PICK q : /\ toClient' = Append(toClient, q) /\ q.type = "PUBLISH"
               /\ PublicationOf(q) = [msg |-> ins + 1, qos |-> qos]
               /\ \/ qos = 0 /\ UNCHANGED sending
                  \/ qos # 0 /\ \E id \in MsgId : \E e :
                       /\ sending[id] = Free /\ e.msg = ins + 1
                       /\ sending' = [sending EXCEPT ![id] = e]
  <2>1. CASE qos = 0
    <3>1. toClient' = Append(toClient, Publish(0, ins + 1, 0)) /\ UNCHANGED sending
      BY <2>1 DEF Forward
    <3> QED BY <2>1, <3>1 DEF Publish, PublicationOf
  <2>2. CASE qos # 0
    <3>1. PICK id \in MsgId :
            /\ sending[id] = Free /\ toClient' = Append(toClient, Publish(id, ins + 1, qos))
            /\ sending' = [sending EXCEPT
                 ![id] = [msg |-> ins + 1, qos |-> qos,
                          next |-> IF qos = 1 THEN "PUBACK" ELSE "PUBREC"]]
      BY <2>2 DEF Forward
    <3> DEFINE e == [msg |-> ins + 1, qos |-> qos,
                     next |-> IF qos = 1 THEN "PUBACK" ELSE "PUBREC"]
    <3>2. e.msg = ins + 1 /\ sending' = [sending EXCEPT ![id] = e]
      BY <3>1
    <3>3. \E x : sending[id] = Free /\ x.msg = ins + 1 /\ sending' = [sending EXCEPT ![id] = x]
      BY <3>1, <3>2
    <3> HIDE DEF e
    <3> QED BY <2>2, <3>1, <3>3 DEF Publish, PublicationOf
  <2> QED BY <2>1, <2>2
<1>3. PublicationsOf(toClient') = PublicationsOf(toClient) \cup {PublicationOf(q)}
  <2>1. PICK S : S = ClientPacket \cup {q}
    OBVIOUS
  <2>2. toClient \in Seq(S) /\ q \in S /\ Extends(toClient', toClient, q)
    BY <1>2, <2>1, Sequences, SeqSubset DEF Extends
  <2> QED BY <1>2, <2>2, PublicationsAppend
<1>4. DueIn' = DueIn \cup {[msg |-> ins + 1, qos |-> qos]}
  BY <1>1, <1>2, <1>3, DueInFacts
<1>5. AwaitedIn' = IF qos = 0 THEN AwaitedIn ELSE AwaitedIn \cup {ins + 1}
  <2>1. CASE qos = 0
    BY <1>2, <2>1 DEF AwaitedIn
  <2>2. CASE qos # 0
    <3>1. PICK id \in MsgId : \E e :
            sending[id] = Free /\ e.msg = ins + 1 /\ sending' = [sending EXCEPT ![id] = e]
      BY <1>2, <2>2
    <3>2. sending \in [MsgId -> Exchange(ins)]
      BY DEF TypeOK
    <3>3. /\ sending[id].msg = 0 /\ sending'[id].msg = ins + 1 /\ sending'[id].msg # 0
          /\ \A j \in MsgId : j # id => sending'[j].msg = sending[j].msg
      BY <1>1, <3>1, <3>2 DEF Free
    <3>4. AwaitedOf(sending') = AwaitedOf(sending) \cup {sending'[id].msg}
      BY <3>3, AwaitedChanged
    <3> QED BY <2>2, <3>3, <3>4, DueInFacts
  <2> QED BY <2>1, <2>2
<1>6. Incoming!Send(qos)
  BY <1>1, <1>4, <1>5 DEF Incoming!Send
<1> QED BY <1>6 DEF IncomingMoves, Incoming!Next

\* With nothing under way nothing is due.
LEMMA NothingDue ==
  /\ PublicationsOf(<<>>) = {}
  /\ \A msgs : (\A id \in MsgId : msgs[id] = 0) => StoredIn(msgs) = {}
  /\ \A ex : (\A id \in MsgId : ex[id].msg = 0) => AwaitedOf(ex) = {}
<1>1. PublicationsOf(<<>>) = {}
  <2>1. \A p : ~Holds(<<>>, p)
    BY DEF Holds
  <2>2. ASSUME NEW e \in PublicationsOf(<<>>) PROVE FALSE
    BY <2>1, PublicationsHold
  <2> QED BY <2>2
<1>2. ASSUME NEW msgs, \A id \in MsgId : msgs[id] = 0 PROVE StoredIn(msgs) = {}
  BY <1>2 DEF StoredIn
<1>3. ASSUME NEW ex, \A id \in MsgId : ex[id].msg = 0 PROVE AwaitedOf(ex) = {}
  BY <1>3 DEF AwaitedOf
<1> QED BY <1>1, <1>2, <1>3

LEMMA IncomingLose ==
  ASSUME Lose
  PROVE  IncomingMoves
<1>1. /\ UNCHANGED <<ins, received>> /\ losses' = losses + 1 /\ toClient' = <<>>
      /\ \A id \in MsgId : inboundMsgs'[id] = 0 /\ sending'[id].msg = 0
  BY DEF Lose, Free
<1>2. DueIn' = {} /\ AwaitedIn' = {}
  BY <1>1, NothingDue, DueInFacts
<1>3. Incoming!Lose
  BY <1>1, <1>2 DEF Incoming!Lose
<1> QED BY <1>3 DEF IncomingMoves, Incoming!Next

LEMMA IncomingRest ==
  ASSUME TypeOK,
         \/ ReadySocket \/ HandlePubacks \/ HandlePubrecs \/ HandlePubcomps \/ WriteAvailable
         \/ WriteComplete \/ StartPublish \/ StartPublishQoS0
         \/ (\E qos \in Qos : SendMessage(qos)) \/ UNCHANGED vars
  PROVE  IncomingMoves
<1>1. UNCHANGED <<ins, received, losses, inboundMsgs, sending>>
  BY DEF ReadySocket, HandlePubacks, HandlePubrecs, HandlePubcomps, WriteAvailable, WriteComplete,
         StartPublish, StartPublishQoS0, SendMessage, vars, broker
<1>2. UNCHANGED toClient \/ \E type : type # "PUBLISH" /\ Take(type)
  BY DEF ReadySocket, HandlePubacks, HandlePubrecs, HandlePubcomps, WriteAvailable, WriteComplete,
         StartPublish, StartPublishQoS0, SendMessage, vars
<1>3. PublicationsOf(toClient') = PublicationsOf(toClient)
  BY <1>2, AckKept
<1>4. UNCHANGED DueIn /\ UNCHANGED AwaitedIn
  BY <1>1, <1>3, DueInFacts
<1> QED BY <1>1, <1>4, IncomingStays

LEMMA IncomingStep ==
  ASSUME TypeOK, ExchangeInv, OrderInv, SendingApart, [Next]_vars
  PROVE  IncomingMoves
<1>1. ASSUME Receive PROVE IncomingMoves
  BY <1>1, IncomingPublishes, IncomingPubrels, IncomingRest DEF Receive
<1>2. ASSUME BrokerReads \/ Lose PROVE IncomingMoves
  BY <1>2, IncomingBrokerDirect, IncomingBroker, IncomingLose
<1>3. ASSUME NEW qos \in Qos, Forward(qos) PROVE IncomingMoves
  BY <1>3, IncomingForward
<1>4. ASSUME \/ ReadySocket \/ WriteAvailable \/ WriteComplete \/ StartPublish
             \/ StartPublishQoS0 \/ (\E qos \in Qos : SendMessage(qos)) \/ UNCHANGED vars
      PROVE  IncomingMoves
  BY <1>4, IncomingRest
<1> QED BY <1>1, <1>2, <1>3, <1>4 DEF Next

LEMMA SendingStep ==
  ASSUME TypeOK, SendingApart, [Next]_vars
  PROVE  SendingApart'
<1>1. sending \in [MsgId -> Exchange(ins)] /\ ins \in Nat
      /\ \A id \in MsgId : sending[id].msg \in 0 .. ins
  BY MsgTypes DEF TypeOK
<1>2. ASSUME \A id \in MsgId : sending'[id].msg = sending[id].msg \/ sending'[id].msg = 0
      PROVE  SendingApart'
  BY <1>2 DEF SendingApart
<1>3. CASE UNCHANGED sending
  BY <1>2, <1>3
<1>4. CASE Lose
  BY <1>2, <1>4 DEF Lose, Free
<1>5. CASE BrokerReads
  <2>1. PICK id : /\ id \in MsgId
                  /\ \/ UNCHANGED sending
                     \/ sending' = [sending EXCEPT ![id] = IF @.next = "PUBREC"
                                                    THEN [@ EXCEPT !.next = "PUBCOMP"] ELSE @]
                     \/ \E t : sending' = [sending EXCEPT ![id] = IF @.next = t THEN Free ELSE @]
    <3>1. UNCHANGED sending \/ Head(toBroker).id \in MsgId
      BY <1>5, ReadPassed DEF BrokerReads
    <3>2. MsgId # {}
      BY Bounds DEF MsgId
    <3> QED BY <1>5, <3>1, <3>2 DEF BrokerReads
  <2>2. ASSUME NEW j \in MsgId
        PROVE  sending'[j].msg = sending[j].msg \/ sending'[j].msg = 0
    <3>1. sending[j] \in Exchange(ins)
      BY <1>1
    <3>2. [sending[j] EXCEPT !.next = "PUBCOMP"].msg = sending[j].msg
      BY <3>1 DEF Exchange
    <3>3. \/ sending'[j] = sending[j] \/ sending'[j] = Free
          \/ sending'[j] = [sending[j] EXCEPT !.next = "PUBCOMP"]
      BY <1>1, <2>1
    <3>4. Free.msg = 0
      BY DEF Free
    <3> QED BY <3>2, <3>3, <3>4
  <2> QED BY <1>2, <2>2
<1>6. ASSUME NEW qos \in Qos, Forward(qos), ~UNCHANGED sending PROVE SendingApart'
  <2>1. PICK id \in MsgId : \E e : e.msg = ins + 1 /\ sending' = [sending EXCEPT ![id] = e]
    <3>1. PICK id \in MsgId :
            sending' = [sending EXCEPT
                 ![id] = [msg |-> ins + 1, qos |-> qos,
                          next |-> IF qos = 1 THEN "PUBACK" ELSE "PUBREC"]]
      BY <1>6 DEF Forward
    <3>2. PICK e : e = [msg |-> ins + 1, qos |-> qos,
                        next |-> IF qos = 1 THEN "PUBACK" ELSE "PUBREC"]
      OBVIOUS
    <3>3. e.msg = ins + 1 /\ sending' = [sending EXCEPT ![id] = e]
      BY <3>1, <3>2
    <3> QED BY <3>3
  <2>2. /\ sending'[id].msg = ins + 1
        /\ \A j \in MsgId : j # id => sending'[j].msg = sending[j].msg /\ sending[j].msg # ins + 1
    BY <1>1, <2>1
  <2> QED BY <2>2 DEF SendingApart
<1> QED BY <1>3, <1>4, <1>5, <1>6 DEF Next, Receive, ReadySocket, HandlePublishes, HandlePubrels,
          HandlePubacks, HandlePubrecs, HandlePubcomps, WriteAvailable, WriteComplete,
          StartPublish, StartPublishQoS0, SendMessage, vars, broker

LEMMA SendingCorrect == Spec => []SendingApart
<1>1. Init => SendingApart
  BY DEF Init, Free, SendingApart
<1>2. TypeOK /\ SendingApart /\ [Next]_vars => SendingApart'
  BY SendingStep
<1> QED BY <1>1, <1>2, TypeCorrect, PTL DEF Spec

\* What the broker forwards is an ordered delivery.
THEOREM IncomingImplemented == Spec => Incoming!Spec
<1>1. Init => Incoming!Init
  <2> SUFFICES ASSUME Init PROVE Incoming!Init
    OBVIOUS
  <2>1. /\ ins = 0 /\ received = <<>> /\ losses = 0 /\ toClient = <<>>
        /\ \A id \in MsgId : inboundMsgs[id] = 0 /\ sending[id].msg = 0
    BY DEF Init, Free
  <2>2. DueIn = {} /\ AwaitedIn = {}
    BY <2>1, NothingDue, DueInFacts
  <2> QED BY <2>1, <2>2 DEF Incoming!Init
<1>2. TypeOK /\ ExchangeInv /\ OrderInv /\ SendingApart /\ [Next]_vars =>
        [Incoming!Next]_(Incoming!deliveryVars)
  BY IncomingStep DEF IncomingMoves
<1> QED BY <1>1, <1>2, TypeCorrect, ExchangesCorrect, OrderKept, SendingCorrect, PTL
        DEF Spec, Incoming!Spec

-----------------------------------------------------------------------------
(* What we send *)

OutgoingMoves == Outgoing!Next \/ UNCHANGED Outgoing!deliveryVars

LEMMA OutgoingStays ==
  ASSUME UNCHANGED <<outs, published, losses>>, UNCHANGED DueOut, UNCHANGED AwaitedOut
  PROVE  OutgoingMoves
BY DEF OutgoingMoves, Outgoing!deliveryVars

LEMMA OutgoingDelivers ==
  ASSUME NEW d \in DueOut, \A e \in DueOut : e.qos = d.qos => d.msg <= e.msg,
         Extends(published', published, d.msg), DueOut' = DueOut \ {d},
         UNCHANGED <<outs, losses>>, UNCHANGED AwaitedOut
  PROVE  OutgoingMoves
<1>1. Outgoing!Deliver(d)
  BY DEF Outgoing!Deliver, Extends
<1> QED BY <1>1 DEF OutgoingMoves, Outgoing!Next

LEMMA OutgoingSettles ==
  ASSUME NEW m \in AwaitedOut, Holds(published, m), AwaitedOut' = AwaitedOut \ {m},
         UNCHANGED <<outs, published, losses>>, UNCHANGED DueOut
  PROVE  OutgoingMoves
<1>1. Outgoing!Settle(m)
  BY DEF Outgoing!Settle, Holds
<1> QED BY <1>1 DEF OutgoingMoves, Outgoing!Next

LEMMA DueOutFacts ==
  /\ DueOut = PublicationsOf(commands) \cup PublicationsOf(toBroker) \cup StoredIn(stored)
  /\ DueOut' = PublicationsOf(commands') \cup PublicationsOf(toBroker') \cup StoredIn(stored')
BY DEF DueOut

LEMMA AwaitedOutFacts ==
  /\ \A m : m \in AwaitedOut <=>
       \/ \E p : Holds(commands, p) /\ p.qos > 0 /\ m = p.msg
       \/ (m # 0 /\ \E id \in MsgId : m = responses[id])
  /\ \A m : m \in AwaitedOut' <=>
       \/ \E p : Holds(commands', p) /\ p.qos > 0 /\ m = p.msg
       \/ (m # 0 /\ \E id \in MsgId : m = responses'[id])
BY DEF AwaitedOut, Holds

\* What the broker stores of an exchange of ours is its message, with PUBREC or
\* PUBREL under way.
LEMMA OutStoredUnderWay ==
  ASSUME OutboundInv, NEW id \in MsgId, stored[id] # 0
  PROVE  /\ stored[id] = Own(id)
         /\ OutboundCount(id)["PUBREC"] # 0 \/ OutboundCount(id)["PUBREL"] # 0
<1>1. Going(outboundMsgs[id], OutboundCount(id), stored[id], Holds(published, outboundMsgs[id].msg))
  BY DEF OutboundInv
<1>2. PICK type \in PacketType :
        /\ UnderWay(outboundMsgs[id], stored[id], Holds(published, outboundMsgs[id].msg), type)
        /\ \A t \in PacketType : OutboundCount(id)[t] = IF t = type THEN 1 ELSE 0
  BY <1>1 DEF Going
<1>3. type \in {"PUBREC", "PUBREL"} /\ stored[id] = Own(id)
  BY <1>2 DEF UnderWay, Own
<1> QED BY <1>2, <1>3

\* What is due besides the message whose PUBREL the broker reads is later.
LEMMA OutStoredLater ==
  ASSUME TypeOK, OutboundInv, OutOrderInv, toBroker # <<>>,
         NEW p, p = Head(toBroker), p.type = "PUBREL", NEW id \in MsgId, id = p.id,
         NEW m, m = Own(id)
  PROVE  /\ \A j \in MsgId : j # id /\ stored[j] # 0 => m < stored[j]
         /\ \A q : (Holds(toBroker, q) \/ Holds(commands, q)) /\ q.type = "PUBLISH" /\ q.qos = 2
                     => m < q.msg
<1>1. PICK a, b, c \in Nat : OutCuts(a, b, c)
  BY DEF OutOrderInv
<1>2. /\ a <= b /\ b <= c /\ c <= outs /\ m \in Nat /\ outs \in Nat
      /\ Between(toBroker, "PUBREL", outboundMsgs, 0, a)
      /\ Between(outboundQueue, "PUBREL", outboundMsgs, a, b)
      /\ Between(toClient, "PUBREC", outboundMsgs, b, c)
      /\ Between(toBroker, "PUBLISH", outboundMsgs, c, outs)
      /\ Between(commands, "PUBLISH", outboundMsgs, c, outs)
  <2>1. m \in 0 .. outs
    BY OwnType
  <2>2. outs \in Nat
    BY DEF TypeOK
  <2> QED BY <1>1, <2>1, <2>2 DEF OutCuts
<1>3. MsgOf(p, outboundMsgs) = m /\ Holds(toBroker, p)
  BY Sequences, HoldsFacts DEF MsgOf, Own
<1>4. m <= a
  <2>1. MsgOf(p, outboundMsgs) \in 0 + 1 .. a
    BY <1>2, <1>3 DEF Between
  <2> QED BY <1>2, <1>3, <2>1
<1>5. ASSUME NEW q, Holds(toBroker, q) \/ Holds(commands, q), q.type = "PUBLISH", q.qos = 2
      PROVE  m < q.msg
  <2>1. MsgOf(q, outboundMsgs) \in c + 1 .. outs /\ MsgOf(q, outboundMsgs) = q.msg
    BY <1>2, <1>5 DEF Between, MsgOf
  <2> QED BY <1>2, <1>4, <2>1
<1>6. ASSUME NEW j \in MsgId, j # id, stored[j] # 0 PROVE m < stored[j]
  <2>1. /\ stored[j] = Own(j)
        /\ OutboundCount(j)["PUBREC"] # 0 \/ OutboundCount(j)["PUBREL"] # 0
    BY <1>6, OutStoredUnderWay
  <2>2. /\ OutboundCount(j)["PUBREL"] = Count("PUBREL", j, outboundQueue)
                                          + Count("PUBREL", j, toBroker)
        /\ OutboundCount(j)["PUBREC"] = Count("PUBREC", j, toClient)
    BY Counts DEF OutboundCount, PacketType, AckType
  <2>3. CASE Count("PUBREL", j, toBroker) # 0
    <3>1. PICK q : Holds(toBroker, q) /\ q.type = "PUBREL" /\ q.id = j
      BY <2>3, Sequences, CountHolds
    <3>2. Holds(Tail(toBroker), q)
      BY <1>6, <3>1, Sequences, TailHolds
    <3>3. MsgOf(p, outboundMsgs) < MsgOf(q, outboundMsgs)
      BY <3>1, <3>2, Sequences, OrderTail DEF OutOrderInv
    <3>4. MsgOf(q, outboundMsgs) = Own(j)
      BY <3>1 DEF MsgOf, Own
    <3> QED BY <1>3, <2>1, <3>3, <3>4
  <2>4. CASE Count("PUBREL", j, outboundQueue) # 0
    <3>1. PICK q : Holds(outboundQueue, q) /\ q.type = "PUBREL" /\ q.id = j
      BY <2>4, Sequences, CountHolds
    <3>2. MsgOf(q, outboundMsgs) \in a + 1 .. b
      BY <1>2, <3>1 DEF Between
    <3>3. MsgOf(q, outboundMsgs) = Own(j)
      BY <3>1 DEF MsgOf, Own
    <3> QED BY <1>2, <1>4, <2>1, <3>2, <3>3
  <2>5. CASE Count("PUBREC", j, toClient) # 0
    <3>1. PICK q : Holds(toClient, q) /\ q.type = "PUBREC" /\ q.id = j
      BY <2>5, Sequences, CountHolds
    <3>2. MsgOf(q, outboundMsgs) \in b + 1 .. c
      BY <1>2, <3>1 DEF Between
    <3>3. MsgOf(q, outboundMsgs) = Own(j)
      BY <3>1 DEF MsgOf, Own
    <3> QED BY <1>2, <1>4, <2>1, <3>2, <3>3
  <2>6. \/ Count("PUBREL", j, toBroker) # 0 \/ Count("PUBREL", j, outboundQueue) # 0
        \/ Count("PUBREC", j, toClient) # 0
    BY <2>1, <2>2
  <2> QED BY <2>3, <2>4, <2>5, <2>6
<1> QED BY <1>5, <1>6

\* The messages of what is due are numbers.
LEMMA DueOutNumbers ==
  ASSUME TypeOK
  PROVE  /\ \A q : Holds(toBroker, q) /\ q.type = "PUBLISH" => q.msg \in Nat
         /\ \A q : Holds(commands, q) => q.type = "PUBLISH" /\ q.msg \in Nat
         /\ \A id \in MsgId : stored[id] \in Nat
<1>1. /\ outs \in Nat /\ commands \in Seq(Publication(outs)) /\ toBroker \in Seq(BrokerPacket)
      /\ stored \in [MsgId -> 0 .. outs]
  BY Sequences DEF TypeOK
<1>2. \A q \in Publication(outs) : q.type = "PUBLISH" /\ q.msg \in Nat
  BY <1>1 DEF Publication, Numbered
<1>3. \A q \in BrokerPacket : q.type = "PUBLISH" => q.msg \in Nat
  BY <1>2 DEF BrokerPacket, AckPacket, AckType
<1>4. \A q : Holds(toBroker, q) => q \in BrokerPacket
  BY <1>1, HoldsFacts
<1>5. \A q : Holds(commands, q) => q \in Publication(outs)
  BY <1>1, HoldsFacts
<1> QED BY <1>1, <1>2, <1>3, <1>4, <1>5

LEMMA OutgoingReadsPublish ==
  ASSUME TypeOK, ExchangeInv, OutOrderInv, BrokerReads, NEW p, p = Head(toBroker),
         p.type = "PUBLISH"
  PROVE  OutgoingMoves
<1>0. PICK d, id : d = PublicationOf(p) /\ id = p.id
  OBVIOUS
<1>1. /\ UNCHANGED <<outs, losses, commands, responses>>
      /\ toBroker # <<>> /\ toBroker' = Tail(toBroker) /\ Holds(toBroker, p)
      /\ OutboundInv /\ (p.qos # 0 => id \in MsgId)
  <2>1. Holds(toBroker, p) /\ (p.qos # 0 => p.id \in MsgId)
    BY ReadPassed
  <2>2. /\ UNCHANGED <<outs, losses, commands, responses>>
        /\ toBroker # <<>> /\ toBroker' = Tail(toBroker)
    BY DEF BrokerReads, requests, outbound, TypeOK
  <2> QED BY <1>0, <2>1, <2>2 DEF ExchangeInv
<1>2. d.msg = p.msg /\ d.qos = p.qos
  BY <1>0 DEF PublicationOf
<1>3. /\ d \in PublicationsOf(toBroker)
      /\ \A e \in PublicationsOf(toBroker) : p.msg <= e.msg
      /\ PublicationsOf(toBroker') = PublicationsOf(toBroker) \ {d}
  <2>1. InOrder(toBroker, "PUBLISH", outboundMsgs) /\ toBroker \in Seq(BrokerPacket)
    BY Sequences DEF OutOrderInv
  <2> QED BY <1>0, <1>1, <2>1, DueOutNumbers, PublicationsHead
<1>4. ASSUME NEW e \in PublicationsOf(commands) PROVE p.msg < e.msg
  <2>1. PICK q : Holds(commands, q) /\ e = PublicationOf(q)
    BY PublicationsHold
  <2>2. p.msg < q.msg
    BY <1>1, <2>1 DEF OutOrderInv, SentFirst
  <2> QED BY <2>1, <2>2 DEF PublicationOf
<1>5. UNCHANGED AwaitedOut
  BY <1>1 DEF AwaitedOut
<1>6. p.msg \in Nat /\ \A e \in PublicationsOf(commands) : e.msg \in Nat
  BY <1>1, DueOutNumbers, PublicationsHold DEF PublicationOf
<1>7. \A e \in StoredIn(stored) : e.qos = 2
  BY StoredFacts
<1>8. CASE p.qos \in {0, 1}
  <2>1. Extends(published', published, d.msg) /\ UNCHANGED stored
    BY <1>2, <1>8 DEF BrokerReads, Extends
  <2>2. d \in DueOut /\ \A e \in DueOut : e.qos = d.qos => d.msg <= e.msg
    BY <1>2, <1>3, <1>4, <1>6, <1>7, <1>8, DueOutFacts
  <2>3. DueOut' = DueOut \ {d}
    <3>1. d \notin PublicationsOf(commands) /\ d \notin StoredIn(stored)
      BY <1>2, <1>4, <1>6, <1>7, <1>8
    <3> QED BY <1>1, <1>3, <2>1, <3>1, DueOutFacts
  <2> QED BY <1>1, <1>5, <2>1, <2>2, <2>3, OutgoingDelivers
<1>9. CASE p.qos = 2
  <2>1. stored' = [stored EXCEPT ![id] = p.msg] /\ UNCHANGED published
    BY <1>0, <1>9 DEF BrokerReads
  <2>0. id \in MsgId
    BY <1>1, <1>9
  <2>2. stored[id] = 0 /\ p.msg # 0
    <3>1. "PUBLISH" \in PacketType /\ Forth("PUBLISH")
      BY DEF PacketType, Forth
    <3>2. OutboundCount(id)["PUBLISH"] # 0
      BY <1>0, <1>1, <2>0, PublishCount
    <3>3. PICK had \in BOOLEAN : had = Holds(published, outboundMsgs[id].msg)
      BY DEF Holds
    <3>4. Going(outboundMsgs[id], OutboundCount(id), stored[id], had)
      BY <1>1, <2>0, <3>3 DEF OutboundInv
    <3>5. UnderWay(outboundMsgs[id], stored[id], had, "PUBLISH") /\ outboundMsgs[id].msg # 0
      BY <3>1, <3>2, <3>4, AtHand
    <3>6. p.msg = outboundMsgs[id].msg
      <4>1. p.id # 0
        BY <1>0, <2>0 DEF MsgId
      <4> QED BY <1>0, <1>1, <2>0, <4>1 DEF OutboundInv, Fits
    <3> QED BY <3>5, <3>6 DEF UnderWay
  <2>3. d = [msg |-> p.msg, qos |-> 2]
    BY <1>0, <1>9 DEF PublicationOf
  <2>4. StoredIn(stored') = StoredIn(stored) \cup {d}
    <3>1. Stores(stored', stored, id, p.msg)
      BY <2>0, <2>1 DEF Stores, TypeOK
    <3>2. \A e : e \in StoredIn(stored') <=>
                   e \in StoredIn(stored) \/ e = [msg |-> p.msg, qos |-> 2]
      BY <2>0, <2>2, <3>1, StoredPut
    <3> QED BY <2>3, <3>2
  <2>5. UNCHANGED DueOut
    BY <1>1, <1>3, <2>4, DueOutFacts
  <2> QED BY <1>1, <1>5, <2>1, <2>5, OutgoingStays
<1>10. p.qos \in {0, 1, 2}
  BY DEF BrokerReads
<1> QED BY <1>8, <1>9, <1>10

LEMMA OutgoingReadsPubrel ==
  ASSUME TypeOK, ExchangeInv, OutOrderInv, CompletionInv, BrokerReads, NEW p, p = Head(toBroker),
         p.type = "PUBREL"
  PROVE  OutgoingMoves
<1>0. PICK id, m : id = p.id /\ m = stored[id]
  OBVIOUS
<1>1. /\ UNCHANGED <<outs, losses, commands, responses>>
      /\ toBroker # <<>> /\ toBroker' = Tail(toBroker) /\ Holds(toBroker, p) /\ id \in MsgId
      /\ OutboundInv
  <2>1. Holds(toBroker, p) /\ p.id \in MsgId
    BY ReadPassed
  <2>2. /\ UNCHANGED <<outs, losses, commands, responses>>
        /\ toBroker # <<>> /\ toBroker' = Tail(toBroker)
    BY DEF BrokerReads, requests, outbound, TypeOK
  <2> QED BY <1>0, <2>1, <2>2 DEF ExchangeInv
<1>2. m = Own(id) /\ m # 0
  <2>1. OutboundCount(id)["PUBREL"] # 0
    BY <1>0, <1>1, OutHeldCount
  <2> QED BY <1>0, <1>1, <2>1, NotPublished
<1>3. Extends(published', published, m) /\ stored' = [stored EXCEPT ![id] = 0]
  BY <1>0, <1>2 DEF BrokerReads, Extends
<1>4. UNCHANGED AwaitedOut
  BY <1>1 DEF AwaitedOut
<1>5. PublicationsOf(toBroker') = PublicationsOf(toBroker)
  BY <1>1, Sequences, PublicationsTail
<1>6. PICK d : d = [msg |-> m, qos |-> 2]
  OBVIOUS
<1>7. d.msg = m /\ d.qos = 2
  BY <1>6
<1>8. d \in StoredIn(stored) /\ StoredIn(stored') = StoredIn(stored) \ {d}
  <2>1. Stores(stored', stored, id, 0)
    BY <1>1, <1>3 DEF Stores, TypeOK
  <2>2. \A j \in MsgId : j # id => stored[j] # stored[id]
    <3>1. \A j \in MsgId : stored[j] # 0 => stored[j] = Own(j)
      BY <1>1, OutStoredUnderWay
    <3> QED BY <1>0, <1>1, <1>2, <3>1 DEF CompletionInv
  <2>3. /\ [msg |-> stored[id], qos |-> 2] \in StoredIn(stored)
        /\ StoredIn(stored') = StoredIn(stored) \ {[msg |-> stored[id], qos |-> 2]}
    <3>1. stored[id] # 0 /\ id \in MsgId
      BY <1>0, <1>1, <1>2
    <3> QED BY <2>1, <2>2, <3>1, StoredTaken
  <2> QED BY <1>0, <1>6, <2>3
<1>9. /\ \A j \in MsgId : j # id /\ stored[j] # 0 => m < stored[j]
      /\ \A q : (Holds(toBroker, q) \/ Holds(commands, q)) /\ q.type = "PUBLISH" /\ q.qos = 2
                  => m < q.msg
  BY <1>0, <1>1, <1>2, OutStoredLater
<1>10. m \in Nat
  BY <1>0, <1>1, DueOutNumbers
<1>11. ASSUME NEW e, e \in PublicationsOf(toBroker) \/ e \in PublicationsOf(commands), e.qos = 2
       PROVE  m < e.msg /\ e.msg \in Nat
  <2>1. PICK q : /\ Holds(toBroker, q) \/ Holds(commands, q)
                 /\ q.type = "PUBLISH" /\ e = PublicationOf(q)
    BY <1>11, PublicationsHold
  <2>2. e.msg = q.msg /\ e.qos = q.qos
    BY <2>1 DEF PublicationOf
  <2> QED BY <1>9, <1>11, <2>1, <2>2, DueOutNumbers
<1>12. ASSUME NEW e \in StoredIn(stored) PROVE m <= e.msg
  <2>1. PICK j \in MsgId : stored[j] # 0 /\ e = [msg |-> stored[j], qos |-> 2]
    BY StoredFacts
  <2>2. e.msg = stored[j] /\ stored[j] \in Nat
    BY <2>1, DueOutNumbers
  <2> QED BY <1>0, <1>9, <1>10, <2>1, <2>2
<1>13. d \in DueOut /\ \A e \in DueOut : e.qos = d.qos => d.msg <= e.msg
  BY <1>7, <1>8, <1>10, <1>11, <1>12, DueOutFacts
<1>14. DueOut' = DueOut \ {d}
  <2>1. d \notin PublicationsOf(toBroker) /\ d \notin PublicationsOf(commands)
    BY <1>7, <1>10, <1>11
  <2> QED BY <1>1, <1>5, <1>8, <2>1, DueOutFacts
<1> QED BY <1>1, <1>3, <1>4, <1>7, <1>13, <1>14, OutgoingDelivers

\* An acknowledgement of an incoming publication is read.
LEMMA OutgoingReadsAck ==
  ASSUME TypeOK, BrokerReads, NEW p, p = Head(toBroker), p.type \in {"PUBREC", "PUBACK", "PUBCOMP"}
  PROVE  OutgoingMoves
<1>1. /\ UNCHANGED <<outs, losses, commands, responses, stored, published>>
      /\ toBroker # <<>> /\ toBroker' = Tail(toBroker)
  <2>1. UNCHANGED <<stored, published>>
    BY DEF BrokerReads
  <2>2. /\ UNCHANGED <<outs, losses, commands, responses>>
        /\ toBroker # <<>> /\ toBroker' = Tail(toBroker)
    BY DEF BrokerReads, requests, outbound, TypeOK
  <2> QED BY <2>1, <2>2
<1>2. PublicationsOf(toBroker') = PublicationsOf(toBroker)
  BY <1>1, Sequences, PublicationsTail
<1>3. UNCHANGED DueOut /\ UNCHANGED AwaitedOut
  BY <1>1, <1>2, DueOutFacts DEF AwaitedOut
<1> QED BY <1>1, <1>3, OutgoingStays

LEMMA OutgoingBroker ==
  ASSUME TypeOK, ExchangeInv, OutOrderInv, CompletionInv, BrokerReads
  PROVE  OutgoingMoves
<1>1. Head(toBroker).type \in {"PUBLISH", "PUBREL", "PUBREC", "PUBACK", "PUBCOMP"}
  BY DEF BrokerReads
<1> QED BY <1>1, OutgoingReadsPublish, OutgoingReadsPubrel, OutgoingReadsAck

\* The end of a publication is reported.
LEMMA OutgoingEnds ==
  ASSUME TypeOK, ExchangeInv, CompletionInv, HandlePubacks \/ HandlePubcomps
  PROVE  OutgoingMoves
<1>0. PICK p, id, m : p = Head(toClient) /\ id = p.id /\ m = responses[id]
  OBVIOUS
<1>1. /\ UNCHANGED <<outs, losses, commands, toBroker, stored, published>>
      /\ \E type \in {"PUBACK", "PUBCOMP"} : Take(type) /\ Complete(id)
  BY <1>0 DEF HandlePubacks, HandlePubcomps, requests, socket, broker
<1>2. PICK type \in {"PUBACK", "PUBCOMP"} : Take(type)
  BY <1>1
<1>3. id \in MsgId /\ type \in PacketType /\ ~Forth(type)
  <2>1. type # "PUBLISH"
    OBVIOUS
  <2> QED BY <1>0, <1>2, <2>1, TypeParts, Bounds, TakeHead
          DEF BrokerType, PacketType, AckType, Forth
<1>4. Own(id) = m /\ m # 0 /\ Holds(published, m)
  <2>1. OutboundCount(id)[type] # 0
    BY <1>0, <1>2, <1>3, TakeHolds
  <2>2. PICK had \in BOOLEAN : had = Holds(published, outboundMsgs[id].msg)
    BY DEF Holds
  <2>3. Going(outboundMsgs[id], OutboundCount(id), stored[id], had)
    BY <1>3, <2>2 DEF ExchangeInv, OutboundInv
  <2>4. UnderWay(outboundMsgs[id], stored[id], had, type) /\ outboundMsgs[id].msg # 0
    BY <1>3, <2>1, <2>3, AtHand
  <2>5. Own(id) = m
    BY <1>0, <1>3 DEF CompletionInv
  <2>6. had
    BY <1>2, <2>4 DEF UnderWay
  <2> QED BY <2>2, <2>4, <2>5, <2>6 DEF Own
<1>5. responses' = [responses EXCEPT ![id] = 0] /\ responses \in [MsgId -> 0 .. outs]
  BY <1>1 DEF Complete, TypeOK
<1>6. \A q : Holds(commands, q) => q.msg # m
  <2>1. \A q : Holds(commands, q) => Queued(q.msg)
    BY DEF Holds, Queued
  <2> QED BY <1>3, <1>4, <2>1 DEF CompletionInv
<1>7. \A j \in MsgId : j # id => responses[j] # m
  BY <1>3, <1>4 DEF CompletionInv
<1>8. m \in AwaitedOut
  BY <1>0, <1>3, <1>4, AwaitedOutFacts
<1>9. AwaitedOut' = AwaitedOut \ {m}
  <2>1. ASSUME NEW x PROVE x \in AwaitedOut' <=> x \in AwaitedOut /\ x # m
    <3>1. \A j \in MsgId : responses'[j] = IF j = id THEN 0 ELSE responses[j]
      BY <1>5
    <3>2. x \in AwaitedOut' => x \in AwaitedOut /\ x # m
      BY <1>1, <1>3, <1>6, <1>7, <3>1, AwaitedOutFacts
    <3>3. x \in AwaitedOut /\ x # m => x \in AwaitedOut'
      BY <1>0, <1>1, <1>3, <3>1, AwaitedOutFacts
    <3> QED BY <3>2, <3>3
  <2> QED BY <2>1
<1>10. UNCHANGED DueOut
  BY <1>1, DueOutFacts
<1> QED BY <1>1, <1>4, <1>8, <1>9, <1>10, OutgoingSettles

LEMMA OutgoingStarts ==
  ASSUME TypeOK, ExchangeInv, CompletionInv, StartPublish
  PROVE  OutgoingMoves
<1>0. PICK p, id : p = Head(commands) /\ id = p.id
  OBVIOUS
<1>1. /\ UNCHANGED <<outs, losses, stored, published>>
      /\ commands # <<>> /\ commands' = Tail(commands) /\ Extends(toBroker', toBroker, p)
      /\ responses' = [responses EXCEPT ![id] = p.msg] /\ p.qos > 0
  BY <1>0 DEF StartPublish, TakeCommand, Write, Extends, broker
<1>2. /\ commands \in Seq(Publication(outs)) /\ toBroker \in Seq(BrokerPacket)
      /\ responses \in [MsgId -> 0 .. outs] /\ outs \in Nat
  BY Sequences DEF TypeOK
<1>3. /\ p \in BrokerPacket /\ p.type = "PUBLISH" /\ id \in MsgId /\ p.msg # 0
  <2>1. p \in Publication(outs)
    BY <1>0, <1>1, <1>2, HeadTail
  <2> QED BY <1>0, <1>1, <2>1 DEF Publication, Numbered, BrokerPacket
<1>4. responses[id] = 0
  <2>1. Len(commands) \in Nat /\ 1 \in 1 .. Len(commands) /\ commands[1] = p
    BY <1>0, <1>1, <1>2
  <2>2. outboundMsgs[id] = Free
    BY <1>0, <1>3, <2>1, NoIdZero DEF ExchangeInv, CommandsInv
  <2> QED BY <1>3, <2>2 DEF CompletionInv, Own, Free
<1>5. UNCHANGED DueOut
  <2>1. PublicationsOf(commands) = PublicationsOf(commands') \cup {PublicationOf(p)}
    BY <1>0, <1>1, <1>2, <1>3, PublicationsTail
  <2>2. PublicationsOf(toBroker') = PublicationsOf(toBroker) \cup {PublicationOf(p)}
    BY <1>1, <1>2, <1>3, PublicationsAppend
  <2> QED BY <1>1, <2>1, <2>2, DueOutFacts
<1>6. UNCHANGED AwaitedOut
  <2>1. ASSUME NEW x PROVE x \in AwaitedOut' <=> x \in AwaitedOut
    <3>1. \A j \in MsgId : responses'[j] = IF j = id THEN p.msg ELSE responses[j]
      BY <1>1, <1>2
    <3>2. \A q : Holds(commands, q) <=> Holds(commands', q) \/ q = p
      <4>1. ASSUME NEW q PROVE Holds(commands, q) <=> Holds(commands', q) \/ q = p
        BY <1>0, <1>1, <1>2, HoldsFacts, TailHolds
      <4> QED BY <4>1
    <3>3. ASSUME x \in AwaitedOut' PROVE x \in AwaitedOut
      <4>1. CASE \E q : Holds(commands', q) /\ q.qos > 0 /\ x = q.msg
        BY <3>2, <4>1, AwaitedOutFacts
      <4>2. ASSUME NEW j \in MsgId, x # 0, x = responses'[j] PROVE x \in AwaitedOut
        <5>1. CASE j = id
          BY <1>1, <3>1, <3>2, <4>2, <5>1, AwaitedOutFacts
        <5>2. CASE j # id
          BY <3>1, <4>2, <5>2, AwaitedOutFacts
        <5> QED BY <5>1, <5>2
      <4> QED BY <3>3, <4>1, <4>2, AwaitedOutFacts
    <3>4. ASSUME x \in AwaitedOut PROVE x \in AwaitedOut'
      <4>1. ASSUME NEW q, Holds(commands, q), q.qos > 0, x = q.msg PROVE x \in AwaitedOut'
        <5>1. CASE q = p
          <6>1. x # 0 /\ x = responses'[id]
            BY <1>3, <3>1, <4>1, <5>1
          <6> QED BY <1>3, <6>1, AwaitedOutFacts
        <5>2. CASE q # p
          BY <3>2, <4>1, <5>2, AwaitedOutFacts
        <5> QED BY <5>1, <5>2
      <4>2. ASSUME NEW j \in MsgId, x # 0, x = responses[j] PROVE x \in AwaitedOut'
        <5>1. x = responses'[j]
          BY <1>4, <3>1, <4>2
        <5> QED BY <4>2, <5>1, AwaitedOutFacts
      <4> QED BY <3>4, <4>1, <4>2, AwaitedOutFacts
    <3> QED BY <3>3, <3>4
  <2> QED BY <2>1
<1> QED BY <1>1, <1>5, <1>6, OutgoingStays

\* With QoS 0 nobody waits for the end of it.
LEMMA OutgoingStartsQoS0 ==
  ASSUME TypeOK, StartPublishQoS0
  PROVE  OutgoingMoves
<1>0. PICK p : p = Head(commands)
  OBVIOUS
<1>1. /\ UNCHANGED <<outs, losses, stored, published, responses>> /\ p.qos = 0
      /\ commands # <<>> /\ commands' = Tail(commands) /\ Extends(toBroker', toBroker, p)
  BY <1>0 DEF StartPublishQoS0, TakeCommand, Write, Extends, broker
<1>2. commands \in Seq(Publication(outs)) /\ toBroker \in Seq(BrokerPacket)
  BY Sequences DEF TypeOK
<1>3. p \in BrokerPacket /\ p.type = "PUBLISH"
  <2>1. p \in Publication(outs)
    BY <1>0, <1>1, <1>2, HeadTail
  <2> QED BY <2>1 DEF Publication, Numbered, BrokerPacket
<1>4. UNCHANGED DueOut
  <2>1. PublicationsOf(commands) = PublicationsOf(commands') \cup {PublicationOf(p)}
    BY <1>0, <1>1, <1>2, <1>3, PublicationsTail
  <2>2. PublicationsOf(toBroker') = PublicationsOf(toBroker) \cup {PublicationOf(p)}
    BY <1>1, <1>2, <1>3, PublicationsAppend
  <2> QED BY <1>1, <2>1, <2>2, DueOutFacts
<1>5. \A q : Holds(commands, q) <=> Holds(commands', q) \/ q = p
  <2>1. ASSUME NEW q PROVE Holds(commands, q) <=> Holds(commands', q) \/ q = p
    BY <1>0, <1>1, <1>2, HoldsFacts, TailHolds
  <2> QED BY <2>1
<1>6. UNCHANGED AwaitedOut
  <2>1. \A x : x \in AwaitedOut' <=> x \in AwaitedOut
    BY <1>1, <1>5, AwaitedOutFacts
  <2> QED BY <2>1
<1> QED BY <1>1, <1>4, <1>6, OutgoingStays

LEMMA OutgoingSends ==
  ASSUME TypeOK, NEW qos \in Qos, SendMessage(qos)
  PROVE  OutgoingMoves
<1>1. PICK p : /\ Extends(commands', commands, p) /\ p.type = "PUBLISH" /\ p.msg = outs + 1
               /\ p.qos = qos /\ PublicationOf(p) = [msg |-> outs + 1, qos |-> qos]
  <2>1. PICK id, c : commands' = Append(commands, Publish(id, outs + 1, c)) /\ c = qos
    BY DEF SendMessage
  <2> QED BY <2>1 DEF Extends, Publish, PublicationOf
<1>2. /\ UNCHANGED <<published, losses, toBroker, stored, responses>>
      /\ outs' = outs + 1 /\ outs \in Nat /\ commands \in Seq(Publication(outs))
  BY DEF SendMessage, socket, outbound, broker, TypeOK
<1>3. PICK S : commands \in Seq(S) /\ p \in S
  <2>1. PICK S : S = Publication(outs) \cup {p}
    OBVIOUS
  <2>2. commands \in Seq(S) /\ p \in S
    BY <1>2, <2>1, SeqSubset
  <2> QED BY <2>2
<1>4. DueOut' = DueOut \cup {[msg |-> outs + 1, qos |-> qos]}
  <2>1. PublicationsOf(commands') = PublicationsOf(commands) \cup {PublicationOf(p)}
    BY <1>1, <1>3, PublicationsAppend
  <2> QED BY <1>1, <1>2, <2>1, DueOutFacts
<1>5. AwaitedOut' = IF qos = 0 THEN AwaitedOut ELSE AwaitedOut \cup {outs + 1}
  <2>1. \A q : Holds(commands', q) <=> Holds(commands, q) \/ q = p
    BY <1>1, <1>3, ExtendsFacts
  <2>2. qos = 0 \/ qos > 0
    BY QosAssumption
  <2>3. ASSUME NEW x
        PROVE  x \in AwaitedOut' <=> x \in AwaitedOut \/ (qos > 0 /\ x = outs + 1)
    <3>1. x \in AwaitedOut' => x \in AwaitedOut \/ (qos > 0 /\ x = outs + 1)
      BY <1>1, <1>2, <2>1, AwaitedOutFacts
    <3>2. x \in AwaitedOut \/ (qos > 0 /\ x = outs + 1) => x \in AwaitedOut'
      BY <1>1, <1>2, <2>1, AwaitedOutFacts
    <3> QED BY <3>1, <3>2
  <2>4. ~(0 > 0)
    OBVIOUS
  <2> QED BY <2>2, <2>3, <2>4
<1>6. Outgoing!Send(qos)
  BY <1>2, <1>4, <1>5 DEF Outgoing!Send
<1> QED BY <1>6 DEF OutgoingMoves, Outgoing!Next

LEMMA OutgoingLose ==
  ASSUME Lose
  PROVE  OutgoingMoves
<1>1. /\ UNCHANGED <<outs, published>> /\ losses' = losses + 1
      /\ toBroker' = <<>> /\ commands' = <<>>
      /\ \A id \in MsgId : stored'[id] = 0 /\ responses'[id] = 0
  BY DEF Lose
<1>2. DueOut' = {}
  BY <1>1, NothingDue, DueOutFacts
<1>3. AwaitedOut' = {}
  <2>1. \A p : ~Holds(commands', p)
    BY <1>1 DEF Holds
  <2> QED BY <1>1, <2>1, AwaitedOutFacts
<1>4. Outgoing!Lose
  BY <1>1, <1>2, <1>3 DEF Outgoing!Lose
<1> QED BY <1>4 DEF OutgoingMoves, Outgoing!Next

LEMMA OutgoingRest ==
  ASSUME TypeOK, ExchangeInv,
         \/ ReadySocket \/ HandlePublishes \/ HandlePubrels \/ HandlePubrecs \/ WriteAvailable
         \/ WriteComplete \/ (\E qos \in Qos : Forward(qos)) \/ UNCHANGED vars
  PROVE  OutgoingMoves
<1>1. UNCHANGED <<outs, losses, commands, responses, stored, published>>
  BY DEF ReadySocket, HandlePublishes, HandlePubrels, HandlePubrecs, WriteAvailable,
         WriteComplete, Forward, vars, requests, outbound, broker
<1>2. PublicationsOf(toBroker') = PublicationsOf(toBroker)
  <2>1. CASE HandlePublishes
    <3>1. PICK p : p = Head(toClient)
      OBVIOUS
    <3>2. /\ \/ UNCHANGED socket
             \/ p.qos # 0 /\ Send(Ack("PUBACK", p.id))
             \/ p.qos # 0 /\ Send(Ack("PUBREC", p.id))
          /\ p.qos # 0 => p.id \in MsgId
      <4>1. Take("PUBLISH")
        BY <2>1 DEF HandlePublishes
      <4>2. p.qos # 0 => p.id \in MsgId
        BY <3>1, <4>1, TypeParts, Bounds, TakeHead DEF BrokerType
      <4> QED BY <2>1, <3>1, <4>2 DEF HandlePublishes
    <3>3. p.id \in MsgId => Ack("PUBACK", p.id) \in AckPacket /\ Ack("PUBREC", p.id) \in AckPacket
      BY DEF Ack, AckPacket, AckType
    <3> QED BY <3>2, <3>3, AckKept
  <2>2. CASE HandlePubrels \/ HandlePubrecs
    <3>1. PICK id, type, answer :
            /\ id = Head(toClient).id /\ type # "PUBLISH" /\ Take(type)
            /\ answer \in AckType /\ Send(Ack(answer, id))
      BY <2>2 DEF HandlePubrels, HandlePubrecs, AckType
    <3>2. id \in MsgId
      BY <3>1, TypeParts, Bounds, TakeHead DEF BrokerType
    <3> QED BY <3>1, <3>2, AckTypes, AckKept
  <2>3. CASE WriteAvailable
    BY <2>3, FlushCount, AckKept DEF ExchangeInv
  <2>4. CASE ReadySocket \/ WriteComplete \/ (\E qos \in Qos : Forward(qos)) \/ UNCHANGED vars
    <3>1. UNCHANGED toBroker
      BY <2>4 DEF ReadySocket, WriteComplete, Forward, vars, socket
    <3> QED BY <3>1
  <2> QED BY <2>1, <2>2, <2>3, <2>4
<1>3. UNCHANGED DueOut /\ UNCHANGED AwaitedOut
  BY <1>1, <1>2, DueOutFacts DEF AwaitedOut
<1> QED BY <1>1, <1>3, OutgoingStays

LEMMA OutgoingStep ==
  ASSUME TypeOK, ExchangeInv, OutOrderInv, CompletionInv, [Next]_vars
  PROVE  OutgoingMoves
<1>1. ASSUME Receive PROVE OutgoingMoves
  BY <1>1, OutgoingRest, OutgoingEnds DEF Receive
<1>2. ASSUME BrokerReads \/ Lose PROVE OutgoingMoves
  BY <1>2, OutgoingBroker, OutgoingLose
<1>3. ASSUME StartPublish \/ StartPublishQoS0 PROVE OutgoingMoves
  BY <1>3, OutgoingStarts, OutgoingStartsQoS0
<1>4. ASSUME NEW qos \in Qos, SendMessage(qos) PROVE OutgoingMoves
  BY <1>4, OutgoingSends
<1>5. ASSUME ReadySocket \/ WriteAvailable \/ WriteComplete \/ (\E qos \in Qos : Forward(qos))
               \/ UNCHANGED vars
      PROVE  OutgoingMoves
  BY <1>5, OutgoingRest
<1> QED BY <1>1, <1>2, <1>3, <1>4, <1>5 DEF Next

\* What we send is an ordered delivery; of what is sent with QoS 0 no end is
\* awaited, since it is reported when it is written.
THEOREM OutgoingImplemented == Spec => Outgoing!Spec
<1>1. Init => Outgoing!Init
  <2> SUFFICES ASSUME Init PROVE Outgoing!Init
    OBVIOUS
  <2>1. /\ outs = 0 /\ published = <<>> /\ losses = 0 /\ toBroker = <<>> /\ commands = <<>>
        /\ \A id \in MsgId : stored[id] = 0 /\ responses[id] = 0
    BY DEF Init
  <2>2. DueOut = {}
    BY <2>1, NothingDue, DueOutFacts
  <2>3. AwaitedOut = {}
    <3>1. \A p : ~Holds(commands, p)
      BY <2>1 DEF Holds
    <3> QED BY <2>1, <3>1, AwaitedOutFacts
  <2> QED BY <2>1, <2>2, <2>3 DEF Outgoing!Init
<1>2. TypeOK /\ ExchangeInv /\ OutOrderInv /\ CompletionInv /\ [Next]_vars =>
        [Outgoing!Next]_(Outgoing!deliveryVars)
  BY OutgoingStep DEF OutgoingMoves
<1> QED BY <1>1, <1>2, TypeCorrect, ExchangesCorrect, OutOrderCorrect, CompletionKept, PTL
        DEF Spec, Outgoing!Spec

\* Each direction of the connection is an ordered delivery: whatever the socket
\* takes, however acknowledgements are queued and ids are used again, messages of
\* one quality of service arrive in order, once and without a gap, and of what is
\* to be acknowledged an end is reported when it has arrived only.
THEOREM DeliveryImplemented == Spec => ImplementsDelivery
BY IncomingImplemented, OutgoingImplemented DEF ImplementsDelivery

=============================================================================
