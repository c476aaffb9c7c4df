---------------------------- MODULE MessageDelivery ----------------------------
(***************************************************************************)
(* How Paho's MQTTProtocolClient.c exchanges messages with the broker over *)
(* one socket: publications the broker forwards (the messages of the       *)
(* visitors) and publications of our own (UDTMqttClient::Publish), each    *)
(* with the quality of service its sender gave it, and all of their        *)
(* acknowledgements over one write path.  A write may be partial; until    *)
(* the socket has taken the rest, acknowledgements wait in outboundQueue   *)
(* and publications of our own in MQTTAsync_commands.  A publication of    *)
(* ours with QoS 0 has no id and is reported complete when it is written.  *)
(*                                                                         *)
(* The receive thread asks for a socket that can be read and has nothing   *)
(* pending, and handles one packet of it under mqttasync_mutex; between    *)
(* the two the send thread, which takes one command at a time under that   *)
(* mutex, may write.  The rest of a partial write and the queue behind it  *)
(* are the receive thread's, too; it reports what was finished in a step   *)
(* of its own, between which the send thread may write again.              *)
(*                                                                         *)
(* The broker is modelled as far as MQTT 3.1.1 obliges it to answer.  It   *)
(* never sends a packet again on the same connection, and sessions are     *)
(* clean: UDTMqttClient makes a client of its own for every connection, so *)
(* that a loss ends every exchange on both sides.  Left out is the second  *)
(* attempt with MQTT 3.1 that Paho itself makes after a loss, for which    *)
(* the same client keeps its commands and message ids until it connects.   *)
(***************************************************************************)
EXTENDS Naturals, Sequences, FiniteSets

CONSTANTS
  MaxMsgId,     \* MAX_MSG_ID (65535 in the code), also what the broker uses
  Qos,          \* what senders ask for
  MaxIn,        \* bound: publications the broker forwards
  MaxOut,       \* bound: publications of our own
  MaxPartial,   \* bound: partial writes
  MaxLosses     \* bound: losses of the connection

ASSUME IdAssumption == MaxMsgId \in Nat \ {0}
ASSUME QosAssumption == Qos \subseteq 0 .. 2
ASSUME BoundAssumption ==
  MaxIn \in Nat /\ MaxOut \in Nat /\ MaxPartial \in Nat /\ MaxLosses \in Nat

VARIABLES
  toClient, toBroker,   \* the connection
  pending,              \* a part of the last packet of toBroker is not written yet
  outboundQueue,        \* acknowledgements that wait for the socket
  ready,                \* the receive thread is about to handle a packet
  inboundMsgs,          \* of each id: the QoS 2 message stored, or 0
  outboundMsgs,         \* of each id: the exchange of our publication
  commands,             \* MQTTAsync_commands: publications not sent yet
  responses,            \* of each id: the publication whose end is awaited, or 0
  unnumbered,           \* QoS 0: publications among the responses, without an id
  pendingWrite,         \* m->pending_write: the one whose write is partial, or 0
  finished,             \* a write was finished and writeComplete is still to come
  msgID,                \* the id assigned last
  sending,              \* broker: of each id: the exchange of what it forwards
  stored,               \* broker: of each id: the QoS 2 message of ours, or 0
  dropped,              \* history: acknowledgements of this connection thrown away
  ins, outs,            \* publications forwarded, and of our own
  qosOf,                \* of each publication forwarded: its QoS
  askedQos,             \* and of each of our own
  received,             \* history: messages given to messageArrived
  published,            \* history: publications of ours the broker has published
  completed,            \* history: publications of ours reported complete
  partials, losses      \* what has happened of the bounded events

socket    == <<toBroker, pending, outboundQueue, dropped, partials>>
direct    == <<unnumbered, pendingWrite, finished>>
outbound  == <<outboundMsgs, responses, completed, direct>>
requests  == <<commands, msgID, outs, askedQos>>
broker    == <<sending, stored, published, ins, qosOf>>
vars == <<toClient, ready, socket, inboundMsgs, received, outbound, requests, broker, losses>>

MsgId  == 1 .. MaxMsgId
\* No exchange under this id.
Free == [msg |-> 0, qos |-> 0, next |-> "none"]

Publish(id, msg, qos) == [type |-> "PUBLISH", id |-> id, msg |-> msg, qos |-> qos]
Ack(type, id)         == [type |-> type, id |-> id, msg |-> 0, qos |-> 0]

AckType == {"PUBACK", "PUBREC", "PUBREL", "PUBCOMP"}
AckPacket == [type: AckType, id: MsgId, msg: {0}, qos: {0}]
\* Only a publication that is to be acknowledged has an id.
Numbered(max) == [type: {"PUBLISH"}, id: MsgId, msg: 1 .. max, qos: {1, 2}]
Publication(max) ==
  Numbered(max) \cup [type: {"PUBLISH"}, id: {0}, msg: 1 .. max, qos: {0}]
Exchange(max) == [msg: 0 .. max, qos: 0 .. 2, next: AckType \cup {"none"}]

TypeOK ==
  /\ toClient \in Seq(AckPacket \cup Publication(ins))
  /\ toBroker \in Seq(AckPacket \cup Publication(outs))
  /\ pending \in BOOLEAN /\ (pending => toBroker # <<>>)
  /\ ready \in BOOLEAN /\ (ready => toClient # <<>> /\ ~finished)
  /\ outboundQueue \in Seq(AckPacket) /\ (outboundQueue # <<>> => pending)
  /\ inboundMsgs \in [MsgId -> 0 .. ins] /\ stored \in [MsgId -> 0 .. outs]
  /\ outboundMsgs \in [MsgId -> Exchange(outs)] /\ sending \in [MsgId -> Exchange(ins)]
  /\ commands \in Seq(Publication(outs))
  /\ responses \in [MsgId -> 0 .. outs]
  /\ unnumbered \subseteq 1 .. outs /\ pendingWrite \in 0 .. outs /\ finished \in BOOLEAN
  /\ msgID \in 0 .. MaxMsgId
  /\ dropped \subseteq AckPacket
  /\ ins \in 0 .. MaxIn /\ outs \in 0 .. MaxOut /\ qosOf \in [1 .. ins -> Qos]
  /\ askedQos \in [1 .. outs -> Qos]
  /\ received \in Seq(1 .. ins)
  /\ published \in Seq(1 .. outs) /\ completed \in Seq(1 .. outs)
  /\ partials \in 0 .. MaxPartial /\ losses \in 0 .. MaxLosses

Init ==
  /\ toClient = <<>> /\ toBroker = <<>>
  /\ ready = FALSE /\ pending = FALSE /\ outboundQueue = <<>> /\ dropped = {}
  /\ inboundMsgs = [id \in MsgId |-> 0] /\ outboundMsgs = [id \in MsgId |-> Free]
  /\ commands = <<>> /\ responses = [id \in MsgId |-> 0] /\ msgID = 0
  /\ unnumbered = {} /\ pendingWrite = 0 /\ finished = FALSE
  /\ sending = [id \in MsgId |-> Free] /\ stored = [id \in MsgId |-> 0]
  /\ ins = 0 /\ outs = 0 /\ qosOf = <<>> /\ askedQos = <<>>
  /\ received = <<>> /\ published = <<>> /\ completed = <<>>
  /\ partials = 0 /\ losses = 0

-----------------------------------------------------------------------------
(* The write path *)

\* Whether a write is partial.
Written(partial) ==
  /\ pending' = partial
  /\ partial => partials < MaxPartial
  /\ partials' = IF partial THEN partials + 1 ELSE partials

\* Socket_putdatas, while nothing is pending.
Write(packet) ==
  /\ toBroker' = Append(toBroker, packet)
  /\ \E partial \in BOOLEAN : Written(partial)
  /\ UNCHANGED <<outboundQueue, dropped>>

\* Variant: with a write pending the acknowledgement is given up.
SendUnlessPending(packet) ==
  IF pending THEN UNCHANGED socket ELSE Write(packet)

\* An acknowledgement is sent, or queued by queueAck.
Send(packet) ==
  IF pending
  THEN /\ outboundQueue' = Append(outboundQueue, packet)
       /\ UNCHANGED <<toBroker, pending, dropped, partials>>
  ELSE Write(packet)

\* Variant: the queue is not emptied.
WriteAvailableKept ==
  /\ ~ready /\ ~finished
  /\ pending
  /\ toBroker' = toBroker \o outboundQueue
  /\ Written(FALSE)
  /\ finished' = TRUE
  /\ UNCHANGED <<toClient, ready, outboundQueue, dropped, inboundMsgs, received, outboundMsgs,
                 responses, completed, unnumbered, pendingWrite, requests, broker, losses>>

\* The rest of a partial write, and writeAvailable: the acknowledgements are
\* sent as far as the first whose write is partial, and all are forgotten.
WriteAvailable ==
  /\ ~ready /\ ~finished
  /\ pending
  /\ \E k \in 0 .. Len(outboundQueue) :
       /\ toBroker' = toBroker \o SubSeq(outboundQueue, 1, k)
       /\ dropped' = dropped \cup {outboundQueue[j] : j \in k + 1 .. Len(outboundQueue)}
       /\ \/ k = Len(outboundQueue) /\ Written(FALSE)
          \/ k > 0 /\ Written(TRUE)
  /\ outboundQueue' = <<>>
  /\ finished' = TRUE
  /\ UNCHANGED <<toClient, ready, inboundMsgs, received, outboundMsgs, responses, completed,
                 unnumbered, pendingWrite, requests, broker, losses>>

\* MQTTAsync_writeComplete, after a write: the QoS 0 publication flagged then is
\* reported complete, which may be one the send thread has begun meanwhile.
WriteComplete ==
  /\ finished
  /\ finished' = FALSE
  /\ completed' = IF pendingWrite = 0 THEN completed ELSE Append(completed, pendingWrite)
  /\ unnumbered' = unnumbered \ {pendingWrite}
  /\ pendingWrite' = 0
  /\ UNCHANGED <<toClient, ready, socket, inboundMsgs, received, outboundMsgs, responses,
                 requests, broker, losses>>

-----------------------------------------------------------------------------
(* The receive thread *)

\* Variant: packets are read while a write is pending.
ReadySocketAlways ==
  /\ ~ready /\ ~finished
  /\ toClient # <<>>
  /\ ready' = TRUE
  /\ UNCHANGED <<toClient, socket, inboundMsgs, received, outbound, requests, broker, losses>>

\* Socket_getReadySocket: nothing is read while a write is pending.
ReadySocket ==
  /\ ~ready /\ ~finished
  /\ toClient # <<>> /\ ~pending
  /\ ready' = TRUE
  /\ UNCHANGED <<toClient, socket, inboundMsgs, received, outbound, requests, broker, losses>>

\* The packet is taken from the socket.
Take(type) ==
  /\ ready
  /\ ready' = FALSE
  /\ Head(toClient).type = type
  /\ toClient' = Tail(toClient)

\* Variant: a QoS 2 message is given to messageArrived at once.
HandlePublishesAtOnce ==
  /\ Take("PUBLISH")
  /\ LET p == Head(toClient) IN
     /\ received' = Append(received, p.msg)
     /\ CASE p.qos = 0 -> UNCHANGED <<socket, inboundMsgs>>
          [] p.qos = 1 -> Send(Ack("PUBACK", p.id)) /\ UNCHANGED inboundMsgs
          [] p.qos = 2 -> /\ inboundMsgs' = [inboundMsgs EXCEPT ![p.id] = p.msg]
                          /\ Send(Ack("PUBREC", p.id))
  /\ UNCHANGED <<outbound, requests, broker, losses>>

\* MQTTProtocol_handlePublishes: a QoS 2 message is stored, in the place of one
\* with its id, and the others are given to messageArrived.
HandlePublishes ==
  /\ Take("PUBLISH")
  /\ LET p == Head(toClient) IN
     \/ /\ p.qos = 0
        /\ received' = Append(received, p.msg)
        /\ UNCHANGED <<socket, inboundMsgs>>
     \/ /\ p.qos = 1
        /\ received' = Append(received, p.msg)
        /\ Send(Ack("PUBACK", p.id))
        /\ UNCHANGED inboundMsgs
     \/ /\ p.qos = 2
        /\ inboundMsgs' = [inboundMsgs EXCEPT ![p.id] = p.msg]
        /\ Send(Ack("PUBREC", p.id))
        /\ UNCHANGED received
  /\ UNCHANGED <<outbound, requests, broker, losses>>

\* Variant: the message is looked for among our own.
HandlePubrelsOutbound ==
  /\ Take("PUBREL")
  /\ LET id == Head(toClient).id IN
     /\ IF outboundMsgs[id] # Free
        THEN /\ received' = Append(received, inboundMsgs[id])
             /\ inboundMsgs' = [inboundMsgs EXCEPT ![id] = 0]
        ELSE UNCHANGED <<received, inboundMsgs>>
     /\ Send(Ack("PUBCOMP", id))
  /\ UNCHANGED <<outbound, requests, broker, losses>>

\* MQTTProtocol_handlePubrels: the message stored is given to messageArrived;
\* PUBCOMP is sent under all circumstances.
HandlePubrels ==
  /\ Take("PUBREL")
  /\ LET id == Head(toClient).id IN
     /\ IF inboundMsgs[id] # 0
        THEN /\ received' = Append(received, inboundMsgs[id])
             /\ inboundMsgs' = [inboundMsgs EXCEPT ![id] = 0]
        ELSE UNCHANGED <<received, inboundMsgs>>
     /\ Send(Ack("PUBCOMP", id))
  /\ UNCHANGED <<outbound, requests, broker, losses>>

\* MQTTAsync_cycle: whoever waits for the end of the publication is told,
\* whatever the handler found.
Complete(id) ==
  /\ responses' = [responses EXCEPT ![id] = 0]
  /\ completed' = IF responses[id] = 0 THEN completed ELSE Append(completed, responses[id])

\* MQTTProtocol_handlePubacks.
HandlePubacks ==
  /\ Take("PUBACK")
  /\ LET id == Head(toClient).id IN
     /\ outboundMsgs' = [outboundMsgs EXCEPT ![id] = IF @.qos = 1 THEN Free ELSE @]
     /\ Complete(id)
  /\ UNCHANGED <<socket, inboundMsgs, received, direct, requests, broker, losses>>

\* Variant: the end of the publication is reported at PUBREC already.
HandlePubrecsCompleting ==
  /\ Take("PUBREC")
  /\ LET id == Head(toClient).id IN
     /\ outboundMsgs' = [outboundMsgs EXCEPT
          ![id] = IF @.qos = 2 /\ @.next = "PUBREC" THEN [@ EXCEPT !.next = "PUBCOMP"] ELSE @]
     /\ Complete(id)
     /\ Send(Ack("PUBREL", id))
  /\ UNCHANGED <<inboundMsgs, received, direct, requests, broker, losses>>

\* MQTTProtocol_handlePubrecs: PUBREL is sent under all circumstances.
HandlePubrecs ==
  /\ Take("PUBREC")
  /\ LET id == Head(toClient).id IN
     /\ outboundMsgs' = [outboundMsgs EXCEPT
          ![id] = IF @.qos = 2 /\ @.next = "PUBREC" THEN [@ EXCEPT !.next = "PUBCOMP"] ELSE @]
     /\ Send(Ack("PUBREL", id))
  /\ UNCHANGED <<inboundMsgs, received, responses, completed, direct, requests, broker,
                 losses>>

\* MQTTProtocol_handlePubcomps.
HandlePubcomps ==
  /\ Take("PUBCOMP")
  /\ LET id == Head(toClient).id IN
     /\ outboundMsgs' = [outboundMsgs EXCEPT
          ![id] = IF @.qos = 2 /\ @.next = "PUBCOMP" THEN Free ELSE @]
     /\ Complete(id)
  /\ UNCHANGED <<socket, inboundMsgs, received, direct, requests, broker, losses>>

Receive ==
  HandlePublishes \/ HandlePubrels \/ HandlePubacks \/ HandlePubrecs \/ HandlePubcomps

-----------------------------------------------------------------------------
(* Publications of our own *)

\* The id belongs to a command, an exchange or a response.
InUse(id) ==
  \/ \E k \in 1 .. Len(commands) : commands[k].id = id
  \/ outboundMsgs[id] # Free
  \/ responses[id] # 0

\* The k-th id looked at by MQTTAsync_assignMsgId, which gives up where it began.
Tried(k) == ((msgID + k - 1) % MaxMsgId) + 1
Usable == {k \in 1 .. MaxMsgId : (k = 1 \/ Tried(k) # msgID) /\ ~InUse(Tried(k))}

\* MQTTAsync_send: the command is queued; if it is to be acknowledged it gets
\* an id, without which it is refused.
SendMessage(qos) ==
  /\ outs < MaxOut
  /\ \/ /\ qos = 0
        /\ commands' = Append(commands, Publish(0, outs + 1, 0))
        /\ UNCHANGED msgID
     \/ /\ qos > 0
        /\ Usable # {}
        /\ LET id == Tried(CHOOSE k \in Usable : \A j \in Usable : k <= j) IN
           /\ commands' = Append(commands, Publish(id, outs + 1, qos))
           /\ msgID' = id
  /\ outs' = outs + 1
  /\ askedQos' = [m \in 1 .. outs + 1 |-> IF m = outs + 1 THEN qos ELSE askedQos[m]]
  /\ UNCHANGED <<toClient, ready, socket, inboundMsgs, received, outbound, broker, losses>>

\* The first command is taken and its packet written, if the socket takes it.
TakeCommand ==
  /\ commands # <<>>
  /\ ~pending
  /\ Cardinality({id \in MsgId : outboundMsgs[id] # Free}) < MaxMsgId - 1
  /\ Write(Head(commands))
  /\ commands' = Tail(commands)

\* MQTTAsync_processCommand and MQTTProtocol_startPublish, for a publication
\* that is to be acknowledged.
StartPublish ==
  /\ TakeCommand
  /\ LET p == Head(commands) IN
     /\ p.qos > 0
     /\ outboundMsgs' = [outboundMsgs EXCEPT
          ![p.id] = [msg |-> p.msg, qos |-> p.qos,
                     next |-> IF p.qos = 1 THEN "PUBACK" ELSE "PUBREC"]]
     /\ responses' = [responses EXCEPT ![p.id] = p.msg]
  /\ UNCHANGED <<toClient, ready, inboundMsgs, received, completed, direct, msgID, outs,
                 askedQos, broker, losses>>

\* The same with QoS 0: reported complete at once, or, after a partial write,
\* flagged for writeComplete in the place of whatever was.
StartPublishQoS0 ==
  /\ TakeCommand
  /\ LET p == Head(commands) IN
     /\ p.qos = 0
     /\ IF pending'
        THEN /\ pendingWrite' = p.msg
             /\ unnumbered' = unnumbered \cup {p.msg}
             /\ UNCHANGED completed
        ELSE completed' = Append(completed, p.msg) /\ UNCHANGED <<unnumbered, pendingWrite>>
  /\ UNCHANGED <<toClient, ready, inboundMsgs, received, outboundMsgs, responses, finished, msgID,
                 outs, askedQos, broker, losses>>

-----------------------------------------------------------------------------
(* The broker *)

\* A message is forwarded.
Forward(qos) ==
  /\ ins < MaxIn
  /\ ins' = ins + 1
  /\ qosOf' = [m \in 1 .. ins + 1 |-> IF m = ins + 1 THEN qos ELSE qosOf[m]]
  /\ IF qos = 0
     THEN toClient' = Append(toClient, Publish(0, ins + 1, 0)) /\ UNCHANGED sending
     ELSE \E id \in MsgId :
            /\ sending[id] = Free /\ \A j \in 1 .. id - 1 : sending[j] # Free
            /\ toClient' = Append(toClient, Publish(id, ins + 1, qos))
            /\ sending' = [sending EXCEPT
                 ![id] = [msg |-> ins + 1, qos |-> qos,
                          next |-> IF qos = 1 THEN "PUBACK" ELSE "PUBREC"]]
  /\ UNCHANGED <<ready, socket, inboundMsgs, received, outbound, requests, stored, published, losses>>

\* The broker reads a packet that is completely written, and answers.
BrokerReads ==
  /\ Len(toBroker) > (IF pending THEN 1 ELSE 0)
  /\ toBroker' = Tail(toBroker)
  /\ LET p == Head(toBroker)
         Answer(type) == toClient' = Append(toClient, Ack(type, p.id))
     IN \/ /\ p.type = "PUBLISH" /\ p.qos = 0
           /\ published' = Append(published, p.msg)
           /\ UNCHANGED <<toClient, sending, stored>>
        \/ /\ p.type = "PUBLISH" /\ p.qos = 1
           /\ published' = Append(published, p.msg)
           /\ Answer("PUBACK")
           /\ UNCHANGED <<sending, stored>>
        \/ /\ p.type = "PUBLISH" /\ p.qos = 2
           /\ stored' = [stored EXCEPT ![p.id] = p.msg]
           /\ Answer("PUBREC")
           /\ UNCHANGED <<sending, published>>
        \/ /\ p.type = "PUBREL"
           /\ stored' = [stored EXCEPT ![p.id] = 0]
           /\ published' = IF stored[p.id] = 0 THEN published
                                               ELSE Append(published, stored[p.id])
           /\ Answer("PUBCOMP")
           /\ UNCHANGED sending
        \/ /\ p.type = "PUBREC"
           /\ sending' = [sending EXCEPT ![p.id] = IF @.next = "PUBREC"
                                                   THEN [@ EXCEPT !.next = "PUBCOMP"] ELSE @]
           /\ Answer("PUBREL")
           /\ UNCHANGED <<stored, published>>
        \/ /\ p.type \in {"PUBACK", "PUBCOMP"}
           /\ sending' = [sending EXCEPT ![p.id] = IF @.next = p.type THEN Free ELSE @]
           /\ UNCHANGED <<toClient, stored, published>>
  /\ UNCHANGED <<ready, pending, outboundQueue, dropped, partials, inboundMsgs, received,
                 outbound, requests, ins, qosOf, losses>>

-----------------------------------------------------------------------------

\* The connection is lost, and the next one belongs to a new client.
Lose ==
  /\ losses < MaxLosses
  /\ losses' = losses + 1
  /\ toClient' = <<>> /\ toBroker' = <<>>
  /\ ready' = FALSE /\ pending' = FALSE /\ outboundQueue' = <<>> /\ dropped' = {}
  /\ inboundMsgs' = [id \in MsgId |-> 0] /\ outboundMsgs' = [id \in MsgId |-> Free]
  /\ commands' = <<>> /\ responses' = [id \in MsgId |-> 0] /\ msgID' = 0
  /\ unnumbered' = {} /\ pendingWrite' = 0 /\ finished' = FALSE
  /\ sending' = [id \in MsgId |-> Free] /\ stored' = [id \in MsgId |-> 0]
  /\ UNCHANGED <<ins, outs, qosOf, askedQos, received, published, completed, partials>>

Next ==
  \/ ReadySocket \/ Receive \/ WriteAvailable \/ WriteComplete
  \/ StartPublish \/ StartPublishQoS0
  \/ BrokerReads \/ Lose
  \/ \E qos \in Qos : Forward(qos) \/ SendMessage(qos)

\* Paho's threads go on, the socket takes what is written, the broker reads.
Fairness ==
  /\ WF_vars(ReadySocket) /\ WF_vars(Receive) /\ WF_vars(WriteAvailable) /\ WF_vars(WriteComplete)
  /\ WF_vars(StartPublish \/ StartPublishQoS0)
  /\ WF_vars(BrokerReads)

Spec == Init /\ [][Next]_vars /\ Fairness

-----------------------------------------------------------------------------
(* Properties *)

InSeq(type, id, seq) == {k \in 1 .. Len(seq) : seq[k].type = type /\ seq[k].id = id}

\* How many packets of a type and an id are under way from us to the broker.
Outward(type, id) ==
  Cardinality(InSeq(type, id, outboundQueue)) + Cardinality(InSeq(type, id, toBroker))
Inward(type, id) == Cardinality(InSeq(type, id, toClient))

\* No acknowledgement is ever thrown away by writeAvailable, which empties the
\* queue though it stops at the first partial write: the receive thread reads
\* nothing while a write is pending, so that at most one has been queued.
NothingDropped == dropped = {} /\ Len(outboundQueue) <= 1

\* Every exchange goes on: of each one the broker waits for, exactly one packet
\* is under way or its message is stored where the next packet will find it;
\* what is stored is what the broker waits for.
InboundGoesOn ==
  \A id \in MsgId :
    LET e == sending[id]
        n == Inward("PUBLISH", id)
    IN /\ e.next = "none" =>
            n = 0 /\ inboundMsgs[id] = 0 /\ Inward("PUBREL", id) = 0
              /\ \A type \in {"PUBACK", "PUBREC", "PUBCOMP"} : Outward(type, id) = 0
       /\ e.next = "PUBACK" => n + Outward("PUBACK", id) = 1
       /\ e.next = "PUBREC" =>
            /\ n + Outward("PUBREC", id) = 1
            /\ inboundMsgs[id] = IF n = 1 THEN 0 ELSE e.msg
       /\ e.next = "PUBCOMP" =>
            /\ Inward("PUBREL", id) + Outward("PUBCOMP", id) = 1
            /\ inboundMsgs[id] = IF Inward("PUBREL", id) = 1 THEN e.msg ELSE 0

\* Messages of one quality of service are given to messageArrived in the order
\* in which the broker forwarded them, none of them twice.
ReceivedInOrder ==
  \A i, j \in 1 .. Len(received) :
    i < j /\ qosOf[received[i]] = qosOf[received[j]] => received[i] < received[j]

\* A publication of our own is published once and reported complete once: when
\* the broker has published it if it is to be acknowledged, and with QoS 0 when
\* a write of it has begun, which is all that can be said: writeComplete reports
\* what is flagged, though it may be another publication's write that has ended.
CompletedWhenPublished ==
  /\ \A i, j \in 1 .. Len(published) : i # j => published[i] # published[j]
  /\ \A i, j \in 1 .. Len(completed) : i # j => completed[i] # completed[j]
  /\ \A i \in 1 .. Len(completed) :
       IF askedQos[completed[i]] > 0
       THEN \E j \in 1 .. Len(published) : completed[i] = published[j]
       ELSE \A k \in 1 .. Len(commands) : commands[k].msg # completed[i]

\* The broker forgets a message only when messageArrived has had it.
ForgottenWhenReceived ==
  [][\A id \in MsgId :
       sending[id].msg # 0 /\ sending'[id].msg # sending[id].msg /\ losses' = losses
         => \E i \in 1 .. Len(received) : received[i] = sending[id].msg]_vars

\* Every exchange ends, in either direction, and every command is taken, though
\* acknowledgements and publications share one socket and wait for each other:
\* of the finitely many messages none is waited for again and again.  A QoS 0
\* publication whose flag is taken by the next is no exchange; its response
\* stays until the connection ends.
AtRest ==
  /\ \A id \in MsgId : sending[id] = Free /\ responses[id] = 0
  /\ commands = <<>>

ExchangesEnd == []<>AtRest

-----------------------------------------------------------------------------
(* What it amounts to *)

\* The publications of a sequence, and the QoS 2 messages stored.
PublicationsOf(seq) ==
  {[msg |-> seq[k].msg, qos |-> seq[k].qos] :
     k \in {j \in 1 .. Len(seq) : seq[j].type = "PUBLISH"}}
StoredIn(msgs) == {[msg |-> msgs[id], qos |-> 2] : id \in {j \in MsgId : msgs[j] # 0}}

\* What is still to be given to messageArrived, and what the broker waits for.
DueIn     == PublicationsOf(toClient) \cup StoredIn(inboundMsgs)
AwaitedIn == {sending[id].msg : id \in MsgId} \ {0}

\* What the broker has still to publish, and whose acknowledgement is awaited.
DueOut     == PublicationsOf(commands) \cup PublicationsOf(toBroker) \cup StoredIn(stored)
AwaitedOut == {commands[k].msg : k \in {j \in 1 .. Len(commands) : commands[j].qos > 0}}
                \cup ({responses[id] : id \in MsgId} \ {0})

Incoming == INSTANCE OrderedDelivery WITH
         sent <- ins, due <- DueIn, awaited <- AwaitedIn, delivered <- received
Outgoing == INSTANCE OrderedDelivery WITH
         sent <- outs, due <- DueOut, awaited <- AwaitedOut, delivered <- published

\* Each direction is an ordered delivery.
ImplementsDelivery == Incoming!Spec /\ Outgoing!Spec

=============================================================================
