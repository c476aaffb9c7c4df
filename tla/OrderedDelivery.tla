--------------------------- MODULE OrderedDelivery ---------------------------
(***************************************************************************)
(* What MQTT promises the two ends of a connection, for one direction of   *)
(* it: the messages sent are delivered, those of one quality of service in *)
(* the order in which they were sent, none of them twice and none of them  *)
(* passed over; of one that is to be acknowledged the sender learns the    *)
(* end, after its delivery; and only the loss of the connection takes away *)
(* what is still under way.  There are no packets, no ids, no queues and   *)
(* no threads: both directions of MessageDelivery are shown to implement   *)
(* it.                                                                     *)
(***************************************************************************)
EXTENDS Naturals, Sequences

CONSTANT Qos      \* the qualities of service, as in MessageDelivery

VARIABLES
  sent,       \* how many messages have been sent; they are numbered
  due,        \* those still to be delivered, with their quality of service
  awaited,    \* those whose end the sender waits for
  delivered,  \* the messages delivered
  losses      \* how often the connection has been lost

deliveryVars == <<sent, due, awaited, delivered, losses>>

Init == sent = 0 /\ due = {} /\ awaited = {} /\ delivered = <<>> /\ losses = 0

Send(qos) ==
  /\ sent' = sent + 1
  /\ due' = due \cup {[msg |-> sent + 1, qos |-> qos]}
  /\ awaited' = IF qos = 0 THEN awaited ELSE awaited \cup {sent + 1}
  /\ UNCHANGED <<delivered, losses>>

\* The next one of its quality of service.
Deliver(d) ==
  /\ d \in due
  /\ \A e \in due : e.qos = d.qos => d.msg <= e.msg
  /\ delivered' = Append(delivered, d.msg)
  /\ due' = due \ {d}
  /\ UNCHANGED <<sent, awaited, losses>>

\* The sender learns the end of a message that has been delivered.
Settle(m) ==
  /\ m \in awaited
  /\ \E k \in 1 .. Len(delivered) : delivered[k] = m
  /\ awaited' = awaited \ {m}
  /\ UNCHANGED <<sent, due, delivered, losses>>

Lose ==
  /\ losses' = losses + 1
  /\ due' = {} /\ awaited' = {}
  /\ UNCHANGED <<sent, delivered>>

Next ==
  \/ \E qos \in Qos : Send(qos)
  \/ \E d \in due : Deliver(d)
  \/ \E m \in awaited : Settle(m)
  \/ Lose

Spec == Init /\ [][Next]_deliveryVars
=============================================================================
