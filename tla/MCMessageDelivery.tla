-------------------------- MODULE MCMessageDelivery --------------------------
EXTENDS MessageDelivery

MCQos == 0 .. 2

\* A third publication of our own is there to use the id of the first again, for
\* the same quality of service; two are enough for what has no id.
ThirdAsFirst ==
  outs = 3 => askedQos[1] > 0 /\ askedQos[2] > 0 /\ askedQos[3] = askedQos[1]
=============================================================================
