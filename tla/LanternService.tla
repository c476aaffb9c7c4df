---------------------------- MODULE LanternService ----------------------------
(***************************************************************************)
(* What the installation promises those who send it messages, from the     *)
(* broker to the sky: of the messages the broker sends, those the display  *)
(* hears of become lanterns, in the order in which they were sent, each    *)
(* with the text and the image of its own message; what is not a lantern   *)
(* message becomes nothing.  A message may be missed, and the display may  *)
(* stop for good; nothing else keeps a message from being shown, and       *)
(* nothing is shown that was not sent.  There is no connection here, no    *)
(* thread, no queue and no request: MessageToLantern implements it.        *)
(***************************************************************************)
EXTENDS Naturals, Sequences

CONSTANT Forms   \* the messages, as in SpawnPipeline

VARIABLES
  sent,      \* the messages the broker has sent
  due,       \* those of them that are still to be shown, by their numbers
  shown,     \* the lanterns shown
  missed,    \* a message has been missed
  stopped    \* nothing will be shown any more

serviceVars == <<sent, due, shown, missed, stopped>>

Init == sent = <<>> /\ due = {} /\ shown = <<>> /\ missed = FALSE /\ stopped = FALSE

\* A message the display hears of, and one it misses.
Send(m) ==
  /\ sent' = Append(sent, m)
  /\ due' = IF m.lantern THEN due \cup {Len(sent) + 1} ELSE due
  /\ UNCHANGED <<shown, missed, stopped>>

Miss(m) ==
  /\ sent' = Append(sent, m)
  /\ missed' = TRUE
  /\ UNCHANGED <<due, shown, stopped>>

\* The lanterns the n-th message may become: its image may be unusable.
LanternsOf(n) ==
  [for:   {n},
   image: {0, IF sent[n].img THEN n ELSE 0},
   text:  {IF sent[n].text THEN n ELSE 0}]

\* The next message is shown.
Show(n) ==
  /\ ~stopped
  /\ n \in due /\ \A other \in due : n <= other
  /\ \E lantern \in LanternsOf(n) : shown' = Append(shown, lantern)
  /\ due' = due \ {n}
  /\ UNCHANGED <<sent, missed, stopped>>

Stop ==
  /\ stopped' = TRUE
  /\ UNCHANGED <<sent, due, shown, missed>>

Next ==
  \/ \E m \in Forms : Send(m) \/ Miss(m)
  \/ \E n \in due : Show(n)
  \/ Stop

Spec == Init /\ [][Next]_serviceVars
=============================================================================
