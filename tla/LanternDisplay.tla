--------------------------- MODULE LanternDisplay ---------------------------
(***************************************************************************)
(* What the installation promises a visitor, and all of it: the accepted   *)
(* messages become lanterns one by one in the order they were accepted,    *)
(* each lantern with the text and the image of its own message, until,     *)
(* possibly, the display stops for good.  It has no queue, no requests, no *)
(* threads: SpawnPipeline is shown to implement it.                        *)
(***************************************************************************)
EXTENDS Naturals, Sequences

CONSTANT Forms   \* the messages, as in SpawnPipeline

VARIABLES
  accepted,   \* the messages accepted so far
  shown,      \* the lanterns shown so far
  stopped     \* nothing will be shown any more

displayVars == <<accepted, shown, stopped>>

Init == accepted = <<>> /\ shown = <<>> /\ stopped = FALSE

Accept(m) ==
  /\ accepted' = Append(accepted, m)
  /\ UNCHANGED <<shown, stopped>>

\* The lanterns the n-th message may become: its image may be unusable.
LanternsOf(n) ==
  [for:   {n},
   image: {0, IF accepted[n].img THEN n ELSE 0},
   text:  {IF accepted[n].text THEN n ELSE 0}]

Show ==
  /\ ~stopped
  /\ Len(shown) < Len(accepted)
  /\ \E lantern \in LanternsOf(Len(shown) + 1) : shown' = Append(shown, lantern)
  /\ UNCHANGED <<accepted, stopped>>

\* A failed image request or the death of the process; neither happens before
\* a first message.
Stop ==
  /\ accepted # <<>>
  /\ stopped' = TRUE
  /\ UNCHANGED <<accepted, shown>>

Next == (\E m \in Forms : Accept(m)) \/ Show \/ Stop

SafeSpec == Init /\ [][Next]_displayVars

Spec == SafeSpec /\ WF_displayVars(Show)
=============================================================================
