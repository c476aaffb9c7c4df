-------------------------- MODULE MCSpawnPipeline --------------------------
(***************************************************************************)
(* Instances of SpawnPipeline for TLC.                                     *)
(***************************************************************************)
EXTENDS SpawnPipeline

\* A full message, one without image or callback, the operator's message
\* with an empty body, and one that is not a lantern message.
Full    == [lantern |-> TRUE, pid |-> TRUE, text |-> TRUE, img |-> TRUE,
            callback |-> TRUE]
TextOnly == [Full EXCEPT !.img = FALSE, !.callback = FALSE]
Blank   == [lantern |-> TRUE, pid |-> FALSE, text |-> FALSE, img |-> FALSE,
            callback |-> FALSE]
Foreign == [Full EXCEPT !.lantern = FALSE]

AllForms  == {Full, TextOnly, Blank, Foreign}
FewForms  == {Full, TextOnly}
FullForms == {Full}

AllImageOutcomes    == SpawningOutcomes \cup SilentOutcomes \cup FatalOutcomes
AllCallbackOutcomes == {"answered"} \cup FatalOutcomes
ImageOnly           == {"image"}
Answered            == {"answered"}
=============================================================================
