------------------------- MODULE MCMessageToLantern -------------------------
(* An instance of MessageToLantern for TLC. *)
EXTENDS MessageToLantern

\* A message with a picture, and one that is not a lantern message.
Pictured == [lantern |-> TRUE, pid |-> TRUE, text |-> TRUE, img |-> TRUE,
             callback |-> FALSE]
Foreign  == [Pictured EXCEPT !.lantern = FALSE]

MCForms            == {Pictured, Foreign}
MCImageOutcomes    == {"image", "bad_status", "no_response"}
MCCallbackOutcomes == {"answered"}
=============================================================================
