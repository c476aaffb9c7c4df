---------------------------- MODULE MCInstallation ----------------------------
(* Instances of Installation for TLC. *)
EXTENDS Installation

Complete == [read |-> TRUE, any |-> TRUE, license |-> TRUE, window |-> TRUE, actors |-> TRUE,
             pawnType |-> {1}]
\* An empty file, or one of comments only.
Empty == [read |-> TRUE, any |-> FALSE, license |-> FALSE, window |-> FALSE,
          actors |-> FALSE, pawnType |-> {}]

\* A complete configuration, one for each thing that can be missing or wrong,
\* an empty file, and no file.
MCConfigs ==
  {Complete,
   [Complete EXCEPT !.license = FALSE],
   [Complete EXCEPT !.window = FALSE],
   [Complete EXCEPT !.actors = FALSE],
   [Complete EXCEPT !.pawnType = {}],
   [Complete EXCEPT !.pawnType = {2}],
   [Complete EXCEPT !.pawnType = {-1}],
   Empty,
   [Empty EXCEPT !.read = FALSE]}

\* Two types: a start for each, two for one, none that fits, a negative tag.
MCLevels == {<<0, 1>>, <<1, 0, 1>>, <<0, 2>>, <<-1>>}

MCResponses == {"true", "false", "no_response", "not_json"}
=============================================================================
