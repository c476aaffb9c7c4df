---------------------------- MODULE MCLanternSky ----------------------------
(* Instances of LanternSky for TLC. *)
EXTENDS LanternSky
=============================================================================
