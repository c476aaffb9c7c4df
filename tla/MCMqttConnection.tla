-------------------------- MODULE MCMqttConnection --------------------------
(* Instances of MqttConnection for TLC. *)
EXTENDS MqttConnection
=============================================================================
