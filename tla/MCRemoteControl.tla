-------------------------- MODULE MCRemoteControl --------------------------
(* RemoteControl with one key of every kind and a few presses and connections. *)
EXTENDS RemoteControl
=============================================================================
