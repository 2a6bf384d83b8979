---------------------------- MODULE MCMotorLink ----------------------------
(* One client with a socket of its own and one drive command.              *)
EXTENDS MotorLink

CONSTANTS c1, forward

OneClient == {c1}

OwnSockets == [c \in Clients |-> c]

Commands == [c \in Clients |-> forward]
=============================================================================
