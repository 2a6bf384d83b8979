---------------------------- MODULE MotorSession ----------------------------
(***************************************************************************)
(* What the clients that keep one socket and one session open have in      *)
(* common: the numbers they give to their packets, the network, and the    *)
(* replies that wait to be read.                                           *)
(***************************************************************************)
EXTENDS MotorService

CONSTANTS Port, Session    \* the client's socket and session

VARIABLES
    sequence,           \* the number of its next packet
    packets, replies    \* under way to the service, and back

\* What sendto(encode_command(session, n, ...)) puts on the network.
Packet(n, cmd) == [src |-> Port, session |-> Session, sequence |-> n, cmd |-> cmd]
=============================================================================
