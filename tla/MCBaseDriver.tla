---------------------------- MODULE MCBaseDriver ----------------------------
(* One binary drive command, one or two starts of the node.                *)
EXTENDS BaseDriver

CONSTANT forward

Ports == {"port"}

\* The worst case: a node that is started again gets the port again.
OnePort == [n \in 1..MAX_NODES |-> "port"]
=============================================================================
