---------------------------- MODULE MCTcpNetwork ----------------------------
(***************************************************************************)
(* TcpNetwork with an address for each node that is not its index.         *)
(***************************************************************************)
EXTENDS TcpNetwork

MCAddress == [n \in Nodes |-> 8080 + ((n + 1) % NumNodes)]

=============================================================================
