---------------------------- MODULE MCTcpServer -----------------------------
(* TcpServer with connections that share descriptors.  Connections and     *)
(* messages are alike in everything the specification says of them.        *)
EXTENDS TcpServer, TLC

Symmetry == Permutations(Conns) \cup Permutations(Messages)
=============================================================================
