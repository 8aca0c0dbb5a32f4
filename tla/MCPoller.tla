------------------------------ MODULE MCPoller ------------------------------
(* Poller on a small instance: descriptor 0, whose switched-off form is -1, *)
(* up to three slots at once, and a descriptor that two channels use one    *)
(* after the other.                                                         *)
EXTENDS Poller, TLC

CONSTANTS c1, c2, c3, c4

Descriptors == c1 :> 0 @@ c2 :> 1 @@ c3 :> 2 @@ c4 :> 1

Sharers == Permutations({c2, c4})
=============================================================================
