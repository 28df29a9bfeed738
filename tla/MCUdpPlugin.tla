---------------------------- MODULE MCUdpPlugin ----------------------------
(* UdpPlugin with messages of two fragments, and one that is unfragmented. *)
EXTENDS UdpPlugin, TLC

CONSTANT Small

MCFragments == [m \in Messages |-> IF m = Small THEN 1 ELSE 2]
MCSymmetry == Permutations(Messages \ {Small})
=============================================================================
