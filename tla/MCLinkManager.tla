--------------------------- MODULE MCLinkManager ---------------------------
(* LinkManager on small instances. *)
EXTENDS LinkManager, TLC

ConnSymmetry == Permutations(Conns)
=============================================================================
