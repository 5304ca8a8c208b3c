-------------------------- MODULE MCRelayRegistry --------------------------
(* RelayRegistry on small instances. *)
EXTENDS RelayRegistry, TLC

DeviceSymmetry == Permutations(Devices) \union Permutations(Conns)
=============================================================================
