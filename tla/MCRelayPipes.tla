---------------------------- MODULE MCRelayPipes ----------------------------
(* RelayPipes on small instances: a laptop and a phone in one group, a pc  *)
(* and a tv in the other.                                                  *)
EXTENDS RelayPipes, TLC

CONSTANTS laptop, phone, pc, tv, home, work

TwoGroups == [d \in Devices |-> IF d \in {laptop, phone} THEN home ELSE work]

WireSymmetry == Permutations(Calls) \union Permutations(Answers)
=============================================================================
