------------------------------ MODULE MCClient ------------------------------
(***************************************************************************)
(* The client on a small instance: server s1 with accounts alice and bob,  *)
(* server s2 with carol.  The .cfg files choose the accounts, the callers, *)
(* the operations and the faults.                                          *)
(***************************************************************************)
EXTENDS ClientProperties, TLC

CONSTANTS s1, s2, alice, bob, carol

MCHome == [a \in Accounts |-> IF a = carol THEN s2 ELSE s1]

CallerSymmetry == Permutations(Callers)
=============================================================================
