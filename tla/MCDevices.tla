----------------------------- MODULE MCDevices -----------------------------
(***************************************************************************)
(* The client with its devices on a small instance: server s1 with         *)
(* accounts alice and bob, server s2 with carol.  Two key pairs are enough *)
(* for a device that another account enrols its own over, and for one that *)
(* stays without a key beside one that is held.                            *)
(***************************************************************************)
EXTENDS Devices, TLC

CONSTANTS s1, s2, alice, bob, carol

MCHome == [a \in Accounts |-> IF a = carol THEN s2 ELSE s1]

KeySymmetry == Permutations(Keys)
=============================================================================
