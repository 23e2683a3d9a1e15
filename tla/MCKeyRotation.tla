--------------------------- MODULE MCKeyRotation ---------------------------
(***************************************************************************)
(* KeyRotation and Telemetry for TLC.  Devices, accounts, passwords and    *)
(* salts are only ever compared with their like, so they may be permuted.  *)
(***************************************************************************)
EXTENDS Telemetry, TLC

Symmetry == Permutations(Devices) \cup Permutations(Accounts)
            \cup Permutations(Passwords) \cup Permutations(Salts)
=============================================================================
