------------------------------- MODULE Trust -------------------------------
(***************************************************************************)
(* transport/discovery.rs, check_pin: trust on first use, the comparison   *)
(* of a verified identity key with the pin.                                *)
(***************************************************************************)
EXTENDS Optional

BugCheckPin(verified, pinned) ==
  IF pinned = None THEN "FirstContact" ELSE "Matches"

check_pin(verified, pinned) ==
  CASE pinned = None     -> "FirstContact"
    [] pinned = verified -> "Matches"
    [] OTHER             -> "Mismatch"
=============================================================================
