----------------------------- MODULE Telemetry -----------------------------
(***************************************************************************)
(* The device-admin group of crypto/mod.rs beside the password changes of  *)
(* KeyRotation.  A machine seals its telemetry to the group's public key   *)
(* while no admin is there; each admin has a copy of the group's secret,   *)
(* sealed to the personal key that its bundle wraps.  The server keeps     *)
(* both, and relays what it likes to whom it likes.                        *)
(***************************************************************************)
EXTENDS KeyRotation, SealedBox

CONSTANTS
  GroupSecrets, \* of the groups there are
  Ephemerals,   \* the senders' pairs
  Reports

ASSUME GroupAssumption == None \notin GroupSecrets \cup Reports

\* The copy of a group's secret that admin a is given.
Grant(ephemeral, a, group) == seal_to(ephemeral, public_key(a), group)

\* What a machine of a group sends.
Sent(ephemeral, group, report) == seal_to(ephemeral, public_key(group), report)

\* What the holder of an identity makes of a blob with the help of a grant.
Reads(identity, grant, blob) ==
  LET group == open_sealed(identity.private, grant) IN
  IF group = None THEN None ELSE open_sealed(group, blob)

\* An admin who signs in, whatever passwords and wraps have come and gone since
\* the grant was sealed, reads with its own grant what machines of that group
\* have sent, and nothing else: neither with the grant of another account, nor
\* what was sent to another group.
TelemetryReadable ==
  \A d \in Devices : At(d, "unlocked") =>
    \A a \in Accounts, g, h \in GroupSecrets, e, f \in Ephemerals, report \in Reports :
      Reads(call[d].identity, Grant(e, a, g), Sent(f, h, report)) =
        IF a = call[d].account /\ g = h THEN report ELSE None
=============================================================================
