-------------------------------- MODULE Tofu --------------------------------
(***************************************************************************)
(* What the client promises of trust on first use, whatever its steps are: *)
(* from the first authenticated use of a server until the user forgets it, *)
(* the device is pinned to that server's identity, it connects to no       *)
(* other, and every session is a session of that server.                   *)
(***************************************************************************)
EXTENDS Optional

CONSTANTS Servers, Accounts, Home

VARIABLES
  pinned,       \* the pinned identity
  connected,    \* the verified server the client is connected to
  signedIn      \* the account of the live session

vars == <<pinned, connected, signedIn>>

Init == pinned = None /\ connected = None /\ signedIn = None

\* The trust check lets through a first contact or the pinned server.
Connect(s) ==
  /\ pinned \in {None, s}
  /\ connected' = s
  /\ UNCHANGED <<pinned, signedIn>>

\* Authenticating on a connected server pins it.
PinServer ==
  /\ connected # None
  /\ pinned \in {None, connected}
  /\ pinned' = connected
  /\ UNCHANGED <<connected, signedIn>>

SignIn(a) ==
  /\ connected = Home[a] /\ pinned = Home[a]
  /\ signedIn' = a
  /\ UNCHANGED <<pinned, connected>>

\* A cached session is resumed with the pinned server only.
Resume(a) ==
  /\ pinned = Home[a]
  /\ connected' = pinned
  /\ signedIn' = a
  /\ UNCHANGED pinned

\* Sign-out, or the end of the process: the pin stays.
Drop ==
  /\ connected' = None /\ signedIn' = None
  /\ UNCHANGED pinned

Forget == pinned' = None /\ connected' = None /\ signedIn' = None

Next ==
  \/ \E s \in Servers : Connect(s)
  \/ \E a \in Accounts : SignIn(a) \/ Resume(a)
  \/ PinServer \/ Drop \/ Forget

Spec == Init /\ [][Next]_vars
=============================================================================
