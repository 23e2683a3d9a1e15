---------------------------- MODULE KeyRotation ----------------------------
(***************************************************************************)
(* change_password and sign_in from several devices of several accounts,   *)
(* against the password verifier and the key bundle the server keeps.      *)
(*                                                                         *)
(* Both calls hold the handle's mutex while they talk to the server, so a  *)
(* device makes one of them at a time.  What a device read of its vault    *)
(* before it took the mutex may be out of date by then (module Client): a  *)
(* call here starts with any account's Secret Key and any account's        *)
(* session.                                                                *)
(***************************************************************************)
EXTENDS Crypto, Naturals, FiniteSets

CONSTANTS
  Accounts,
  Devices,      \* client handles, each on its own device
  Passwords,
  Salts,
  Params,       \* cost parameters of the password leg
  DefaultParams, \* KdfParams::default()
  MaxDelayed    \* bound: requests that outlive their call at a time

ASSUME RotationAssumption ==
  DefaultParams \in Params /\ None \notin Accounts \cup Passwords

VARIABLES
  verifier,     \* the password the server accepts for each account
  bundle,       \* the wrapped key material the server keeps for each account
  call,         \* what each device is doing
  delayed       \* change requests whose caller has given up on them

vars == <<verifier, bundle, call, delayed>>

(***************************************************************************)
(* State.                                                                  *)
(***************************************************************************)

Keks == [password : Passwords, secret_key : Accounts, salt : Salts, params : Params]

Wraps == [master_key_wrapped : [key : Keks, plaintext : Accounts],
          kdf_salt : Salts, kdf_params : Params]

Bundles == [private_wrapped : [key : Accounts, plaintext : Accounts], wrap : Wraps]

Identities == [master_key : Accounts, private : Accounts]

\* ChangePasswordRequest, with the account its session token stands for.
Requests == [account : Accounts, current_password : Passwords,
             new_password : Passwords, wrap : Wraps]

\* The locals of a call: the session's account, what the user typed, the
\* Secret Key, then the request or the identity it has come to.
Idle == [pc |-> "idle", account |-> None, password |-> None, new |-> None,
         key |-> None, request |-> None, identity |-> None]

PCs == {"idle", "fetch", "sent", "login", "material", "unlocked"}

Calls == [pc : PCs, account : Option(Accounts), password : Option(Passwords),
          new : Option(Passwords), key : Option(Accounts),
          request : Option(Requests), identity : Option(Identities)]

Init ==
  /\ verifier \in [Accounts -> Passwords]
  /\ \E salt \in [Accounts -> Salts], params \in [Accounts -> Params] :
       bundle = [a \in Accounts |-> bootstrap_identity(a, verifier[a], salt[a], params[a])]
  /\ call = [d \in Devices |-> Idle]
  /\ delayed = {}

At(d, pc) == call[d].pc = pc

Return(d) == call' = [call EXCEPT ![d] = Idle]

(***************************************************************************)
(* The server.                                                             *)
(***************************************************************************)

\* ChangePassword: verifier and wrap change together, if the current password
\* is right.
Accepts(r) == verifier[r.account] = r.current_password

Change(r) ==
  /\ verifier' = [verifier EXCEPT ![r.account] = r.new_password]
  /\ bundle' = [bundle EXCEPT ![r.account].wrap = r.wrap]

(***************************************************************************)
(* change_password.                                                        *)
(***************************************************************************)

\* The Secret Key comes from the vault, the session from Inner.
BeginChange(d, a, current, new, key) ==
  /\ At(d, "idle")
  /\ call' = [call EXCEPT ![d] = [Idle EXCEPT !.pc = "fetch", !.account = a,
                                   !.password = current, !.new = new, !.key = key]]
  /\ UNCHANGED <<verifier, bundle, delayed>>

BugRequestOldPassword(k, identity, salt) ==
  [account |-> k.account, current_password |-> k.password, new_password |-> k.new,
   wrap |-> rewrap_master_key(identity.master_key, k.key, k.password, salt, DefaultParams)]

\* The request for a call whose bundle has opened.
ChangeRequest(k, identity, salt) ==
  [account |-> k.account, current_password |-> k.password, new_password |-> k.new,
   wrap |-> rewrap_master_key(identity.master_key, k.key, k.new, salt, DefaultParams)]

\* What the fetched bundle opens to with the secrets of the call.
Unlocked(d) == unlock_identity(bundle[call[d].account], call[d].password, call[d].key)

\* GetKeyMaterial; the bundle opens, and the re-wrap goes off under a fresh
\* salt.
SendChange(d, salt) ==
  /\ At(d, "fetch")
  /\ Unlocked(d) # None
  /\ call' = [call EXCEPT ![d].pc = "sent",
                          ![d].request = ChangeRequest(call[d], Unlocked(d), salt)]
  /\ UNCHANGED <<verifier, bundle, delayed>>

\* ... or it does not open: Crypto.
UnlockRejected(d) ==
  /\ call[d].pc \in {"fetch", "material"}
  /\ Unlocked(d) = None
  /\ Return(d)
  /\ UNCHANGED <<verifier, bundle, delayed>>

\* The server takes the request; the reply arrives, or the call fails without
\* it.
ChangeAccepted(d) ==
  /\ At(d, "sent")
  /\ Accepts(call[d].request)
  /\ Change(call[d].request)
  /\ Return(d)
  /\ UNCHANGED delayed

\* The server answers unauthenticated: Crypto.
ChangeRejected(d) ==
  /\ At(d, "sent")
  /\ ~ Accepts(call[d].request)
  /\ Return(d)
  /\ UNCHANGED <<verifier, bundle, delayed>>

\* The connection fails while the request is on its way: the call returns
\* Server, and the request may still arrive.
GiveUp(d) ==
  /\ At(d, "sent")
  /\ Cardinality(delayed) < MaxDelayed
  /\ delayed' = delayed \cup {call[d].request}
  /\ Return(d)
  /\ UNCHANGED <<verifier, bundle>>

DelayedArrives(r) ==
  /\ delayed' = delayed \ {r}
  /\ IF Accepts(r) THEN Change(r) ELSE UNCHANGED <<verifier, bundle>>
  /\ UNCHANGED call

DelayedLost(r) ==
  /\ delayed' = delayed \ {r}
  /\ UNCHANGED <<verifier, bundle, call>>

(***************************************************************************)
(* sign_in: Login and GetKeyMaterial are two RPCs.                         *)
(***************************************************************************)

BeginSignIn(d, a, password, key) ==
  /\ At(d, "idle")
  /\ call' = [call EXCEPT ![d] = [Idle EXCEPT !.pc = "login", !.account = a,
                                   !.password = password, !.key = key]]
  /\ UNCHANGED <<verifier, bundle, delayed>>

LoginAccepted(d) ==
  /\ At(d, "login")
  /\ verifier[call[d].account] = call[d].password
  /\ call' = [call EXCEPT ![d].pc = "material"]
  /\ UNCHANGED <<verifier, bundle, delayed>>

UnlockMaterial(d) ==
  /\ At(d, "material")
  /\ Unlocked(d) # None
  /\ call' = [call EXCEPT ![d].pc = "unlocked", ![d].identity = Unlocked(d)]
  /\ UNCHANGED <<verifier, bundle, delayed>>

\* The identity goes to the vault and to Inner.
SignedIn(d) ==
  /\ At(d, "unlocked")
  /\ Return(d)
  /\ UNCHANGED <<verifier, bundle, delayed>>

\* Login refused, or any wait for the network that fails before a request is
\* out: Server.
CallFails(d) ==
  /\ call[d].pc \in {"fetch", "login", "material"}
  /\ Return(d)
  /\ UNCHANGED <<verifier, bundle, delayed>>

(***************************************************************************)
(* The devices and the server.                                             *)
(***************************************************************************)

Begin(d) ==
  \E a, key \in Accounts, password \in Passwords :
    \/ BeginSignIn(d, a, password, key)
    \/ \E new \in Passwords : BeginChange(d, a, password, new, key)

Advance(d) ==
  \/ \E salt \in Salts : SendChange(d, salt)
  \/ UnlockRejected(d) \/ ChangeAccepted(d) \/ ChangeRejected(d) \/ GiveUp(d)
  \/ LoginAccepted(d) \/ UnlockMaterial(d) \/ SignedIn(d) \/ CallFails(d)

Next ==
  \/ \E d \in Devices : Begin(d) \/ Advance(d)
  \/ \E r \in delayed : DelayedArrives(r) \/ DelayedLost(r)

Spec == Init /\ [][Next]_vars

(***************************************************************************)
(* Properties.                                                             *)
(***************************************************************************)

\* Everything has its type, and a call has the locals its point reads.
TypeOK ==
  /\ verifier \in [Accounts -> Passwords]
  /\ bundle \in [Accounts -> Bundles]
  /\ call \in [Devices -> Calls]
  /\ delayed \subseteq Requests
  /\ \A d \in Devices : LET k == call[d] IN
       /\ k.pc \in {"fetch", "login", "material"} =>
            k.account \in Accounts /\ k.password \in Passwords /\ k.key \in Accounts
       /\ k.pc = "fetch" => k.new \in Passwords
       /\ k.pc = "sent" => k.request \in Requests
       /\ k.pc = "unlocked" => k.account \in Accounts /\ k.identity \in Identities

\* Whatever devices change the password at the same time, and however late a
\* request lands, each account's bundle opens with one pair of secrets: the
\* password the server accepts and the account's own, unchanged Secret Key.
\* It opens to the account's own keys.
OneCredential ==
  \A a \in Accounts :
    /\ unlock_identity(bundle[a], verifier[a], a) = [master_key |-> a, private |-> a]
    /\ \A password \in Passwords, key \in Accounts :
         unlock_identity(bundle[a], password, key) # None =>
           password = verifier[a] /\ key = a

\* The identity that sign_in caches belongs to the account it has a session
\* of, and so does the Secret Key it used, though Login and GetKeyMaterial are
\* two calls and the key may have been read for another account.  Module Client
\* takes this for granted.
SignInUnlocksOwn ==
  \A d \in Devices :
    At(d, "unlocked") =>
      /\ call[d].key = call[d].account
      /\ call[d].identity = [master_key |-> call[d].account, private |-> call[d].account]
=============================================================================
