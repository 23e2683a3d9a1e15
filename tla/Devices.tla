------------------------------ MODULE Devices ------------------------------
(***************************************************************************)
(* Device enrolment: the client composed with the device lists the servers *)
(* keep and with the key pairs it generates.  create_owner and             *)
(* enroll_this_device generate a pair, send the public key and then cache  *)
(* the secret: the server knows the device before the client can keep its  *)
(* key, and every fault of Client falls in between.                        *)
(*                                                                         *)
(* A step here is a step of Client and what it does to the devices, or a   *)
(* revocation made from another device.                                    *)
(***************************************************************************)
EXTENDS ClientProperties

CONSTANT Keys       \* device key pairs that are ever generated

ASSUME KeysAssumption == None \notin Keys

VARIABLES
  active,       \* the device records of the servers
  revoked,      \* those that have been revoked
  secret,       \* the key pair whose secret the vault's DEVICE_SECRET holds
  made,         \* the key pair each running call has generated
  told          \* that of the device the shell was last told it has enrolled

deviceVars == <<active, revoked, secret, made, told>>
dvars == <<vars, deviceVars>>

Devs == [key : Keys, account : Accounts]

Known == active \cup revoked

DeviceTypeOK ==
  /\ active \subseteq Devs /\ revoked \subseteq Devs
  /\ secret \in Option(Keys)
  /\ made \in [Callers -> Option(Keys)]
  /\ told \in Option(Keys)

DInit ==
  /\ Init
  /\ active = {} /\ revoked = {}
  /\ secret = None /\ told = None
  /\ made = [c \in Callers |-> None]

\* X25519 pairs come from the OS's randomness: no two are alike.
generate_device_keypair(k) == \A d \in Known : d.key # k

\* Account.RegisterDevice, and Account.Bootstrap with its first device.
Register(k, a) ==
  /\ active' = active \cup {[key |-> k, account |-> a]}
  /\ UNCHANGED <<revoked, secret, told>>

\* Account.RevokeDevice, over a session of account a: only its own devices.
Revoke(a, d) ==
  /\ d \in active /\ d.account = a
  /\ active' = active \ {d}
  /\ revoked' = revoked \cup {d}
  /\ UNCHANGED <<secret, told>>

\* A pair lives as long as the call that has generated it.
Dropped(m) == [c \in Callers |-> IF call'[c] = Idle THEN None ELSE m[c]]

(***************************************************************************)
(* Steps.                                                                  *)
(***************************************************************************)

\* enroll_new_owner, whether or not the reply arrives.
OwnerEnrolled(c, a, k) ==
  /\ BootstrapAccepted(c, a) \/ BootstrapReplyLost(c, a)
  /\ generate_device_keypair(k)
  /\ Register(k, a)
  /\ made' = Dropped([made EXCEPT ![c] = k])

\* enroll_this_device: the server has recorded the device and the reply
\* arrives, or is lost.
DeviceEnrolled(c, k) ==
  /\ \/ RegisterDevice(c)
     \/ "lost_reply" \in Faults /\ At(c, "register") /\ NetworkReturns(c)
  /\ generate_device_keypair(k)
  /\ Register(k, inner.session.token)
  /\ made' = Dropped([made EXCEPT ![c] = k])

BugDeviceSecret(c) == IF secret # None THEN secret ELSE made[c]

\* What set_device_secret is given.
DeviceSecret(c) == made[c]

\* persist reaches the DEVICE_SECRET entry.
OwnerCached(c) ==
  /\ Persist(c) /\ call[c].at = DEVICE_SECRET
  /\ secret' = DeviceSecret(c)
  /\ made' = Dropped(made)
  /\ UNCHANGED <<active, revoked, told>>

\* create_owner returns the Enrollment.
OwnerReported(c) ==
  /\ Authenticated(c) /\ Doing(c, "create_owner")
  /\ told' = made[c]
  /\ made' = Dropped(made)
  /\ UNCHANGED <<active, revoked, secret>>

\* enroll_this_device caches the secret and returns the DeviceInfo.
DeviceCached(c) ==
  /\ StoreDevice(c)
  /\ secret' = DeviceSecret(c)
  /\ told' = made[c]
  /\ made' = Dropped(made)
  /\ UNCHANGED <<active, revoked>>

\* forget_server reaches the DEVICE_SECRET entry.
SecretCleared(c) ==
  /\ Clear(c) /\ call[c].at = DEVICE_SECRET
  /\ secret' = None
  /\ made' = Dropped(made)
  /\ UNCHANGED <<active, revoked, told>>

\* revoke_device, whether or not the reply arrives.
revoke_device(c, d) ==
  /\ At(c, "rpc") /\ Doing(c, "account_call")
  /\ NetworkReturns(c)
  /\ Revoke(inner.session.token, d)
  /\ made' = Dropped(made)

\* Another device of the account revokes d.
RevokedElsewhere(d) ==
  /\ Revoke(d.account, d)
  /\ UNCHANGED <<vars, made>>

\* The steps that have nothing to do with devices.
OtherStep(c) ==
  \/ Begin(c) \/ TakeLock(c)
  \/ \E s \in Servers : ConnectDiscover(c, s) \/ RestoreRediscover(c, s)
  \/ \E a \in Accounts : Login(c, a)
  \/ NetworkReturns(c)
  \/ call[c].at # DEVICE_SECRET /\ (Persist(c) \/ Clear(c))
  \/ Authenticated(c) /\ ~ Doing(c, "create_owner")
  \/ SetAvatar(c) \/ RestoreReadToken(c) \/ StorageFails(c)

ElsewhereStep == (\E c \in Callers : OtherStep(c)) \/ Crash

DNext ==
  \/ \E c \in Callers, k \in Keys :
       DeviceEnrolled(c, k) \/ \E a \in Accounts : OwnerEnrolled(c, a, k)
  \/ \E c \in Callers :
       OwnerCached(c) \/ OwnerReported(c) \/ DeviceCached(c) \/ SecretCleared(c)
  \/ \E d \in active : RevokedElsewhere(d) \/ \E c \in Callers : revoke_device(c, d)
  \/ /\ ElsewhereStep
     /\ made' = Dropped(made)
     /\ UNCHANGED <<active, revoked, secret, told>>

DSpec == DInit /\ [][DNext]_dvars

(***************************************************************************)
(* Properties.                                                             *)
(***************************************************************************)

\* The device secret in the vault is always that of a device the server has
\* recorded, for the account that enrolled it, whichever account has signed
\* in, failed to sign in or enrolled since: no secret is cached for a device
\* the server has not heard of, and none is taken for another's.
SecretRegistered ==
  IF secret = None THEN vault[DEVICE_SECRET] = None
  ELSE [key |-> secret, account |-> vault[DEVICE_SECRET]] \in Known

\* An enrolment that reports success has its key: the device the shell is
\* told of when create_owner or enroll_this_device returns Ok is the one whose
\* secret the vault holds.  Only a call that has failed leaves behind a device
\* without a key.
EnrolledMeansHeld ==
  [][told' # told => told' # None /\ told' = secret' /\ (\E d \in Known' : d.key = told')]_dvars

Forgetting == \E c \in Callers : call[c].pc = "clear" /\ Doing(c, "forget_server")

\* Signing out, signing in to whichever account, restoring and failing keep
\* this machine enrolled: as long as its device is not revoked, its secret
\* leaves the vault only with forget_server, and only another enrolled
\* device's secret replaces it.
DeviceKept ==
  [][secret # None /\ secret' # secret /\ (\E d \in active' : d.key = secret) =>
       IF secret' = None THEN Forgetting
       ELSE \E d \in Known : d.key = secret']_dvars

\* What storage.rs says Vault::clear is for, beside forget_server: when
\* revoke_device has revoked this very device, the vault is empty.
RevokeWipesVault ==
  [][\A c \in Callers, d \in active :
       revoke_device(c, d) /\ d.key = secret => \A e \in Entries : vault'[e] = None]_dvars
=============================================================================
