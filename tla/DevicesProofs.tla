--------------------------- MODULE DevicesProofs ---------------------------
(***************************************************************************)
(* Proofs about device enrolment, for any accounts, callers, key pairs,    *)
(* operations and faults.                                                  *)
(***************************************************************************)
EXTENDS Devices, SerialProofs

USE DEF MASTER_KEY, SECRET_KEY, DEVICE_SECRET, SESSION_TOKEN, SERVER_PROFILE, Done

(***************************************************************************)
(* The inductive invariant: a call that is about to cache a secret has     *)
(* generated the pair of a device the server has recorded for the account  *)
(* the vault will name, and only a forget_server reaches the entry with a  *)
(* delete.                                                                 *)
(***************************************************************************)

\* What a call about to cache a secret has had recorded.
Recorded(c) ==
  /\ call[c].pc = "persist" /\ call[c].op = "create_owner" =>
       [key |-> made[c], account |-> call[c].user] \in Known
  /\ call[c].pc = "store_device" =>
       [key |-> made[c], account |-> inner.session.token] \in Known

\* Which calls reach the DEVICE_SECRET entry.
Reaches(c) ==
  /\ call[c].pc = "persist" /\ call[c].at = DEVICE_SECRET => call[c].op = "create_owner"
  /\ call[c].pc = "clear" =>
       \/ call[c].op = "forget_server"
       \/ call[c].op = "sign_out" /\ call[c].at \in {SESSION_TOKEN, MASTER_KEY}

DevicesInv ==
  /\ DeviceTypeOK
  /\ SecretRegistered
  /\ \A c \in Callers : Recorded(c)
  /\ \A c \in Callers : Reaches(c)

\* A call d that a step leaves able to cache a secret was already able to, and
\* the account it will name has not changed.
Kept(d) ==
  /\ call'[d].pc = "persist" /\ call'[d].op = "create_owner" =>
       call[d].pc = "persist" /\ call[d].op = "create_owner" /\ call'[d].user = call[d].user
  /\ call'[d].pc = "store_device" =>
       call[d].pc = "store_device" /\ inner'.session = inner.session

\* A call past the DEVICE_SECRET entry was already past it.
Onward(c) ==
  call'[c].pc = "persist" /\ call'[c].op = "create_owner"
    /\ call'[c].at \in {SERVER_PROFILE, Done} => call[c].at \in {SERVER_PROFILE, Done}

\* Kept, of every call but c.
KeptBut(c) == \A d \in Callers \ {c} : Kept(d)

LEMMA DevicesInitInv == DInit => DevicesInv
  BY DEF DInit, DevicesInv, DeviceTypeOK, SecretRegistered, Recorded, Reaches, Known, Option,
         Init, Idle, StorageInit, Entries

\* Every step of the composition is a step of the client, or leaves it.
LEMMA DevicesStepClient == [DNext]_dvars => [Next]_vars
<1>1. ASSUME NEW c \in Callers, NEW k \in Keys,
             DeviceEnrolled(c, k) \/ \E a \in Accounts : OwnerEnrolled(c, a, k)
      PROVE  Next
  BY <1>1 DEF DeviceEnrolled, OwnerEnrolled, Next, Advance
<1>2. ASSUME NEW c \in Callers,
             \/ OwnerCached(c) \/ OwnerReported(c) \/ DeviceCached(c) \/ SecretCleared(c)
             \/ \E d \in active : revoke_device(c, d)
             \/ OtherStep(c)
      PROVE  Next
  BY <1>2 DEF OwnerCached, OwnerReported, DeviceCached, SecretCleared, revoke_device,
              OtherStep, Next, Advance
<1>3. CASE \E d \in active : RevokedElsewhere(d)
  BY <1>3 DEF RevokedElsewhere
<1>4. CASE UNCHANGED dvars
  BY <1>4 DEF dvars
<1>5. CASE Crash
  BY <1>5 DEF Next
<1>6. QED
  BY <1>1, <1>2, <1>3, <1>4, <1>5 DEF DNext, ElsewhereStep

(***************************************************************************)
(* What the steps of the client do to the calls and to the vault's entry.  *)
(***************************************************************************)

\* A step that moves call c alone, and Inner only with the mutex in hand,
\* keeps the others.
LEMMA OthersKept ==
  ASSUME TypeOK, NEW c \in Callers,
         \A d \in Callers \ {c} : call'[d] = call[d],
         inner' = inner \/ lock \in {None, c}
  PROVE  KeptBut(c)
<1> SUFFICES ASSUME NEW d \in Callers \ {c} PROVE Kept(d)
  BY DEF KeptBut
<1>1. call[d].pc = "store_device" => lock = d
  BY DEF TypeOK, LockedPCs
<1>2. None \notin Callers
  BY NoneAssumption
<1>3. QED
  BY <1>1, <1>2 DEF Kept

\* Every step of one caller moves its own call alone.
LEMMA CallerSteps ==
  ASSUME TypeOK, NEW c \in Callers, Begin(c) \/ TakeLock(c) \/ Advance(c)
  PROVE  KeptBut(c) /\ \A d \in Callers \ {c} : call'[d] = call[d]
<1> USE DEF At, Start, Return, GoTo
<1>1. \A d \in Callers \ {c} : call'[d] = call[d]
  BY
     DEF TypeOK, Begin, TakeLock, Advance, ConnectReadPin, BeginLocked, ReadMasterKey,
         BeginClear,
         SignInResolve, RestoreReadProfile, ConnectInstall, Enter, EnterRejected, Reset, Resume,
         ConnectDiscover, RestoreRediscover, BootstrapAccepted, BootstrapReplyLost, Login,
         NetworkReturns, Persist, Authenticated, RegisterDevice, StoreDevice, SetAvatar, Clear,
         RestoreReadToken, StorageFails
<1>2. CASE Begin(c)
  BY <1>1, <1>2, OthersKept
     DEF Begin, ConnectReadPin, BeginLocked, ReadMasterKey, BeginClear, SignInResolve,
         RestoreReadProfile
<1>3. CASE TakeLock(c)
  BY <1>1, <1>3, OthersKept
     DEF TakeLock, ConnectInstall, Enter, EnterRejected, Reset, Resume, Free
<1>4. CASE Authenticated(c)
  <2>1. lock = c
    BY <1>4 DEF Authenticated, TypeOK, LockedPCs
  <2>2. QED
    BY <1>1, <2>1, OthersKept
<1>5. ASSUME Advance(c), ~ Authenticated(c) PROVE inner' = inner
  BY <1>5
     DEF Advance, ConnectDiscover, RestoreRediscover, BootstrapAccepted, BootstrapReplyLost, Login,
         NetworkReturns, Persist, RegisterDevice, StoreDevice, SetAvatar, Clear, RestoreReadToken,
         StorageFails
<1>6. QED
  BY <1>1, <1>2, <1>3, <1>4, <1>5, OthersKept

\* A step that has nothing to do with devices makes no call able to cache a
\* secret, and leaves the vault's entry.
LEMMA OtherStepKeeps ==
  ASSUME TypeOK, NEW c \in Callers, OtherStep(c), Reaches(c)
  PROVE  /\ \A d \in Callers : Kept(d)
         /\ Reaches(c)'
         /\ Onward(c)
         /\ vault'[DEVICE_SECRET] = vault[DEVICE_SECRET]
<1> USE DEF At, Doing, Start, Return, GoTo, Idle, Reaches, Kept, Onward
<1> DEFINE Goal == Kept(c) /\ Reaches(c)'
                   /\ Onward(c) /\ vault'[DEVICE_SECRET] = vault[DEVICE_SECRET]
<1>1. call \in [Callers -> Calls] /\ vault \in [Entries -> Option(Accounts \cup Profiles)]
  BY DEF TypeOK
<1>2. CASE Begin(c)
  <2>1. ASSUME NEW op \in Ops, BeginClear(c, op) PROVE Goal
    BY <1>1, <2>1 DEF BeginClear, ClearFirst
  <2>2. ASSUME ConnectReadPin(c) \/ RestoreReadProfile(c) \/ (\E typed \in Option(Accounts) : SignInResolve(c, typed))
               \/ (\E op \in Ops : BeginLocked(c, op) \/ ReadMasterKey(c, op))
        PROVE  Goal
    <3>1. vault' = vault
      BY <2>2 DEF ConnectReadPin, RestoreReadProfile, SignInResolve, BeginLocked, ReadMasterKey
    <3>2. call'[c].pc \in {"discover", "read_token", "enter"}
      BY <1>1, <2>2
         DEF ConnectReadPin, RestoreReadProfile, SignInResolve, BeginLocked, ReadMasterKey
    <3>3. QED
      BY <3>1, <3>2
  <2>3. QED
    BY <1>2, <2>1, <2>2, CallerSteps DEF Begin, KeptBut
<1>3. CASE TakeLock(c)
  <2>1. ASSUME Enter(c) PROVE Goal
    BY <1>1, <2>1 DEF Enter, RpcOf
  <2>2. ASSUME ConnectInstall(c) \/ EnterRejected(c) \/ Reset(c) \/ Resume(c) PROVE Goal
    BY <1>1, <2>2 DEF ConnectInstall, EnterRejected, Reset, Resume
  <2>3. QED
    BY <1>3, <2>1, <2>2, CallerSteps DEF TakeLock, KeptBut
<1>4. ASSUME NEW a \in Accounts, Login(c, a) PROVE Goal
  <2>1. call[c].op = "sign_in"
    BY <1>4 DEF Login, TypeOK, CallOK
  <2>2. QED
    BY <1>1, <1>4, <2>1 DEF Login
<1>5. ASSUME Persist(c), call[c].at # DEVICE_SECRET PROVE Goal
  <2>1. call[c].at \in Entries
    BY <1>5, ToCacheType DEF Persist
  <2>2. /\ PersistNext(call[c].op, call[c].at) = DEVICE_SECRET => call[c].op = "create_owner"
        /\ PersistNext("create_owner", call[c].at) \in {SERVER_PROFILE, Done} =>
             call[c].at \in {SERVER_PROFILE, Done}
    BY <1>5, <2>1 DEF PersistNext, Entries
  <2>3. vault'[DEVICE_SECRET] = vault[DEVICE_SECRET]
    BY <1>1, <1>5 DEF Persist, SetEntry, Entries
  <2>4. /\ call'[c].pc = call[c].pc /\ call'[c].op = call[c].op /\ call'[c].user = call[c].user
        /\ call'[c].at = PersistNext(call[c].op, call[c].at)
        /\ inner' = inner
    BY <1>1, <1>5 DEF Persist, Calls
  <2>5. QED
    BY <1>5, <2>2, <2>3, <2>4 DEF Persist
<1>6. ASSUME Clear(c), call[c].at # DEVICE_SECRET PROVE Goal
  <2>1. vault'[DEVICE_SECRET] = vault[DEVICE_SECRET]
    BY <1>1, <1>6 DEF Clear, DeleteEntry, Entries
  <2>2. call[c].op # "forget_server" =>
          call[c].op = "sign_out" /\ call[c].at \in {SESSION_TOKEN, MASTER_KEY}
    BY <1>6 DEF Clear
  <2>3. call[c].op = "sign_out" =>
          ClearNext(call[c].op, call[c].at) \in {MASTER_KEY, Done}
    BY DEF ClearNext, clear_session
  <2>4. /\ call'[c].pc \in {"clear", "reset"} /\ call'[c].op = call[c].op
        /\ call'[c].pc = "clear" => /\ call'[c].at = ClearNext(call[c].op, call[c].at)
                                   /\ call'[c].at # Done
    BY <1>1, <1>6 DEF Clear, Calls
  <2>5. QED
    BY <2>1, <2>2, <2>3, <2>4
<1>7. ASSUME \/ \E s \in Servers : ConnectDiscover(c, s) \/ RestoreRediscover(c, s)
             \/ NetworkReturns(c) \/ Authenticated(c) \/ SetAvatar(c)
             \/ RestoreReadToken(c) \/ StorageFails(c)
      PROVE  Goal
  <2>1. vault' = vault
    BY <1>7 DEF ConnectDiscover, RestoreRediscover, NetworkReturns, Authenticated, SetAvatar,
                RestoreReadToken, StorageFails
  <2>2. call'[c].pc \notin {"persist", "store_device", "clear"}
    <3>1. ASSUME NEW s \in Servers, ConnectDiscover(c, s) \/ RestoreRediscover(c, s)
          PROVE  call'[c].pc \in {"install", "resume"}
      BY <1>1, <3>1 DEF ConnectDiscover, RestoreRediscover, Calls
    <3>2. ASSUME RestoreReadToken(c) PROVE call'[c].pc \in {"idle", "rediscover"}
      BY <1>1, <3>2 DEF RestoreReadToken, Calls
    <3>3. ASSUME NetworkReturns(c) \/ Authenticated(c) \/ SetAvatar(c) \/ StorageFails(c)
          PROVE  call'[c].pc = "idle"
      BY <1>1, <3>3 DEF NetworkReturns, Authenticated, SetAvatar, StorageFails
    <3>4. QED
      BY <1>7, <3>1, <3>2, <3>3
  <2>3. QED
    BY <2>1, <2>2
<1>8. Begin(c) \/ TakeLock(c) \/ Advance(c)
  BY DEF OtherStep, Advance
<1>9. KeptBut(c)
  BY <1>8, CallerSteps
<1>10. QED
  BY <1>2, <1>3, <1>4, <1>5, <1>6, <1>7, <1>9 DEF OtherStep, KeptBut

(***************************************************************************)
(* The invariant is preserved.                                             *)
(***************************************************************************)

\* The generated pairs that survive a step.
LEMMA DroppedType ==
  ASSUME NEW m \in [Callers -> Option(Keys)]
  PROVE  /\ Dropped(m) \in [Callers -> Option(Keys)]
         /\ \A d \in Callers : call'[d] # Idle => Dropped(m)[d] = m[d]
  BY DEF Dropped, Option

\* A step that moves call c alone keeps what the others have had recorded.
LEMMA OthersRecorded ==
  ASSUME DevicesInv, NEW c \in Callers, KeptBut(c),
         \A d \in Callers \ {c} : call'[d] = call[d] /\ (call'[d] # Idle => made'[d] = made[d]),
         Known \subseteq Known'
  PROVE  \A d \in Callers \ {c} : Recorded(d)' /\ Reaches(d)'
<1> SUFFICES ASSUME NEW d \in Callers \ {c} PROVE Recorded(d)' /\ Reaches(d)'
  OBVIOUS
<1>1. Recorded(d) /\ Reaches(d) /\ Kept(d)
  BY DEF DevicesInv, KeptBut
<1>2. Reaches(d)'
  BY <1>1 DEF Reaches
<1>3. call'[d].pc \in {"persist", "store_device"} => made'[d] = made[d]
  BY DEF Idle
<1>4. Recorded(d)'
  BY <1>1, <1>3 DEF Recorded, Kept
<1>5. QED
  BY <1>2, <1>4

\* An enrolment the server has recorded.
LEMMA RecordStep ==
  ASSUME TypeOK, DevicesInv, NEW c \in Callers, NEW k \in Keys,
         DeviceEnrolled(c, k) \/ \E a \in Accounts : OwnerEnrolled(c, a, k)
  PROVE  DevicesInv'
<1>1. PICK a \in Accounts : Register(k, a) /\ (DeviceEnrolled(c, k) => a = inner.session.token)
                            /\ (DeviceEnrolled(c, k) \/ OwnerEnrolled(c, a, k))
  BY DEF DeviceEnrolled, OwnerEnrolled, TypeOK, CallOK, Sessions, RegisterDevice, At
<1> DEFINE m == [made EXCEPT ![c] = k]
<1>2. m \in [Callers -> Option(Keys)] /\ made' = Dropped(m)
  BY DEF DevicesInv, DeviceTypeOK, Option, DeviceEnrolled, OwnerEnrolled
<1>3. /\ made' \in [Callers -> Option(Keys)]
      /\ \A d \in Callers \ {c} : call'[d] # Idle => made'[d] = made[d]
      /\ call'[c] # Idle => made'[c] = k
  BY <1>2, DroppedType DEF DevicesInv, DeviceTypeOK
<1>4. Advance(c)
  BY DEF DeviceEnrolled, OwnerEnrolled, Advance
<1>5. KeptBut(c) /\ \A d \in Callers \ {c} : call'[d] = call[d]
  BY <1>4, CallerSteps
<1>6. /\ Known \subseteq Known' /\ [key |-> k, account |-> a] \in Known'
      /\ secret' = secret /\ told' = told /\ revoked' = revoked
      /\ active' = active \cup {[key |-> k, account |-> a]}
  BY <1>1 DEF Register, Known
<1>7. vault' = vault
  BY DEF DeviceEnrolled, OwnerEnrolled, BootstrapAccepted, BootstrapReplyLost, RegisterDevice,
         NetworkReturns
<1>8. DeviceTypeOK'
  BY <1>3, <1>6 DEF DevicesInv, DeviceTypeOK, Devs
<1>9. SecretRegistered'
  BY <1>6, <1>7 DEF DevicesInv, SecretRegistered
<1>10. Recorded(c)' /\ Reaches(c)'
  <2>1. CASE call'[c] = Idle
    BY <2>1 DEF Idle, Recorded, Reaches
  <2>2. CASE call'[c] # Idle /\ OwnerEnrolled(c, a, k)
    <3>1. /\ call'[c].pc = "persist" /\ call'[c].user = a /\ call'[c].at = MASTER_KEY
      <4>1. call \in [Callers -> Calls]
        BY DEF TypeOK
      <4>2. BootstrapAccepted(c, a)
        BY <2>2, <4>1 DEF OwnerEnrolled, BootstrapReplyLost, Return
      <4>3. QED
        BY <4>1, <4>2 DEF BootstrapAccepted, Calls
    <3>2. QED
      BY <1>3, <1>6, <2>2, <3>1 DEF Recorded, Reaches
  <2>3. CASE call'[c] # Idle /\ DeviceEnrolled(c, k)
    <3>1. call'[c].pc = "store_device" /\ inner' = inner
      BY <2>3 DEF DeviceEnrolled, RegisterDevice, NetworkReturns, Return, GoTo, TypeOK, Calls
    <3>2. QED
      BY <1>1, <1>3, <1>6, <2>3, <3>1 DEF Recorded, Reaches
  <2>4. QED
    BY <1>1, <2>1, <2>2, <2>3
<1>11. \A d \in Callers \ {c} : Recorded(d)' /\ Reaches(d)'
  BY <1>3, <1>5, <1>6, OthersRecorded
<1>12. QED
  BY <1>8, <1>9, <1>10, <1>11 DEF DevicesInv

\* A step of caller c that generates no pair: what it must show of its own.
LEMMA PlainStep ==
  ASSUME TypeOK, DevicesInv, NEW c \in Callers,
         KeptBut(c), \A d \in Callers \ {c} : call'[d] = call[d],
         made' = Dropped(made),
         active' \subseteq Devs, revoked' \subseteq Devs, Known \subseteq Known',
         secret' \in Option(Keys), told' \in Option(Keys), SecretRegistered',
         Kept(c), Reaches(c)'
  PROVE  DevicesInv'
<1>1. /\ made' \in [Callers -> Option(Keys)]
      /\ \A d \in Callers : call'[d] # Idle => made'[d] = made[d]
  BY DroppedType DEF DevicesInv, DeviceTypeOK
<1>2. DeviceTypeOK'
  BY <1>1 DEF DeviceTypeOK
<1>3. \A d \in Callers \ {c} : Recorded(d)' /\ Reaches(d)'
  BY <1>1, OthersRecorded
<1>4. Recorded(c)'
  <2>1. call'[c].pc \in {"persist", "store_device"} => made'[c] = made[c]
    BY <1>1 DEF Idle
  <2>2. Recorded(c)
    BY DEF DevicesInv
  <2>3. QED
    BY <2>1, <2>2 DEF Recorded, Kept
<1>5. QED
  BY <1>2, <1>3, <1>4 DEF DevicesInv

\* The secret of a recorded device goes to the vault, with its account.
LEMMA CacheStep ==
  ASSUME TypeOK, DevicesInv, NEW c \in Callers, OwnerCached(c) \/ DeviceCached(c)
  PROVE  /\ DevicesInv'
         /\ secret' = made[c] /\ made[c] \in Keys
         /\ \E d \in Known : d.key = made[c]
<1> DEFINE a == IF OwnerCached(c) THEN call[c].user ELSE inner.session.token
<1>1. Recorded(c) /\ Reaches(c) /\ DeviceTypeOK
  BY DEF DevicesInv
<1>2. vault'[DEVICE_SECRET] = a
  <2>1. CASE OwnerCached(c)
    BY <2>1 DEF OwnerCached, Persist, SetEntry, ToCache, TypeOK, Entries
  <2>2. CASE DeviceCached(c) /\ ~ OwnerCached(c)
    BY <2>2 DEF DeviceCached, StoreDevice, SetEntry, TypeOK, Entries
  <2>3. QED
    BY <2>1, <2>2
<1>3. [key |-> made[c], account |-> a] \in Known
  BY <1>1 DEF OwnerCached, DeviceCached, Recorded, Reaches, Persist, StoreDevice, At
<1>4. made[c] \in Keys
  BY <1>1, <1>3 DEF DeviceTypeOK, Devs, Known
<1>5. /\ secret' = made[c] /\ made' = Dropped(made)
      /\ active' = active /\ revoked' = revoked
      /\ told' \in Option(Keys)
  BY <1>1, <1>4 DEF OwnerCached, DeviceCached, DeviceSecret, DeviceTypeOK, Option
<1>6. SecretRegistered'
  BY <1>2, <1>3, <1>4, <1>5, KeysAssumption DEF SecretRegistered, Known
<1>7. Advance(c)
  BY DEF OwnerCached, DeviceCached, Advance
<1>8. KeptBut(c) /\ \A d \in Callers \ {c} : call'[d] = call[d]
  BY <1>7, CallerSteps
<1>9. Kept(c) /\ Reaches(c)'
  <2>1. CASE OwnerCached(c)
    <3>1. /\ call'[c].pc = "persist" /\ call[c].pc = "persist"
          /\ call'[c].op = call[c].op /\ call'[c].user = call[c].user
          /\ call'[c].at = PersistNext(call[c].op, DEVICE_SECRET)
      BY <2>1 DEF OwnerCached, Persist, At, TypeOK, Calls
    <3>2. QED
      BY <3>1 DEF Kept, Reaches, PersistNext
  <2>2. CASE DeviceCached(c)
    BY <2>2 DEF DeviceCached, StoreDevice, Return, TypeOK, Idle, Kept, Reaches
  <2>3. QED
    BY <2>1, <2>2
<1>10. DevicesInv'
  BY <1>1, <1>4, <1>5, <1>6, <1>8, <1>9, PlainStep DEF DeviceTypeOK, Option, Known
<1>11. QED
  BY <1>3, <1>4, <1>5, <1>10

LEMMA NextDevicesInv == TypeOK /\ DevicesInv /\ [DNext]_dvars => DevicesInv'
<1> SUFFICES ASSUME TypeOK, DevicesInv, [DNext]_dvars PROVE DevicesInv'
  OBVIOUS
<1>1. ASSUME NEW c \in Callers, NEW k \in Keys,
             DeviceEnrolled(c, k) \/ \E a \in Accounts : OwnerEnrolled(c, a, k)
      PROVE  DevicesInv'
  BY <1>1, RecordStep
<1>2. ASSUME NEW c \in Callers, OwnerCached(c) \/ DeviceCached(c) PROVE DevicesInv'
  BY <1>2, CacheStep
<1>3. ASSUME NEW c \in Callers, OwnerReported(c) PROVE DevicesInv'
  <2>1. Advance(c)
    BY <1>3 DEF OwnerReported, Advance
  <2>2. call' = [call EXCEPT ![c] = Idle] /\ vault' = vault
    BY <1>3 DEF OwnerReported, Authenticated, Return
  <2>3. Kept(c) /\ Reaches(c)'
    BY <2>2 DEF Kept, Reaches, Idle, TypeOK
  <2>4. /\ made' = Dropped(made) /\ told' = made[c]
        /\ active' = active /\ revoked' = revoked /\ secret' = secret
    BY <1>3 DEF OwnerReported
  <2>5. SecretRegistered'
    BY <2>2, <2>4 DEF DevicesInv, SecretRegistered, Known
  <2>6. QED
    BY <2>1, <2>3, <2>4, <2>5, CallerSteps, PlainStep DEF DevicesInv, DeviceTypeOK, Known
<1>4. ASSUME NEW c \in Callers, SecretCleared(c) PROVE DevicesInv'
  <2>1. Advance(c)
    BY <1>4 DEF SecretCleared, Advance
  <2>2. Reaches(c) /\ call[c].pc = "clear" /\ call[c].at = DEVICE_SECRET
    BY <1>4 DEF SecretCleared, Clear, At, DevicesInv
  <2>3. call'[c].pc \in {"clear", "reset"} /\ call'[c].op = call[c].op
    BY <1>4 DEF SecretCleared, Clear, TypeOK, Calls
  <2>4. Kept(c) /\ Reaches(c)'
    BY <2>2, <2>3 DEF Kept, Reaches
  <2>5. /\ made' = Dropped(made) /\ told' = told
        /\ active' = active /\ revoked' = revoked /\ secret' = None
    BY <1>4 DEF SecretCleared
  <2>6. vault'[DEVICE_SECRET] = None
    BY <1>4 DEF SecretCleared, Clear, DeleteEntry, TypeOK, Entries
  <2>7. SecretRegistered'
    BY <2>5, <2>6 DEF SecretRegistered
  <2>8. QED
    BY <2>1, <2>4, <2>5, <2>7, CallerSteps, PlainStep
       DEF DevicesInv, DeviceTypeOK, Known, Option
<1>5. ASSUME NEW c \in Callers, NEW d \in active, revoke_device(c, d) PROVE DevicesInv'
  <2>1. Advance(c)
    BY <1>5 DEF revoke_device, Advance
  <2>2. call' = [call EXCEPT ![c] = Idle] /\ vault' = vault
    BY <1>5 DEF revoke_device, NetworkReturns, Return
  <2>3. Kept(c) /\ Reaches(c)'
    BY <2>2 DEF Kept, Reaches, Idle, TypeOK
  <2>4. /\ made' = Dropped(made) /\ told' = told /\ secret' = secret
        /\ active' \subseteq active /\ revoked' \subseteq Known /\ Known \subseteq Known'
    BY <1>5 DEF revoke_device, Revoke, Known
  <2>5. SecretRegistered'
    BY <2>2, <2>4 DEF DevicesInv, SecretRegistered
  <2>6. QED
    BY <2>1, <2>3, <2>4, <2>5, CallerSteps, PlainStep DEF DevicesInv, DeviceTypeOK, Known
<1>6. ASSUME NEW d \in active, RevokedElsewhere(d) PROVE DevicesInv'
  <2>1. /\ made' = made /\ told' = told /\ secret' = secret
        /\ active' \subseteq active /\ revoked' \subseteq Known /\ Known \subseteq Known'
        /\ vault' = vault /\ call' = call /\ inner' = inner
    BY <1>6 DEF RevokedElsewhere, Revoke, Known, vars, clientVars
  <2>2. DeviceTypeOK' /\ SecretRegistered'
    BY <2>1 DEF DevicesInv, DeviceTypeOK, SecretRegistered, Known
  <2>3. \A c \in Callers : Recorded(c)' /\ Reaches(c)'
    BY <2>1 DEF DevicesInv, Recorded, Reaches
  <2>4. QED
    BY <2>2, <2>3 DEF DevicesInv
<1>7. ASSUME NEW c \in Callers, OtherStep(c), made' = Dropped(made),
             UNCHANGED <<active, revoked, secret, told>>
      PROVE  DevicesInv'
  <2>1. Begin(c) \/ TakeLock(c) \/ Advance(c)
    BY <1>7 DEF OtherStep, Advance
  <2>2. Reaches(c)
    BY DEF DevicesInv
  <2>3. Kept(c) /\ Reaches(c)' /\ vault'[DEVICE_SECRET] = vault[DEVICE_SECRET]
    BY <1>7, <2>2, OtherStepKeeps
  <2>4. SecretRegistered'
    BY <1>7, <2>3 DEF DevicesInv, SecretRegistered, Known
  <2>5. QED
    BY <1>7, <2>1, <2>3, <2>4, CallerSteps, PlainStep DEF DevicesInv, DeviceTypeOK, Known
<1>8. ASSUME Crash, made' = Dropped(made), UNCHANGED <<active, revoked, secret, told>>
      PROVE  DevicesInv'
  <2>1. \A c \in Callers : call'[c].pc = "idle" /\ made'[c] = None
    BY <1>8 DEF Crash, Idle, Dropped
  <2>2. made' \in [Callers -> Option(Keys)]
    BY <1>8, DroppedType DEF DevicesInv, DeviceTypeOK
  <2>3. DeviceTypeOK' /\ SecretRegistered'
    BY <1>8, <2>2 DEF Crash, DevicesInv, DeviceTypeOK, SecretRegistered, Known
  <2>4. \A c \in Callers : Recorded(c)' /\ Reaches(c)'
    BY <2>1 DEF Recorded, Reaches
  <2>5. QED
    BY <2>3, <2>4 DEF DevicesInv
<1>9. ASSUME UNCHANGED dvars PROVE DevicesInv'
  <2>1. UNCHANGED <<active, revoked, secret, made, told, call, inner, vault>>
    BY <1>9 DEF dvars, deviceVars, vars, clientVars
  <2>2. DeviceTypeOK' /\ SecretRegistered'
    BY <2>1 DEF DevicesInv, DeviceTypeOK, SecretRegistered, Known
  <2>3. \A c \in Callers : Recorded(c)' /\ Reaches(c)'
    BY <2>1 DEF DevicesInv, Recorded, Reaches, Known
  <2>4. QED
    BY <2>2, <2>3 DEF DevicesInv
<1>10. QED
  BY <1>1, <1>2, <1>3, <1>4, <1>5, <1>6, <1>7, <1>8, <1>9 DEF DNext, ElsewhereStep

\* The composition with the servers' device lists is the client all the same:
\* registering, caching and revoking devices has no effect on any other state of
\* it, so what is proved of Client holds of Devices.
THEOREM DevicesImplementClient == DSpec => Spec
<1>1. DInit => Init
  BY DEF DInit
<1>2. QED
  BY <1>1, DevicesStepClient, PTL DEF DSpec, Spec

LEMMA DevicesInvariant == DSpec => [](TypeOK /\ DevicesInv)
<1>1. DInit => TypeOK /\ DevicesInv
  BY InitTypeOK, DevicesInitInv DEF DInit
<1>2. TypeOK /\ DevicesInv /\ [DNext]_dvars => (TypeOK /\ DevicesInv)'
  BY DevicesStepClient, NextTypeOK, NextDevicesInv
<1>3. QED
  BY <1>1, <1>2, PTL DEF DSpec

\* The device secret in the vault is that of a device the server has recorded
\* for the account it was enrolled in: enroll_this_device and create_owner
\* cache what they have registered, whatever runs beside them and fails.
THEOREM SecretAlwaysRegistered == DSpec => []SecretRegistered
<1>1. DevicesInv => SecretRegistered
  BY DEF DevicesInv
<1>2. QED
  BY <1>1, DevicesInvariant, PTL

\* Only forget_server takes the secret of a device that is not revoked out of
\* the vault, and only the secret of another recorded device replaces it.
THEOREM DeviceStays == DSpec => DeviceKept
<1> DEFINE A == secret # None /\ secret' # secret /\ (\E d \in active' : d.key = secret) =>
                  IF secret' = None THEN Forgetting ELSE \E d \in Known : d.key = secret'
<1>1. TypeOK /\ DevicesInv /\ [DNext]_dvars => [A]_dvars
  <2> SUFFICES ASSUME TypeOK, DevicesInv, DNext, secret' # secret PROVE A
    BY DEF dvars, deviceVars
  <2>1. ASSUME NEW c \in Callers, OwnerCached(c) \/ DeviceCached(c) PROVE A
    <3>1. secret' \in Keys /\ \E d \in Known : d.key = secret'
      BY <2>1, CacheStep
    <3>2. QED
      BY <3>1, KeysAssumption
  <2>2. ASSUME NEW c \in Callers, SecretCleared(c) PROVE A
    <3>1. call[c].pc = "clear" /\ call[c].at = DEVICE_SECRET /\ Reaches(c)
      BY <2>2 DEF SecretCleared, Clear, At, DevicesInv
    <3>2. Forgetting
      BY <3>1 DEF Reaches, Forgetting, Doing
    <3>3. QED
      BY <2>2, <3>2 DEF SecretCleared
  <2>3. QED
    BY <2>1, <2>2
       DEF DNext, DeviceEnrolled, OwnerEnrolled, Register, OwnerReported, RevokedElsewhere,
           revoke_device, Revoke
<1>2. QED
  BY <1>1, DevicesInvariant, PTL DEF DSpec, DeviceKept

(***************************************************************************)
(* A shell that makes one call at a time: with two, a forget_server can    *)
(* take the secret away between persist and the return of create_owner.    *)
(***************************************************************************)

\* A create_owner past the DEVICE_SECRET entry has its secret in the vault.
Held(c) ==
  call[c].pc = "persist" /\ call[c].op = "create_owner" /\ call[c].at \in {SERVER_PROFILE, Done} =>
    secret = made[c]

LEMMA NextHeld ==
  ASSUME Serial, TypeOK, DevicesInv, \A c \in Callers : Held(c), [DNext]_dvars
  PROVE  \A c \in Callers : Held(c)'
<1> SUFFICES ASSUME NEW c \in Callers PROVE Held(c)'
  OBVIOUS
<1>1. Callers = {c}
  BY DEF Serial
<1>2. Held(c) /\ Recorded(c) /\ Reaches(c)
  BY DEF DevicesInv
<1>3. ASSUME NEW k \in Keys, DeviceEnrolled(c, k) \/ \E a \in Accounts : OwnerEnrolled(c, a, k)
      PROVE  Held(c)'
  <2>1. call \in [Callers -> Calls]
    BY DEF TypeOK
  <2>2. ASSUME RegisterDevice(c) \/ NetworkReturns(c) \/ (\E a \in Accounts : BootstrapReplyLost(c, a))
        PROVE  call'[c].pc # "persist"
    BY <2>1, <2>2
       DEF RegisterDevice, NetworkReturns, BootstrapReplyLost, Return, GoTo, Idle, Calls
  <2>3. ASSUME NEW a \in Accounts, BootstrapAccepted(c, a) PROVE call'[c].at = MASTER_KEY
    BY <2>1, <2>3 DEF BootstrapAccepted, Calls
  <2>4. QED
    BY <1>3, <2>2, <2>3 DEF DeviceEnrolled, OwnerEnrolled, Held
<1>4. CASE OwnerCached(c)
  <2>1. call'[c] # Idle
    BY <1>4 DEF OwnerCached, Persist, At, Idle, TypeOK, Calls
  <2>2. made'[c] = made[c]
    BY <1>4, <2>1 DEF OwnerCached, Dropped
  <2>3. QED
    BY <1>4, <2>2 DEF OwnerCached, DeviceSecret, Held
<1>5. ASSUME \/ OwnerReported(c) \/ DeviceCached(c) \/ SecretCleared(c) \/ Crash
             \/ \E d \in active : revoke_device(c, d)
      PROVE  Held(c)'
  <2>1. call'[c].pc # "persist"
    BY <1>5
       DEF OwnerReported, Authenticated, DeviceCached, StoreDevice, SecretCleared, Clear,
           Crash,
                revoke_device, NetworkReturns, Return, Idle, TypeOK, Calls
  <2>2. QED
    BY <2>1 DEF Held
<1>6. ASSUME OtherStep(c), made' = Dropped(made), UNCHANGED <<active, revoked, secret, told>>
      PROVE  Held(c)'
  <2>1. Kept(c) /\ Onward(c)
    BY <1>2, <1>6, OtherStepKeeps
  <2>2. call'[c].pc = "persist" => made'[c] = made[c]
    BY <1>6 DEF Dropped, Idle
  <2>3. QED
    BY <1>2, <1>6, <2>1, <2>2 DEF Held, Kept, Onward
<1>7. ASSUME UNCHANGED <<call, secret, made>> PROVE Held(c)'
  BY <1>2, <1>7 DEF Held
<1>8. ASSUME UNCHANGED dvars \/ \E d \in active : RevokedElsewhere(d)
      PROVE  UNCHANGED <<call, secret, made>>
  BY <1>8 DEF dvars, deviceVars, vars, clientVars, RevokedElsewhere, Revoke
<1>9. QED
  BY <1>1, <1>3, <1>4, <1>5, <1>6, <1>7, <1>8 DEF DNext, ElsewhereStep

\* For a shell that makes one call at a time, under any faults, the device that
\* create_owner or enroll_this_device reports is the one whose secret the vault
\* holds when it returns, and the server knows it.
THEOREM EnrolledHeld == ASSUME Serial PROVE DSpec => EnrolledMeansHeld
<1> DEFINE A == told' # told =>
                  told' # None /\ told' = secret' /\ (\E d \in Known' : d.key = told')
           I == TypeOK /\ DevicesInv /\ \A c \in Callers : Held(c)
<1>1. DInit => I
  BY InitTypeOK, DevicesInitInv DEF DInit, Init, Held, Idle
<1>2. I /\ [DNext]_dvars => I'
  BY DevicesStepClient, NextTypeOK, NextDevicesInv, NextHeld
<1>3. I /\ [DNext]_dvars => [A]_dvars
  <2> SUFFICES ASSUME I, DNext, told' # told PROVE A
    BY DEF dvars, deviceVars
  <2>1. ASSUME NEW c \in Callers, DeviceCached(c) PROVE A
    <3>1. secret' = made[c] /\ made[c] \in Keys /\ \E d \in Known : d.key = made[c]
      BY <2>1, CacheStep
    <3>2. told' = made[c] /\ Known' = Known
      BY <2>1 DEF DeviceCached, Known
    <3>3. QED
      BY <3>1, <3>2, KeysAssumption
  <2>2. ASSUME NEW c \in Callers, OwnerReported(c) PROVE A
    <3>1. Held(c) /\ Recorded(c) /\ DeviceTypeOK
      BY DEF DevicesInv
    <3>2. /\ call[c].pc = "persist" /\ call[c].op = "create_owner" /\ call[c].at = Done
          /\ told' = made[c] /\ secret' = secret /\ Known' = Known
      BY <2>2 DEF OwnerReported, Authenticated, At, Doing, Known
    <3>3. [key |-> made[c], account |-> call[c].user] \in Known /\ secret = made[c]
      BY <3>1, <3>2 DEF Recorded, Held
    <3>4. made[c] \in Keys
      BY <3>1, <3>3 DEF DeviceTypeOK, Known, Devs
    <3>5. QED
      BY <3>2, <3>3, <3>4, KeysAssumption
  <2>3. QED
    BY <2>1, <2>2
       DEF DNext, DeviceEnrolled, OwnerEnrolled, Register, OwnerCached, SecretCleared,
           RevokedElsewhere, revoke_device, Revoke
<1>4. QED
  BY <1>1, <1>2, <1>3, PTL DEF DSpec, EnrolledMeansHeld
=============================================================================
