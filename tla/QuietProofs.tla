----------------------------- MODULE QuietProofs -----------------------------
(***************************************************************************)
(* Proofs about a shell that makes one call at a time, when neither the    *)
(* keychain nor the process fails: memory and vault speak of one account,  *)
(* a return needs only the password, avatars are sealed under their        *)
(* account's own key, and restore reports whose session it has rebuilt.    *)
(***************************************************************************)
EXTENDS SerialProofs

USE DEF MASTER_KEY, SECRET_KEY, DEVICE_SECRET, SESSION_TOKEN, SERVER_PROFILE, Done

(***************************************************************************)
(* The inductive invariant.                                                *)
(***************************************************************************)

ProfileUser == IF vault[SERVER_PROFILE] = None THEN None ELSE vault[SERVER_PROFILE].user

\* The Secret Key is there with the profile and is its user's; the token is
\* there with the master key, and both are that user's.
VaultWhole ==
  /\ vault[SECRET_KEY] = ProfileUser
  /\ vault[MASTER_KEY] = vault[SESSION_TOKEN]
  /\ vault[SESSION_TOKEN] \in {None, ProfileUser}

\* The vault is whole but for a call that writes it entry by entry: persist has
\* put its account into the entries before the one it is at, and sign_out
\* leaves Secret Key and profile to each other.
VaultUnder(c) ==
  LET k == call[c]
      Holds(S) == \A e \in S : vault[e] = k.user
  IN
  /\ k.pc \notin {"persist", "clear"} => VaultWhole
  /\ k.pc = "clear" /\ k.op = "sign_out" => vault[SECRET_KEY] = ProfileUser
  /\ k.pc = "persist" =>
       /\ k.at # MASTER_KEY => Holds({MASTER_KEY})
       /\ k.at \notin {MASTER_KEY, SECRET_KEY} => Holds({SECRET_KEY})
       /\ k.at \notin {MASTER_KEY, SECRET_KEY, SESSION_TOKEN} => Holds({SESSION_TOKEN})
       /\ k.at = Done => ProfileUser = k.user

\* The session's token is the one in the vault, until a call that replaces or
\* drops the session has begun to write.
SessionCached(c) ==
  inner.session # None /\ call[c].pc \notin {"persist", "clear", "reset"} =>
    vault[SESSION_TOKEN] = inner.session.token

\* What a call has read of the vault is still there.
ReadsStand(c) ==
  LET k == call[c] IN
  /\ k.pc \in {"read_token", "rediscover", "resume"} => k.user = ProfileUser
  /\ k.pc \in {"rediscover", "resume"} => k.key = vault[SESSION_TOKEN]
  /\ k.pc \in {"enter", "rpc"} /\ k.op \in {"get_avatar", "set_avatar"} =>
       k.key = vault[MASTER_KEY]

\* The unlocked identity is that of the session.
IdentityOfSession ==
  /\ inner.session = None => inner.identity = None
  /\ inner.session # None => inner.identity \in {None, inner.session.token}

QuietInv ==
  /\ IdentityOfSession
  /\ AvatarUnderOwnKey
  /\ \A c \in Callers : VaultUnder(c) /\ SessionCached(c) /\ ReadsStand(c)

LEMMA InitQuietInv == Init => QuietInv
<1> SUFFICES ASSUME Init PROVE QuietInv
  OBVIOUS
<1>1. /\ \A e \in Entries : vault[e] = None
      /\ inner.session = None /\ inner.identity = None
      /\ \A c \in Callers : call[c].pc = "idle" /\ call[c].op = None
      /\ \A a \in Accounts : avatar[a] = None
  BY DEF Init, AccountInit, StorageInit, NoInner, Idle
<1>2. VaultWhole
  BY <1>1 DEF VaultWhole, ProfileUser, Entries
<1>3. IdentityOfSession /\ AvatarUnderOwnKey
  BY <1>1 DEF IdentityOfSession, AvatarUnderOwnKey
<1>4. ASSUME NEW c \in Callers PROVE VaultUnder(c) /\ SessionCached(c) /\ ReadsStand(c)
  BY <1>1, <1>2 DEF VaultUnder, SessionCached, ReadsStand
<1>5. QED
  BY <1>3, <1>4 DEF QuietInv

(***************************************************************************)
(* Its steps, for the one caller c.                                        *)
(***************************************************************************)

QuietAt(c) ==
  /\ IdentityOfSession /\ AvatarUnderOwnKey
  /\ VaultUnder(c) /\ SessionCached(c) /\ ReadsStand(c) /\ Cleared(c)

\* What the types say that the steps need.
Typed(c) ==
  /\ call \in [Callers -> Calls] /\ CallOK(c)
  /\ vault \in [Entries -> Option(Accounts \cup Profiles)]
  /\ vault[SERVER_PROFILE] \in Option(Profiles)
  /\ inner \in [channel : Option(Servers), verified : Option(Servers),
                session : Option(Sessions), identity : Option(Accounts),
                secret_key : Option(Accounts)]
  /\ avatar \in [Accounts -> Option(Accounts)]

\* The invariant after a step.
Invs(c) ==
  /\ IdentityOfSession' /\ AvatarUnderOwnKey'
  /\ VaultUnder(c)' /\ SessionCached(c)' /\ ReadsStand(c)'

\* A step that writes neither vault nor session, outside the calls that do.
LEMMA StepOver ==
  ASSUME NEW c \in Callers, QuietAt(c), UNCHANGED <<vault, avatar>>,
         inner'.session = inner.session, inner'.identity = inner.identity,
         call[c].pc \notin {"persist", "clear", "reset"},
         call'[c].pc \notin {"persist", "clear"}, ReadsStand(c)'
  PROVE  Invs(c)
  BY DEF QuietAt, Invs, IdentityOfSession, AvatarUnderOwnKey, VaultUnder, VaultWhole,
         ProfileUser, SessionCached

\* The steps that only read, wait for the network, register or fail are such.
LEMMA OtherSteps ==
  ASSUME NEW c \in Callers, QuietAt(c), Typed(c)
  PROVE  /\ ConnectReadPin(c) => Invs(c)
         /\ \A op \in Ops : BeginLocked(c, op) => Invs(c)
         /\ \A op \in Ops : ReadMasterKey(c, op) => Invs(c)
         /\ \A typed \in Option(Accounts) : SignInResolve(c, typed) => Invs(c)
         /\ RestoreReadProfile(c) => Invs(c)
         /\ ConnectInstall(c) => Invs(c)
         /\ Enter(c) => Invs(c)
         /\ EnterRejected(c) => Invs(c)
         /\ \A s \in Servers : ConnectDiscover(c, s) => Invs(c)
         /\ \A s \in Servers : RestoreRediscover(c, s) => Invs(c)
         /\ \A a \in Accounts : BootstrapReplyLost(c, a) => Invs(c)
         /\ NetworkReturns(c) => Invs(c)
         /\ RegisterDevice(c) => Invs(c)
         /\ RestoreReadToken(c) => Invs(c)
<1> USE DEF QuietAt, Typed, ReadsStand, ProfileUser, VaultUnder, VaultWhole, At, Idle, Calls,
            Return, GoTo, Start, accountVars
<1>1. ASSUME ConnectReadPin(c) PROVE Invs(c)
  BY <1>1, StepOver DEF ConnectReadPin
<1>2. ASSUME NEW op \in Ops, BeginLocked(c, op) PROVE Invs(c)
  BY <1>2, StepOver DEF BeginLocked
<1>3. ASSUME NEW op \in Ops, ReadMasterKey(c, op) PROVE Invs(c)
  BY <1>3, StepOver DEF ReadMasterKey
<1>4. ASSUME NEW typed \in Option(Accounts), SignInResolve(c, typed) PROVE Invs(c)
  BY <1>4, StepOver DEF SignInResolve
<1>5. ASSUME RestoreReadProfile(c) PROVE Invs(c)
  BY <1>5, StepOver DEF RestoreReadProfile
<1>6. ASSUME ConnectInstall(c) PROVE Invs(c)
  BY <1>6, StepOver DEF ConnectInstall
<1>7. ASSUME Enter(c) PROVE Invs(c)
  BY <1>7, StepOver DEF Enter, RpcOf
<1>8. ASSUME EnterRejected(c) PROVE Invs(c)
  BY <1>8, StepOver DEF EnterRejected
<1>9. ASSUME NEW s \in Servers, ConnectDiscover(c, s) PROVE Invs(c)
  BY <1>9, StepOver DEF ConnectDiscover
<1>10. ASSUME NEW s \in Servers, RestoreRediscover(c, s) PROVE Invs(c)
  BY <1>10, StepOver DEF RestoreRediscover
<1>11. ASSUME NEW a \in Accounts, BootstrapReplyLost(c, a) PROVE Invs(c)
  BY <1>11, StepOver DEF BootstrapReplyLost, Bootstrap
<1>12. ASSUME NetworkReturns(c) PROVE Invs(c)
  BY <1>12, StepOver DEF NetworkReturns, NetworkPCs
<1>13. ASSUME RegisterDevice(c) PROVE Invs(c)
  BY <1>13, StepOver DEF RegisterDevice
<1>14. ASSUME RestoreReadToken(c) PROVE Invs(c)
  BY <1>14, StepOver DEF RestoreReadToken
<1>15. QED
  BY <1>1, <1>2, <1>3, <1>4, <1>5, <1>6, <1>7, <1>8, <1>9, <1>10, <1>11, <1>12, <1>13,
     <1>14

\* The server has answered: the call starts to persist, at the first entry.
LEMMA StartsPersist ==
  ASSUME NEW c \in Callers, QuietAt(c), Typed(c),
         \/ \E a \in Accounts : BootstrapAccepted(c, a)
         \/ \E a \in Accounts : Login(c, a)
  PROVE  Invs(c)
<1>1. /\ call'[c].pc = "persist" /\ call'[c].at = MASTER_KEY
      /\ UNCHANGED <<inner, vault, avatar>>
  <2>1. call \in [Callers -> Calls]
    BY DEF Typed
  <2>2. ASSUME NEW a \in Accounts, BootstrapAccepted(c, a)
        PROVE  /\ call'[c].pc = "persist" /\ call'[c].at = MASTER_KEY
               /\ UNCHANGED <<inner, vault, avatar>>
    BY <2>1, <2>2 DEF BootstrapAccepted, Bootstrap, Calls
  <2>3. ASSUME NEW a \in Accounts, Login(c, a)
        PROVE  /\ call'[c].pc = "persist" /\ call'[c].at = MASTER_KEY
               /\ UNCHANGED <<inner, vault, avatar>>
    <3>1. /\ call' = [call EXCEPT ![c].user = a, ![c].pc = "persist", ![c].at = MASTER_KEY]
          /\ UNCHANGED <<inner, vault, avatar>>
      BY <2>3 DEF Login, accountVars
    <3>2. QED
      BY <2>1, <3>1 DEF Calls
  <2>4. QED
    BY <2>2, <2>3
<1>2. VaultUnder(c)' /\ SessionCached(c)' /\ ReadsStand(c)'
  BY <1>1 DEF VaultUnder, SessionCached, ReadsStand
<1>3. IdentityOfSession' /\ AvatarUnderOwnKey'
  BY <1>1 DEF QuietAt, IdentityOfSession, AvatarUnderOwnKey
<1>4. QED
  BY <1>2, <1>3 DEF Invs

\* One more entry holds the call's account.
LEMMA PersistWrites ==
  ASSUME NEW c \in Callers, QuietAt(c), Typed(c), Persist(c)
  PROVE  Invs(c)
<1> DEFINE e == call[c].at
           u == call[c].user
           after == PersistNext(call[c].op, e)
<1>1. /\ call[c].pc = "persist" /\ e \in Entries /\ call[c].key = u
      /\ call'[c].pc = "persist" /\ call'[c].at = after /\ call'[c].user = u
      /\ vault' = [vault EXCEPT ![e] = ToCache(c, e)]
      /\ UNCHANGED <<inner, avatar>>
  BY DEF Persist, SetEntry, accountVars, Typed, Calls, CallOK, At
<1>2. \A f \in Entries : vault'[f] = IF f = e THEN ToCache(c, e) ELSE vault[f]
  BY <1>1 DEF Typed
<1>3. /\ e # SERVER_PROFILE => ToCache(c, e) = u
      /\ e = SERVER_PROFILE => ToCache(c, e).user = u /\ ToCache(c, e) \in Profiles
  BY <1>1 DEF ToCache, Typed, CallOK, Profiles
<1>4. /\ e # MASTER_KEY => vault[MASTER_KEY] = u
      /\ e \notin {MASTER_KEY, SECRET_KEY} => vault[SECRET_KEY] = u
      /\ e \notin {MASTER_KEY, SECRET_KEY, SESSION_TOKEN} => vault[SESSION_TOKEN] = u
  BY <1>1 DEF QuietAt, VaultUnder
<1>5. /\ e = MASTER_KEY => after = SECRET_KEY
      /\ e = SECRET_KEY => after = SESSION_TOKEN
      /\ e = SESSION_TOKEN => after \in {DEVICE_SECRET, SERVER_PROFILE}
      /\ e = DEVICE_SECRET => after = SERVER_PROFILE
      /\ e = SERVER_PROFILE => after = Done
  BY <1>1 DEF PersistNext, Entries
<1> HIDE DEF e, u, after
<1>6. /\ after # MASTER_KEY => vault'[MASTER_KEY] = u
      /\ after \notin {MASTER_KEY, SECRET_KEY} => vault'[SECRET_KEY] = u
      /\ after \notin {MASTER_KEY, SECRET_KEY, SESSION_TOKEN} => vault'[SESSION_TOKEN] = u
      /\ after = Done => ProfileUser' = u
  <2>1. CASE e = MASTER_KEY
    BY <1>2, <1>3, <1>4, <1>5, <2>1 DEF Entries
  <2>2. CASE e = SECRET_KEY
    BY <1>2, <1>3, <1>4, <1>5, <2>2 DEF Entries
  <2>3. CASE e = SESSION_TOKEN
    BY <1>2, <1>3, <1>4, <1>5, <2>3 DEF Entries
  <2>4. CASE e = DEVICE_SECRET
    BY <1>2, <1>3, <1>4, <1>5, <2>4 DEF Entries
  <2>5. CASE e = SERVER_PROFILE
    BY <1>2, <1>3, <1>4, <1>5, <2>5, NoneAssumption DEF Entries, ProfileUser
  <2>6. QED
    BY <1>1, <2>1, <2>2, <2>3, <2>4, <2>5 DEF Entries
<1>7. VaultUnder(c)' /\ SessionCached(c)' /\ ReadsStand(c)'
  BY <1>1, <1>6 DEF VaultUnder, SessionCached, ReadsStand
<1>8. IdentityOfSession' /\ AvatarUnderOwnKey'
  BY <1>1 DEF QuietAt, IdentityOfSession, AvatarUnderOwnKey
<1>9. QED
  BY <1>7, <1>8 DEF Invs

\* Everything is cached, and the session opens: vault and memory are the call's.
LEMMA SessionOpens ==
  ASSUME NEW c \in Callers, QuietAt(c), Typed(c), Authenticated(c)
  PROVE  Invs(c)
<1> DEFINE u == call[c].user
<1>1. /\ call[c].pc = "persist" /\ call[c].at = Done /\ u \in Accounts
      /\ call'[c] = Idle
      /\ inner'.session = [server |-> inner.channel, token |-> u]
      /\ inner'.identity = u
      /\ UNCHANGED <<vault, avatar>>
  BY DEF Authenticated, NewSession, Return, accountVars, Typed, Calls, CallOK, At
<1>2. /\ vault[MASTER_KEY] = u /\ vault[SECRET_KEY] = u /\ vault[SESSION_TOKEN] = u
      /\ ProfileUser = u
  BY <1>1 DEF QuietAt, VaultUnder
<1> HIDE DEF u
<1>3. VaultWhole'
  BY <1>1, <1>2 DEF VaultWhole, ProfileUser
<1>4. VaultUnder(c)' /\ ReadsStand(c)'
  BY <1>1, <1>3 DEF VaultUnder, ReadsStand, Idle
<1>5. SessionCached(c)' /\ IdentityOfSession'
  <2>1. inner'.session # None
    BY <1>1, NoneAssumption DEF Typed, CallOK, Sessions
  <2>2. QED
    BY <1>1, <1>2, <2>1 DEF SessionCached, IdentityOfSession
<1>6. AvatarUnderOwnKey'
  BY <1>1 DEF QuietAt, AvatarUnderOwnKey
<1>7. QED
  BY <1>4, <1>5, <1>6 DEF Invs

\* sign_out and forget_server begin, and delete an entry at a time.
LEMMA ClearDeletes ==
  ASSUME NEW c \in Callers, QuietAt(c), Typed(c), Cleared(c)',
         (\E op \in Ops : BeginClear(c, op)) \/ Clear(c)
  PROVE  Invs(c)
<1>1. UNCHANGED <<inner, avatar>>
  BY DEF BeginClear, Clear, accountVars
<1>2. /\ IdentityOfSession' /\ AvatarUnderOwnKey'
  BY <1>1 DEF QuietAt, IdentityOfSession, AvatarUnderOwnKey
<1>3. CASE \E op \in Ops : BeginClear(c, op)
  <2>1. /\ call[c].pc = "idle" /\ call'[c].pc = "clear" /\ vault' = vault
    <3>1. PICK op \in Ops : BeginClear(c, op)
      BY <1>3
    <3>2. /\ call[c].pc = "idle" /\ vault' = vault
          /\ call' = [call EXCEPT ![c] = [Idle EXCEPT !.op = op, !.pc = "clear",
                                                     !.at = ClearFirst(op)]]
      BY <3>1 DEF BeginClear, Start, At
    <3>3. QED
      BY <3>2 DEF Idle, Typed
  <2>2. vault'[SECRET_KEY] = ProfileUser'
    BY <2>1 DEF QuietAt, VaultUnder, VaultWhole, ProfileUser
  <2>3. VaultUnder(c)' /\ SessionCached(c)' /\ ReadsStand(c)'
    BY <2>1, <2>2 DEF VaultUnder, SessionCached, ReadsStand
  <2>4. QED
    BY <1>2, <2>3 DEF Invs
<1>4. CASE Clear(c)
  <2>1. /\ call[c].pc = "clear" /\ call[c].at \in Entries
        /\ call[c].op \in {"sign_out", "forget_server"}
        /\ call'[c].pc \in {"clear", "reset"} /\ call'[c].op = call[c].op
        /\ vault' = [vault EXCEPT ![call[c].at] = None]
        /\ call'[c].pc = "reset" <=> ClearNext(call[c].op, call[c].at) = Done
    BY <1>4 DEF Clear, DeleteEntry, Typed, Calls, CallOK, QuietAt, Cleared, At
  <2>2. SessionCached(c)' /\ ReadsStand(c)'
    BY <2>1 DEF SessionCached, ReadsStand
  <2>3. CASE call[c].op = "sign_out"
    <3>1. vault[SECRET_KEY] = ProfileUser /\ call[c].at \in {SESSION_TOKEN, MASTER_KEY}
      BY <2>1, <2>3 DEF QuietAt, VaultUnder, Cleared
    <3>2. vault'[SECRET_KEY] = ProfileUser'
      BY <2>1, <3>1 DEF ProfileUser, Typed, Entries
    <3>3. call'[c].pc = "reset" => vault'[SESSION_TOKEN] = None /\ vault'[MASTER_KEY] = None
      BY <2>1, <2>3 DEF Cleared
    <3>4. VaultUnder(c)'
      BY <2>1, <2>3, <3>2, <3>3 DEF VaultUnder, VaultWhole
    <3>5. QED
      BY <1>2, <2>2, <3>4 DEF Invs
  <2>4. CASE call[c].op = "forget_server"
    <3>1. call'[c].pc = "reset" => \A e \in Entries : vault'[e] = None
      BY <2>1, <2>4 DEF Cleared
    <3>2. call'[c].pc = "reset" => VaultWhole'
      BY <3>1 DEF VaultWhole, ProfileUser, Entries
    <3>3. VaultUnder(c)'
      BY <2>1, <2>4, <3>2 DEF VaultUnder
    <3>4. QED
      BY <1>2, <2>2, <3>3 DEF Invs
  <2>5. QED
    BY <2>1, <2>3, <2>4
<1>5. QED
  BY <1>3, <1>4

\* ... and then there is no session.
LEMMA ResetForgets ==
  ASSUME NEW c \in Callers, QuietAt(c), Typed(c), Reset(c)
  PROVE  Invs(c)
<1>1. /\ call[c].pc = "reset" /\ call'[c] = Idle /\ UNCHANGED <<vault, avatar>>
      /\ inner'.session = None /\ inner'.identity = None
  BY DEF Reset, Return, NoInner, accountVars, Typed, Calls, At
<1>2. VaultWhole'
  BY <1>1 DEF QuietAt, VaultUnder, VaultWhole, ProfileUser
<1>3. VaultUnder(c)' /\ SessionCached(c)' /\ ReadsStand(c)'
  BY <1>1, <1>2 DEF VaultUnder, SessionCached, ReadsStand, Idle
<1>4. IdentityOfSession' /\ AvatarUnderOwnKey'
  BY <1>1 DEF QuietAt, IdentityOfSession, AvatarUnderOwnKey
<1>5. QED
  BY <1>3, <1>4 DEF Invs

\* restore puts the cached token into memory, and it is the profile's user's.
LEMMA ResumeRebuilds ==
  ASSUME NEW c \in Callers, QuietAt(c), Typed(c), Resume(c)
  PROVE  Invs(c) /\ call[c].user = inner'.session.token
<1> DEFINE t == call[c].key
<1>1. /\ call[c].pc = "resume" /\ call'[c] = Idle /\ UNCHANGED <<vault, avatar>>
      /\ t \in Accounts /\ call[c].server \in Servers
      /\ inner'.session = [server |-> call[c].server, token |-> t]
      /\ inner'.identity = inner.identity
  BY DEF Resume, Return, accountVars, Typed, Calls, CallOK, At
<1>2. /\ VaultWhole /\ vault[SESSION_TOKEN] = t /\ call[c].user = ProfileUser
      /\ inner.session # None => inner.session.token = t
      /\ IdentityOfSession
  BY <1>1 DEF QuietAt, VaultUnder, ReadsStand, SessionCached
<1> HIDE DEF t
<1>3. t # None /\ inner'.session # None /\ inner'.session.token = t
  BY <1>1, NoneAssumption DEF Sessions
<1>4. call[c].user = t
  BY <1>2, <1>3 DEF VaultWhole
<1>5. VaultUnder(c)' /\ SessionCached(c)' /\ ReadsStand(c)'
  BY <1>1, <1>2, <1>3 DEF VaultUnder, VaultWhole, ProfileUser, SessionCached, ReadsStand, Idle
<1>6. IdentityOfSession'
  BY <1>1, <1>2, <1>3 DEF IdentityOfSession
<1>7. AvatarUnderOwnKey'
  BY <1>1 DEF QuietAt, AvatarUnderOwnKey
<1>8. QED
  BY <1>3, <1>4, <1>5, <1>6, <1>7 DEF Invs

\* The device secret is nobody else's business.
LEMMA DeviceStored ==
  ASSUME NEW c \in Callers, QuietAt(c), Typed(c), StoreDevice(c)
  PROVE  Invs(c)
<1>1. /\ call[c].pc = "store_device" /\ call'[c] = Idle /\ UNCHANGED <<inner, avatar>>
      /\ \A e \in Entries : e # DEVICE_SECRET => vault'[e] = vault[e]
  BY DEF StoreDevice, SetEntry, Return, accountVars, Typed, Calls, At
<1>2. /\ vault'[SECRET_KEY] = vault[SECRET_KEY] /\ vault'[MASTER_KEY] = vault[MASTER_KEY]
      /\ vault'[SESSION_TOKEN] = vault[SESSION_TOKEN] /\ ProfileUser' = ProfileUser
  BY <1>1 DEF Entries, ProfileUser
<1>3. VaultUnder(c)' /\ SessionCached(c)' /\ ReadsStand(c)'
  BY <1>1, <1>2 DEF QuietAt, VaultUnder, VaultWhole, SessionCached, ReadsStand, Idle
<1>4. IdentityOfSession' /\ AvatarUnderOwnKey'
  BY <1>1 DEF QuietAt, IdentityOfSession, AvatarUnderOwnKey
<1>5. QED
  BY <1>3, <1>4 DEF Invs

\* set_avatar's key, read before the mutex was taken, is still the session's.
LEMMA AvatarStored ==
  ASSUME NEW c \in Callers, QuietAt(c), Typed(c), SetAvatar(c)
  PROVE  Invs(c)
<1> DEFINE t == inner.session.token
<1>1. /\ call[c].pc = "rpc" /\ call[c].op = "set_avatar" /\ inner.session \in Sessions
      /\ call'[c] = Idle /\ UNCHANGED <<inner, vault>>
      /\ avatar' = [avatar EXCEPT ![t] = call[c].key]
  BY DEF SetAvatar, StoreAvatar, Doing, Return, Typed, Calls, CallOK, At
<1>2. VaultWhole /\ vault[SESSION_TOKEN] = t /\ call[c].key = vault[MASTER_KEY]
  <2>1. inner.session # None
    BY <1>1, NoneAssumption
  <2>2. QED
    BY <1>1, <2>1 DEF QuietAt, VaultUnder, SessionCached, ReadsStand
<1>3. avatar' = [avatar EXCEPT ![t] = t] /\ t \in Accounts
  BY <1>1, <1>2 DEF VaultWhole, Sessions
<1> HIDE DEF t
<1>4. AvatarUnderOwnKey'
  BY <1>3 DEF QuietAt, AvatarUnderOwnKey, Typed
<1>5. VaultUnder(c)' /\ ReadsStand(c)'
  BY <1>1, <1>2 DEF VaultUnder, VaultWhole, ProfileUser, ReadsStand, Idle
<1>6. SessionCached(c)' /\ IdentityOfSession'
  BY <1>1, <1>2 DEF QuietAt, SessionCached, IdentityOfSession, t
<1>7. QED
  BY <1>4, <1>5, <1>6 DEF Invs

(***************************************************************************)
(* The specification.                                                      *)
(***************************************************************************)

LEMMA QuietStepAt ==
  ASSUME Quiet, NEW c \in Callers, Callers = {c}, QuietAt(c), Typed(c), Cleared(c)', [Next]_vars
  PROVE  Invs(c)
<1>1. ~ Crash /\ ~ StorageFails(c)
  BY DEF Quiet, StorageFails, Crash
<1>2. CASE UNCHANGED vars
  <2>1. UNCHANGED <<vault, inner, call, avatar>>
    BY <1>2 DEF vars, clientVars, accountVars
  <2>2. QED
    BY <2>1 DEF QuietAt, Invs, IdentityOfSession, AvatarUnderOwnKey, VaultUnder, VaultWhole,
                ProfileUser, SessionCached, ReadsStand
<1>3. CASE Begin(c)
  BY <1>3, OtherSteps, ClearDeletes DEF Begin
<1>4. CASE TakeLock(c)
  BY <1>4, OtherSteps, ResetForgets, ResumeRebuilds DEF TakeLock
<1>5. CASE Advance(c)
  BY <1>1, <1>5, OtherSteps, StartsPersist, PersistWrites, SessionOpens, DeviceStored,
     AvatarStored, ClearDeletes DEF Advance
<1>6. QED
  BY <1>1, <1>2, <1>3, <1>4, <1>5 DEF Next

LEMMA QuietFacts ==
  ASSUME TypeOK, SerialInv, QuietInv, NEW c \in Callers
  PROVE  QuietAt(c) /\ Typed(c)
  BY DEF TypeOK, AccountTypeOK, SerialInv, QuietInv, QuietAt, Typed

LEMMA NextQuietInv ==
  ASSUME Serial, Quiet, TypeOK, SerialInv, QuietInv, [Next]_vars PROVE QuietInv'
<1>1. PICK c \in Callers : Callers = {c}
  BY DEF Serial
<1>2. QuietAt(c) /\ Typed(c)
  BY QuietFacts
<1>3. Cleared(c)'
  BY NextSerialInv DEF SerialInv
<1>4. Invs(c)
  BY <1>1, <1>2, <1>3, QuietStepAt
<1>5. QED
  BY <1>1, <1>4 DEF Invs, QuietInv

LEMMA QuietInvariant ==
  ASSUME Serial, Quiet PROVE Spec => [](TypeOK /\ SerialInv /\ QuietInv)
<1>1. TypeOK /\ SerialInv /\ QuietInv /\ [Next]_vars => QuietInv'
  BY NextQuietInv
<1>2. QED
  BY <1>1, InitQuietInv, SerialInvariant, PTL DEF Spec

\* With one call at a time, and as long as neither the keychain nor the process
\* fails, the session in memory is the one a restart would restore (sign_in,
\* create_owner, restore and Inner against the vault).
THEOREM MemoryIsCached == ASSUME Serial, Quiet PROVE Spec => []MemoryMatchesVault
<1>1. TypeOK /\ SerialInv /\ QuietInv => MemoryMatchesVault
  <2> SUFFICES ASSUME TypeOK, SerialInv, QuietInv, inner.session # None,
                      \A c \in Callers : call[c].pc \notin {"persist", "clear", "reset"}
               PROVE  /\ inner.identity \in Option({inner.session.token})
                      /\ \A e \in AccountEntries : Owner(e) = inner.session.token
    BY DEF MemoryMatchesVault
  <2>1. PICK c \in Callers : Callers = {c}
    BY DEF Serial
  <2>2. /\ VaultWhole /\ vault[SESSION_TOKEN] = inner.session.token
        /\ inner.identity \in {None, inner.session.token}
    BY DEF QuietInv, VaultUnder, SessionCached, IdentityOfSession
  <2>3. inner.session.token # None
    BY NoneAssumption DEF TypeOK, Option, Sessions
  <2>4. vault[SERVER_PROFILE] # None /\ vault[SERVER_PROFILE].user = inner.session.token
    BY <2>2, <2>3 DEF VaultWhole, ProfileUser
  <2>5. \A e \in AccountEntries : Owner(e) = inner.session.token
    BY <2>2, <2>3, <2>4 DEF VaultWhole, ProfileUser, AccountEntries, Owner
  <2>6. QED
    BY <2>2, <2>5 DEF Option
<1>2. QED
  BY <1>1, QuietInvariant, PTL

\* Under the same, the vault's Secret Key is that of the pinned profile's account:
\* a sign_in after sign_out needs only the password (clear_session, sign_in).
THEOREM ReturnsWithPassword == ASSUME Serial, Quiet PROVE Spec => []ReturnNeedsOnlyPassword
<1>1. TypeOK /\ SerialInv /\ QuietInv => ReturnNeedsOnlyPassword
  <2> SUFFICES ASSUME QuietInv, Pin # None,
                      \A c \in Callers : call[c].pc \notin {"persist", "clear"}
               PROVE  vault[SECRET_KEY] = vault[SERVER_PROFILE].user
    BY DEF ReturnNeedsOnlyPassword
  <2>1. VaultWhole
    BY DEF QuietInv, VaultUnder, Serial
  <2>2. vault[SERVER_PROFILE] # None
    BY DEF Pin
  <2>3. QED
    BY <2>1, <2>2 DEF VaultWhole, ProfileUser
<1>2. QED
  BY <1>1, QuietInvariant, PTL

\* Under the same, what set_avatar stores for an account is sealed under its own
\* key, although the key is read before the mutex is taken.
THEOREM AvatarsOpen == ASSUME Serial, Quiet PROVE Spec => []AvatarUnderOwnKey
<1>1. QuietInv => AvatarUnderOwnKey
  BY DEF QuietInv
<1>2. QED
  BY <1>1, QuietInvariant, PTL

\* Under the same, the user that restore reports is the one whose session it
\* rebuilds, although it reads profile and token one after the other.
THEOREM RestoreReportsRight == ASSUME Serial, Quiet PROVE Spec => RestoreReportsTokenUser
<1>1. TypeOK /\ SerialInv /\ QuietInv =>
        [\A c \in Callers : Resume(c) => call[c].user = inner'.session.token]_vars
  BY QuietFacts, ResumeRebuilds
<1>2. QED
  BY <1>1, QuietInvariant, PTL DEF RestoreReportsTokenUser
=============================================================================
