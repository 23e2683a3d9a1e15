---------------------------- MODULE ClientProofs ----------------------------
(***************************************************************************)
(* Proofs about the client, for any servers, accounts, callers, operations *)
(* and faults.                                                             *)
(***************************************************************************)
EXTENDS ClientProperties, TLAPS

USE DEF MASTER_KEY, SECRET_KEY, DEVICE_SECRET, SESSION_TOKEN, SERVER_PROFILE, Done

(***************************************************************************)
(* Type correctness.  TypeOK is inductive: it says of each call that it    *)
(* has the locals its point reads, and that a point reached with the mutex *)
(* belongs to its holder.                                                  *)
(***************************************************************************)

\* The pin of a well-typed vault is a server or nothing.
LEMMA PinType == TypeOK => Pin \in Option(Servers)
  BY DEF TypeOK, Pin, Option, Profiles

\* What persist writes to an entry has the type of that entry.
LEMMA ToCacheType ==
  ASSUME TypeOK, NEW c \in Callers, At(c, "persist"), call[c].at # Done
  PROVE  /\ call[c].at \in Entries
         /\ call[c].at = SERVER_PROFILE => ToCache(c, call[c].at) \in Profiles
         /\ call[c].at # SERVER_PROFILE => ToCache(c, call[c].at) \in Accounts
         /\ PersistNext(call[c].op, call[c].at) \in Entries \cup {Done}
  BY DEF TypeOK, CallOK, At, ToCache, PersistNext, Entries, Profiles, Calls

\* What a clear goes on to.
LEMMA ClearNextType ==
  ASSUME NEW op, NEW e \in Entries
  PROVE  /\ ClearNext(op, e) \in Entries \cup {Done}
         /\ ClearFirst(op) \in Entries
  BY DEF ClearNext, ClearFirst, clear, clear_session, Entries

LEMMA InitTypeOK == Init => TypeOK
  BY HomeAssumption, NoneAssumption
     DEF Init, AccountInit, StorageInit, NoInner, Idle, TypeOK, AccountTypeOK, CallOK,
         Calls, PCs, LockedPCs, Option, Entries

\* The first step of an operation leaves the call at a point before the mutex,
\* and changes nothing else.
LEMMA StartTypeOK ==
  ASSUME TypeOK, NEW c \in Callers, NEW op, NEW k \in Calls, Start(c, op, k),
         k.pc \in {"discover", "enter", "clear", "read_token"},
         k.pc = "clear" => k.at \in Entries,
         UNCHANGED <<lock, inner, shown, vault, accountVars>>
  PROVE  TypeOK'
<1> USE DEF TypeOK
<1>1. /\ AccountTypeOK'
      /\ UNCHANGED <<lock, inner, shown, vault>>
  BY DEF accountVars, AccountTypeOK
<1>2. call' \in [Callers -> Calls]
  BY DEF Start
<1>3. \A d \in Callers : call'[d] = IF d = c THEN k ELSE call[d]
  BY DEF Start
<1>4. \A d \in Callers : call'[d].pc \in LockedPCs <=> lock' = d
  BY <1>1, <1>3 DEF Start, At, LockedPCs
<1>5. \A d \in Callers : CallOK(d)'
  BY <1>1, <1>3 DEF CallOK
<1>6. QED
  BY <1>1, <1>2, <1>4, <1>5

\* A step of a clear deletes one entry and moves one call.
LEMMA ClearTypeOK ==
  ASSUME TypeOK, NEW c \in Callers, Clear(c) PROVE TypeOK'
<1> DEFINE next == ClearNext(call[c].op, call[c].at)
           k == [call[c] EXCEPT !.at = IF next = Done THEN None ELSE next,
                                !.pc = IF next = Done THEN "reset" ELSE "clear"]
<1>1. call[c] \in Calls /\ call[c].pc = "clear" /\ call[c].at \in Entries
  BY DEF Clear, At, TypeOK, CallOK
<1>2. next \in Entries \cup {Done}
  BY <1>1, ClearNextType
<1>3. UNCHANGED <<lock, inner, shown, registered, avatar>>
  BY DEF Clear, accountVars
<1>4. call' = [call EXCEPT ![c] = k]
  BY DEF Clear, TypeOK
<1>5. vault' = [vault EXCEPT ![call[c].at] = None]
  BY DEF Clear, DeleteEntry
<1> HIDE DEF next
<1>6. /\ k \in Calls /\ k.pc \in {"reset", "clear"}
      /\ k.pc = "clear" => k.at \in Entries
  BY <1>1, <1>2 DEF Calls, PCs, Option
<1> HIDE DEF k
<1>7. /\ vault' \in [Entries -> Option(Accounts \cup Profiles)]
      /\ \A e \in Entries \ {SERVER_PROFILE} : vault'[e] \in Option(Accounts)
      /\ vault'[SERVER_PROFILE] \in Option(Profiles)
  BY <1>1, <1>5 DEF TypeOK, Option, Entries
<1>8. call' \in [Callers -> Calls]
  BY <1>4, <1>6 DEF TypeOK
<1>9. \A d \in Callers : call'[d] = IF d = c THEN k ELSE call[d]
  BY <1>4 DEF TypeOK
<1>10. \A d \in Callers : call'[d].pc \in LockedPCs <=> lock' = d
  BY <1>1, <1>3, <1>6, <1>9 DEF TypeOK, LockedPCs
<1>11. \A d \in Callers : CallOK(d)'
  BY <1>3, <1>6, <1>9 DEF TypeOK, CallOK
<1>12. QED
  BY <1>3, <1>7, <1>8, <1>10, <1>11 DEF TypeOK, AccountTypeOK

\* The end of a call: the guard, if the call has it, goes, and Inner is written
\* only by a call that nobody else's guard keeps out.
LEMMA ReturnTypeOK ==
  ASSUME TypeOK, NEW c \in Callers, Return(c), lock \in {None, c},
         inner' \in [channel : Option(Servers), verified : Option(Servers),
                    session : Option(Sessions), identity : Option(Accounts),
                    secret_key : Option(Accounts)],
         UNCHANGED <<shown, vault, accountVars>>
  PROVE  TypeOK'
<1>1. /\ \A d \in Callers : call'[d] = IF d = c THEN Idle ELSE call[d]
      /\ call' \in [Callers -> Calls]
  BY DEF Return, TypeOK, Idle, Calls, PCs, Option
<1>2. lock' = None /\ None \notin Callers
  BY NoneAssumption DEF Return, Unlocked
<1>3. \A d \in Callers : d # c => call[d].pc \notin LockedPCs
  BY NoneAssumption DEF TypeOK
<1>4. \A d \in Callers : call'[d].pc \notin LockedPCs
  BY <1>1, <1>3 DEF Idle, LockedPCs
<1>5. \A d \in Callers : CallOK(d)'
  BY <1>1, <1>4 DEF TypeOK, CallOK, Idle, LockedPCs
<1>6. /\ AccountTypeOK' /\ shown' \subseteq Accounts
      /\ vault' = vault
  BY DEF TypeOK, AccountTypeOK, accountVars
<1>7. QED
  BY <1>1, <1>2, <1>4, <1>5, <1>6 DEF TypeOK, Option

\* The bootstrap is accepted: the call goes on to persist with the account it
\* has made up, and the server has registered it.
LEMMA BootstrapTypeOK ==
  ASSUME TypeOK, NEW c \in Callers, NEW a \in Accounts, BootstrapAccepted(c, a)
  PROVE  TypeOK'
<1> DEFINE k == [call[c] EXCEPT !.user = a, !.key = a, !.pc = "persist", !.at = MASTER_KEY]
<1>1. /\ call[c] \in Calls /\ call[c].pc = "bootstrap" /\ call[c].op = "create_owner"
      /\ lock = c
  BY DEF BootstrapAccepted, At, TypeOK, CallOK, LockedPCs
<1>2. /\ registered' \subseteq Accounts /\ avatar' = avatar
      /\ UNCHANGED <<lock, inner, shown, vault>>
      /\ call' = [call EXCEPT ![c] = k]
  BY DEF BootstrapAccepted, Bootstrap, TypeOK, AccountTypeOK
<1>3. k \in Calls
  BY <1>1 DEF Calls, PCs, Option, Entries
<1>4. /\ k.pc = "persist" /\ k.op = "create_owner"
      /\ k.user = a /\ k.key = a /\ k.at = MASTER_KEY
  BY <1>1 DEF Calls
<1> HIDE DEF k
<1>5. \A d \in Callers : call'[d] = IF d = c THEN k ELSE call[d]
  BY <1>2 DEF TypeOK
<1>6. inner.channel \in Servers /\ inner.verified \in Servers
  BY <1>1 DEF TypeOK, CallOK
<1>7. \A d \in Callers : CallOK(d)'
  BY <1>2, <1>4, <1>5, <1>6 DEF TypeOK, CallOK, Entries
<1>8. \A d \in Callers : call'[d].pc \in LockedPCs <=> lock' = d
  BY <1>1, <1>2, <1>4, <1>5 DEF TypeOK, LockedPCs
<1>9. call' \in [Callers -> Calls]
  BY <1>2, <1>3 DEF TypeOK
<1>10. QED
  BY <1>2, <1>7, <1>8, <1>9 DEF TypeOK, AccountTypeOK

LEMMA NextTypeOK == TypeOK /\ [Next]_vars => TypeOK'
<1> SUFFICES ASSUME TypeOK, [Next]_vars PROVE TypeOK'
  OBVIOUS
<1> USE HomeAssumption, NoneAssumption
    DEF TypeOK, AccountTypeOK, CallOK, Calls, PCs, LockedPCs, AllOps, Option, Entries,
        accountVars, At, Idle
<1>1. ASSUME NEW c \in Callers, ConnectReadPin(c) PROVE TypeOK'
  <2> DEFINE k == [Idle EXCEPT !.op = "connect", !.pc = "discover", !.server = Pin]
  <2>1. k \in Calls /\ k.pc = "discover"
    BY <1>1, PinType DEF ConnectReadPin
  <2>2. QED
    BY <1>1, <2>1, StartTypeOK DEF ConnectReadPin
<1>2. ASSUME NEW c \in Callers, NEW op \in Ops, BeginLocked(c, op) PROVE TypeOK'
  <2> DEFINE k == [Idle EXCEPT !.op = op, !.pc = "enter"]
  <2>1. k \in Calls /\ k.pc = "enter"
    BY <1>2 DEF BeginLocked
  <2>2. QED
    BY <1>2, <2>1, StartTypeOK DEF BeginLocked
<1>3. ASSUME NEW c \in Callers, NEW op \in Ops, ReadMasterKey(c, op) PROVE TypeOK'
  <2> DEFINE k == [Idle EXCEPT !.op = op, !.pc = "enter", !.key = vault[MASTER_KEY]]
  <2>1. k \in Calls /\ k.pc = "enter"
    BY <1>3 DEF ReadMasterKey
  <2>2. QED
    BY <1>3, <2>1, StartTypeOK DEF ReadMasterKey
<1>4. ASSUME NEW c \in Callers, NEW op \in Ops, BeginClear(c, op) PROVE TypeOK'
  <2> DEFINE k == [Idle EXCEPT !.op = op, !.pc = "clear", !.at = ClearFirst(op)]
  <2>1. k \in Calls /\ k.pc = "clear" /\ k.at \in Entries
    BY <1>4, ClearNextType, MASTER_KEY \in Entries DEF BeginClear
  <2>2. QED
    BY <1>4, <2>1, StartTypeOK DEF BeginClear
<1>5. ASSUME NEW c \in Callers, NEW typed \in Option(Accounts), SignInResolve(c, typed)
      PROVE TypeOK'
  <2> DEFINE resolved == IF typed # None THEN typed ELSE vault[SECRET_KEY]
  <2> DEFINE k == [Idle EXCEPT !.op = "sign_in", !.pc = "enter", !.key = resolved]
  <2>1. resolved \in Accounts
    BY <1>5 DEF SignInResolve
  <2>2. SignInResolve(c, typed) => Start(c, "sign_in", k)
    BY DEF SignInResolve
  <2> HIDE DEF resolved
  <2>3. k \in Calls /\ k.pc = "enter"
    BY <2>1
  <2> HIDE DEF k
  <2>4. QED
    BY <1>5, <2>2, <2>3, StartTypeOK DEF SignInResolve
<1>6. ASSUME NEW c \in Callers, RestoreReadProfile(c) PROVE TypeOK'
  <2> DEFINE k == [Idle EXCEPT !.op = "restore", !.pc = "read_token",
                               !.user = vault[SERVER_PROFILE].user,
                               !.server = vault[SERVER_PROFILE].identity]
  <2>1. k \in Calls /\ k.pc = "read_token"
    BY <1>6 DEF RestoreReadProfile, Profiles
  <2>2. QED
    BY <1>6, <2>1, StartTypeOK DEF RestoreReadProfile
<1>7. ASSUME NEW c \in Callers, ConnectInstall(c) PROVE TypeOK'
  <2>1. call[c].server \in Servers
    BY <1>7 DEF ConnectInstall
  <2>2. inner' \in [channel : Option(Servers), verified : Option(Servers),
                   session : Option(Sessions), identity : Option(Accounts),
                   secret_key : Option(Accounts)]
    BY <1>7, <2>1 DEF ConnectInstall
  <2>3. QED
    BY <1>7, <2>2, ReturnTypeOK DEF ConnectInstall, Free
<1>8. ASSUME NEW c \in Callers, Enter(c) PROVE TypeOK'
  BY <1>8 DEF Enter, Free, GoTo, RpcOf, Ready
<1>9. ASSUME NEW c \in Callers, EnterRejected(c) PROVE TypeOK'
  BY <1>9, ReturnTypeOK DEF EnterRejected, Free
<1>10. ASSUME NEW c \in Callers, Reset(c) PROVE TypeOK'
  BY <1>10, ReturnTypeOK DEF Reset, Free, NoInner
<1>11. ASSUME NEW c \in Callers, Resume(c) PROVE TypeOK'
  <2>1. call[c].server \in Servers /\ call[c].key \in Accounts
    BY <1>11 DEF Resume
  <2>2. inner' \in [channel : Option(Servers), verified : Option(Servers),
                   session : Option(Sessions), identity : Option(Accounts),
                   secret_key : Option(Accounts)]
    BY <1>11, <2>1 DEF Resume, Sessions
  <2>3. QED
    BY <1>11, <2>2, ReturnTypeOK DEF Resume, Free
<1>12. ASSUME NEW c \in Callers, NEW s \in Servers, ConnectDiscover(c, s) PROVE TypeOK'
  BY <1>12 DEF ConnectDiscover
<1>13. ASSUME NEW c \in Callers, NEW s \in Servers, RestoreRediscover(c, s) PROVE TypeOK'
  BY <1>13 DEF RestoreRediscover
<1>14. ASSUME NEW c \in Callers, NEW a \in Accounts, BootstrapAccepted(c, a) PROVE TypeOK'
  BY <1>14, BootstrapTypeOK
<1>15. ASSUME NEW c \in Callers, NEW a \in Accounts, BootstrapReplyLost(c, a) PROVE TypeOK'
  BY <1>15 DEF BootstrapReplyLost, Bootstrap, Return, Unlocked
<1>16. ASSUME NEW c \in Callers, NEW a \in Accounts, Login(c, a) PROVE TypeOK'
  BY <1>16 DEF Login, unlock_identity
<1>17. ASSUME NEW c \in Callers, NetworkReturns(c) PROVE TypeOK'
  BY <1>17 DEF NetworkReturns, Return, Unlocked
<1>18. ASSUME NEW c \in Callers, Persist(c) PROVE TypeOK'
  BY <1>18, ToCacheType DEF Persist, SetEntry
<1>19. ASSUME NEW c \in Callers, Authenticated(c) PROVE TypeOK'
  <2>1. NewSession(c) \in Sessions /\ Shown(c) \subseteq Accounts
    BY <1>19 DEF Authenticated, NewSession, Sessions, Shown
  <2>2. /\ inner' \in [channel : Option(Servers), verified : Option(Servers),
                       session : Option(Sessions), identity : Option(Accounts),
                       secret_key : Option(Accounts)]
        /\ shown' \subseteq Accounts
    BY <1>19, <2>1 DEF Authenticated
  <2>3. call' = [call EXCEPT ![c] = Idle] /\ lock = c /\ lock' = None
    BY <1>19 DEF Authenticated, Return, Unlocked
  <2>4. \A d \in Callers : CallOK(d)'
    BY <2>3 DEF Authenticated
  <2>5. QED
    BY <1>19, <2>2, <2>3, <2>4 DEF Authenticated
<1>20. ASSUME NEW c \in Callers, RegisterDevice(c) PROVE TypeOK'
  BY <1>20 DEF RegisterDevice, GoTo
<1>21. ASSUME NEW c \in Callers, StoreDevice(c) PROVE TypeOK'
  BY <1>21 DEF StoreDevice, Return, Unlocked, SetEntry, Sessions
<1>22. ASSUME NEW c \in Callers, SetAvatar(c) PROVE TypeOK'
  BY <1>22 DEF SetAvatar, Return, Unlocked, StoreAvatar, Sessions
<1>23. ASSUME NEW c \in Callers, Clear(c) PROVE TypeOK'
  BY <1>23, ClearTypeOK
<1>24. ASSUME NEW c \in Callers, RestoreReadToken(c) PROVE TypeOK'
  BY <1>24 DEF RestoreReadToken, Return, Unlocked
<1>25. ASSUME NEW c \in Callers, StorageFails(c) PROVE TypeOK'
  BY <1>25 DEF StorageFails, Return, Unlocked
<1>26. CASE Crash
  BY <1>26 DEF Crash, NoInner
<1>27. CASE UNCHANGED vars
  BY <1>27 DEF vars, clientVars
<1>28. QED
  BY <1>1, <1>2, <1>3, <1>4, <1>5, <1>6, <1>7, <1>8, <1>9, <1>10, <1>11, <1>12, <1>13,
     <1>14, <1>15, <1>16, <1>17, <1>18, <1>19, <1>20, <1>21, <1>22, <1>23, <1>24, <1>25,
     <1>26, <1>27 DEF Next, Begin, TakeLock, Advance

\* In every reachable state of the client everything has its type, the mutex
\* is held by exactly the caller that is between its lock and its return, and
\* each call has the locals its point reads (client.rs as a whole).
THEOREM TypeCorrect == Spec => []TypeOK
<1>1. QED
  BY InitTypeOK, NextTypeOK, PTL DEF Spec

(***************************************************************************)
(* Cached keys are genuine.  The invariant follows a key on its way: the   *)
(* account a call is persisting and the token a restore has read are those *)
(* of accounts the server has registered.                                  *)
(***************************************************************************)

KeysInv ==
  /\ KeysGenuine
  /\ \A c \in Callers : At(c, "persist") => call[c].user \in registered
  /\ \A c \in Callers : call[c].pc \in {"rediscover", "resume"} => call[c].key \in registered

LEMMA InitKeysInv == Init => KeysInv
  BY NoneAssumption
     DEF Init, StorageInit, NoInner, Idle, KeysInv, KeysGenuine, Option, Entries, At

LEMMA NextKeysInv == TypeOK /\ KeysInv /\ [Next]_vars => KeysInv'
<1> SUFFICES ASSUME TypeOK, KeysInv, [Next]_vars PROVE KeysInv'
  OBVIOUS
<1>0. /\ call \in [Callers -> Calls]
      /\ vault \in [Entries -> Option(Accounts \cup Profiles)]
      /\ inner = [channel |-> inner.channel, verified |-> inner.verified,
                  session |-> inner.session, identity |-> inner.identity,
                  secret_key |-> inner.secret_key]
      /\ \A c \in Callers : At(c, "persist") =>
            /\ call[c].at \in Entries \cup {Done}
            /\ call[c].key = call[c].user
      /\ None \notin Accounts /\ None \notin Profiles /\ None \notin Sessions
      /\ registered \subseteq Accounts
  BY NoneAssumption DEF TypeOK, CallOK, At, AccountTypeOK
<1> USE <1>0 DEF KeysInv, KeysGenuine, Option, Entries, accountVars, At, Idle
\* Steps that write neither the vault, nor Inner, nor the servers, and take
\* no call to a point that holds a token.
<1>1. ASSUME NEW c \in Callers, NEW k, call' = [call EXCEPT ![c] = k],
             k.pc \notin {"persist", "rediscover", "resume"},
             UNCHANGED <<inner, vault, registered>>
      PROVE  KeysInv'
  BY <1>1
<1>2. ASSUME NEW c \in Callers, ConnectReadPin(c) PROVE KeysInv'
  BY <1>2, <1>1 DEF ConnectReadPin, Start
<1>3. ASSUME NEW c \in Callers, NEW op \in Ops, BeginLocked(c, op) PROVE KeysInv'
  BY <1>3, <1>1 DEF BeginLocked, Start
<1>4. ASSUME NEW c \in Callers, NEW op \in Ops, ReadMasterKey(c, op) PROVE KeysInv'
  BY <1>4, <1>1 DEF ReadMasterKey, Start
<1>5. ASSUME NEW c \in Callers, NEW op \in Ops, BeginClear(c, op) PROVE KeysInv'
  BY <1>5, <1>1 DEF BeginClear, Start
<1>6. ASSUME NEW c \in Callers, NEW typed \in Option(Accounts), SignInResolve(c, typed)
      PROVE  KeysInv'
  BY <1>6, <1>1 DEF SignInResolve, Start
<1>7. ASSUME NEW c \in Callers, RestoreReadProfile(c) PROVE KeysInv'
  BY <1>7, <1>1 DEF RestoreReadProfile, Start
<1>8. ASSUME NEW c \in Callers, ConnectInstall(c) PROVE KeysInv'
  BY <1>8 DEF ConnectInstall, Return
<1>9. ASSUME NEW c \in Callers, Enter(c) PROVE KeysInv'
  BY <1>9 DEF Enter, GoTo, RpcOf
<1>10. ASSUME NEW c \in Callers, EnterRejected(c) PROVE KeysInv'
  BY <1>10, <1>1 DEF EnterRejected, Return
<1>11. ASSUME NEW c \in Callers, Reset(c) PROVE KeysInv'
  BY <1>11 DEF Reset, Return, NoInner
<1>12. ASSUME NEW c \in Callers, Resume(c) PROVE KeysInv'
  BY <1>12 DEF Resume, Return
<1>13. ASSUME NEW c \in Callers, NEW s \in Servers, ConnectDiscover(c, s) PROVE KeysInv'
  BY <1>13 DEF ConnectDiscover
<1>14. ASSUME NEW c \in Callers, NEW s \in Servers, RestoreRediscover(c, s) PROVE KeysInv'
  BY <1>14 DEF RestoreRediscover
<1>15. ASSUME NEW c \in Callers, NEW a \in Accounts, BootstrapAccepted(c, a) PROVE KeysInv'
  BY <1>15 DEF BootstrapAccepted, Bootstrap
<1>16. ASSUME NEW c \in Callers, NEW a \in Accounts, BootstrapReplyLost(c, a) PROVE KeysInv'
  BY <1>16 DEF BootstrapReplyLost, Bootstrap, Return
<1>17. ASSUME NEW c \in Callers, NEW a \in Accounts, Login(c, a) PROVE KeysInv'
  BY <1>17 DEF Login, CanLogin, unlock_identity
<1>18. ASSUME NEW c \in Callers, NetworkReturns(c) PROVE KeysInv'
  BY <1>18, <1>1 DEF NetworkReturns, Return
<1>19. ASSUME NEW c \in Callers, Persist(c) PROVE KeysInv'
  BY <1>19 DEF Persist, SetEntry, ToCache
<1>20. ASSUME NEW c \in Callers, Authenticated(c) PROVE KeysInv'
  BY <1>20 DEF Authenticated, Return, NewSession
<1>21. ASSUME NEW c \in Callers, RegisterDevice(c) PROVE KeysInv'
  BY <1>21 DEF RegisterDevice, GoTo
<1>22. ASSUME NEW c \in Callers, StoreDevice(c) PROVE KeysInv'
  <2>1. inner.session # None
    BY <1>22 DEF TypeOK, CallOK, StoreDevice
  <2>2. QED
    BY <1>22, <2>1 DEF StoreDevice, Return, SetEntry
<1>23. ASSUME NEW c \in Callers, SetAvatar(c) PROVE KeysInv'
  BY <1>23 DEF SetAvatar, StoreAvatar, Return
<1>24. ASSUME NEW c \in Callers, Clear(c) PROVE KeysInv'
  BY <1>24 DEF Clear, DeleteEntry
<1>25. ASSUME NEW c \in Callers, RestoreReadToken(c) PROVE KeysInv'
  <2>1. CASE vault[SESSION_TOKEN] = None
    BY <1>1, <1>25, <2>1 DEF RestoreReadToken, Return
  <2>2. CASE vault[SESSION_TOKEN] # None
    <3>1. vault[SESSION_TOKEN] \in registered
      BY <2>2
    <3>2. call' = [call EXCEPT ![c].key = vault[SESSION_TOKEN], ![c].pc = "rediscover"]
      BY <1>25, <2>2 DEF RestoreReadToken
    <3>3. QED
      BY <1>25, <3>1, <3>2 DEF RestoreReadToken
  <2>3. QED
    BY <2>1, <2>2
<1>26. ASSUME NEW c \in Callers, StorageFails(c) PROVE KeysInv'
  BY <1>26, <1>1 DEF StorageFails, Return
<1>27. CASE Crash
  BY <1>27 DEF Crash, NoInner
<1>28. CASE UNCHANGED vars
  BY <1>28 DEF vars, clientVars
<1>29. QED
  BY <1>2, <1>3, <1>4, <1>5, <1>6, <1>7, <1>8, <1>9, <1>10, <1>11, <1>12, <1>13, <1>14,
     <1>15, <1>16, <1>17, <1>18, <1>19, <1>20, <1>21, <1>22, <1>23, <1>24, <1>25, <1>26,
     <1>27, <1>28
     DEF Next, Begin, TakeLock, Advance

\* Whatever the callers and the faults, every key and token in the vault and
\* in memory is one of a registered account, and the identity in memory was
\* unlocked by the Secret Key beside it (sign_in, create_owner, persist,
\* restore, enroll_this_device).
THEOREM KeysAlwaysGenuine == Spec => []KeysGenuine
<1>1. Spec => []KeysInv
  BY InitKeysInv, NextKeysInv, TypeCorrect, PTL DEF Spec
<1>2. KeysInv => KeysGenuine
  BY DEF KeysInv
<1>3. QED
  BY <1>1, <1>2, PTL

(***************************************************************************)
(* The vault never mixes accounts, as long as neither the keychain nor the *)
(* process fails.  While a call persists, the entries it has written are   *)
(* its account's, if no clear has removed them since, and the entries it   *)
(* has yet to write still agree among themselves.                          *)
(***************************************************************************)

Quiet == Faults \cap {"storage", "crash"} = {}

\* The entries written when persist is about to write e.
Written(e) ==
  CASE e = MASTER_KEY    -> {}
    [] e = SECRET_KEY    -> {MASTER_KEY}
    [] e = SESSION_TOKEN -> {MASTER_KEY, SECRET_KEY}
    [] e = Done          -> AccountEntries
    [] OTHER             -> {MASTER_KEY, SECRET_KEY, SESSION_TOKEN}

AgreeOn(S) ==
  \A e, f \in S : vault[e] # None /\ vault[f] # None => Owner(e) = Owner(f)

PersistAgrees(c) ==
  /\ \A e \in Written(call[c].at) : Owner(e) \in {None, call[c].user}
  /\ AgreeOn(AccountEntries \ Written(call[c].at))

AgreeInv ==
  /\ VaultAgrees
  /\ \A c \in Callers : At(c, "persist") => PersistAgrees(c)

\* At most one caller persists: the one that holds the mutex.
LEMMA OnePersists ==
  ASSUME TypeOK, NEW c \in Callers, call[c].pc \in LockedPCs,
         NEW d \in Callers, At(d, "persist")
  PROVE  c = d
  BY DEF TypeOK, At, LockedPCs

\* A write moves its entry, if it is one of the account's, to the written ones.
LEMMA WrittenNext ==
  ASSUME NEW op, NEW e \in Entries
  PROVE  Written(PersistNext(op, e)) = Written(e) \cup ({e} \cap AccountEntries)
  BY DEF Written, PersistNext, AccountEntries, Entries

LEMMA InitAgreeInv == Init => AgreeInv
  BY DEF Init, StorageInit, Idle, AgreeInv, VaultAgrees, AccountEntries, Entries, At

\* What holds of the locals of a call that persists.
LEMMA PersistLocals ==
  ASSUME TypeOK, NEW c \in Callers, At(c, "persist")
  PROVE  /\ call[c].pc = "persist" /\ call[c].pc \in LockedPCs
         /\ call[c].at \in Entries \cup {Done}
         /\ call[c].user # None /\ call[c].key = call[c].user
         /\ Written(call[c].at) \subseteq AccountEntries
  BY NoneAssumption DEF TypeOK, CallOK, At, LockedPCs, Written, AccountEntries

\* Steps that leave the account's entries alone and take no call into or out
\* of persist.
LEMMA QuietStep ==
  ASSUME TypeOK, AgreeInv,
         \A d \in Callers : \/ call'[d] = call[d]
                            \/ call[d].pc # "persist" /\ call'[d].pc # "persist",
         \A e \in AccountEntries : vault'[e] = vault[e]
  PROVE  AgreeInv'
<1>1. \A e \in AccountEntries : Owner(e)' = Owner(e)
  BY DEF Owner
<1>2. \A d \in Callers : /\ At(d, "persist")' <=> At(d, "persist")
                         /\ At(d, "persist") => call'[d] = call[d]
  BY DEF At
<1>3. VaultAgrees'
  BY <1>1, <1>2 DEF AgreeInv, VaultAgrees, Persisting
<1>4. ASSUME NEW d \in Callers, At(d, "persist")' PROVE PersistAgrees(d)'
  <2>1. At(d, "persist") /\ call'[d] = call[d]
    BY <1>2, <1>4
  <2>2. Written(call[d].at) \subseteq AccountEntries /\ PersistAgrees(d)
    BY <2>1, PersistLocals DEF AgreeInv
  <2>3. QED
    BY <1>1, <2>1, <2>2 DEF PersistAgrees, AgreeOn
<1>5. QED
  BY <1>3, <1>4 DEF AgreeInv

\* The server has answered: the call starts to persist over a vault that
\* agrees.
LEMMA StartPersist ==
  ASSUME TypeOK, AgreeInv, NEW c \in Callers, call[c].pc \in {"bootstrap", "login"},
         \A d \in Callers : d # c => call'[d] = call[d],
         call'[c].at = MASTER_KEY, call'[c].pc = "persist", vault' = vault
  PROVE  AgreeInv'
<1>1. \A d \in Callers : ~ At(d, "persist")
  BY OnePersists DEF LockedPCs, At
<1>2. \A d \in Callers : At(d, "persist")' <=> d = c
  BY <1>1 DEF At
<1>3. AgreeOn(AccountEntries)
  BY <1>1 DEF AgreeInv, VaultAgrees, Persisting, AgreeOn
<1>4. \A e \in AccountEntries : Owner(e)' = Owner(e)
  BY DEF Owner
<1>5. Written(call'[c].at) = {}
  BY DEF Written
<1>6. PersistAgrees(c)'
  BY <1>3, <1>4, <1>5 DEF PersistAgrees, AgreeOn
<1>7. QED
  BY <1>2, <1>6 DEF AgreeInv, VaultAgrees, Persisting

LEMMA PersistStep ==
  ASSUME TypeOK, AgreeInv, NEW c \in Callers, Persist(c) PROVE AgreeInv'
<1> DEFINE e0 == call[c].at
           u == call[c].user
<1>1. /\ At(c, "persist") /\ e0 \in Entries /\ u # None /\ call[c].key = u
      /\ call[c].pc \in LockedPCs /\ Written(e0) \subseteq AccountEntries
  BY PersistLocals DEF Persist
<1>2. /\ call' = [call EXCEPT ![c].at = PersistNext(call[c].op, e0)]
      /\ vault' = [vault EXCEPT ![e0] = ToCache(c, e0)]
  BY DEF Persist, SetEntry
<1>3. /\ call'[c].pc = "persist" /\ call'[c].user = u
      /\ call'[c].at = PersistNext(call[c].op, e0)
  BY <1>1, <1>2 DEF TypeOK, Calls, At
<1>4. \A d \in Callers : At(d, "persist")' => d = c
  <2>1. \A d \in Callers : d # c => call'[d] = call[d]
    BY <1>2 DEF TypeOK
  <2>2. QED
    BY <1>1, <2>1, OnePersists DEF At
<1>5. \A e \in Entries : e # e0 => Owner(e)' = Owner(e) /\ vault'[e] = vault[e]
  BY <1>2 DEF Owner, TypeOK
<1>6. ASSUME NEW e \in Entries, e = e0 PROVE Owner(e)' \in {None, u}
  <2>1. vault'[e] = ToCache(c, e)
    BY <1>1, <1>2, <1>6 DEF TypeOK
  <2>2. CASE e = SERVER_PROFILE
    BY <2>1, <2>2 DEF Owner, ToCache
  <2>3. CASE e # SERVER_PROFILE
    BY <1>1, <2>1, <2>3 DEF Owner, ToCache
  <2>4. QED
    BY <2>2, <2>3
<1>7. Written(call'[c].at) = Written(e0) \cup ({e0} \cap AccountEntries)
  BY <1>1, <1>3, WrittenNext
<1>8. PersistAgrees(c) /\ AccountEntries \subseteq Entries
  BY <1>1 DEF AgreeInv, AccountEntries, Entries
<1> HIDE DEF e0, u
<1>9. \A e \in Written(call'[c].at) : Owner(e)' \in {None, u}
  BY <1>1, <1>5, <1>6, <1>7, <1>8 DEF PersistAgrees, e0, u
<1>10. \A e, f \in AccountEntries \ Written(call'[c].at) :
         vault'[e] # None /\ vault'[f] # None => Owner(e)' = Owner(f)'
  BY <1>5, <1>7, <1>8 DEF PersistAgrees, AgreeOn, e0
<1>11. PersistAgrees(c)'
  BY <1>3, <1>9, <1>10 DEF PersistAgrees, AgreeOn
<1>12. QED
  BY <1>3, <1>4, <1>11 DEF AgreeInv, VaultAgrees, Persisting, At

\* A call that has written everything leaves a vault that is its account's.
LEMMA AuthenticatedStep ==
  ASSUME TypeOK, AgreeInv, NEW c \in Callers, Authenticated(c) PROVE AgreeInv'
<1>1. /\ At(c, "persist") /\ call[c].at = Done
      /\ call' = [call EXCEPT ![c] = Idle] /\ vault' = vault
  BY DEF Authenticated, Return
<1>2. PersistAgrees(c) /\ call[c].pc \in LockedPCs
  BY <1>1, PersistLocals DEF AgreeInv
<1>3. \A e \in AccountEntries : Owner(e) \in {None, call[c].user}
  BY <1>1, <1>2 DEF PersistAgrees, Written
<1>4. \A e \in AccountEntries : vault[e] # None => Owner(e) # None
  BY NoneAssumption DEF Owner, TypeOK, Profiles, Option
<1>5. \A d \in Callers : ~ At(d, "persist")'
  BY <1>1, <1>2, OnePersists DEF TypeOK, At, Idle
<1>6. \A e \in AccountEntries : Owner(e)' = Owner(e)
  BY <1>1 DEF Owner
<1>7. QED
  BY <1>1, <1>3, <1>4, <1>5, <1>6 DEF AgreeInv, VaultAgrees

\* A delete takes an entry away: those that are left agree as before.
LEMMA ClearStep ==
  ASSUME TypeOK, AgreeInv, NEW c \in Callers, Clear(c) PROVE AgreeInv'
<1>1. /\ call[c].pc = "clear" /\ call[c].at \in Entries
      /\ vault' = [vault EXCEPT ![call[c].at] = None]
  BY DEF Clear, DeleteEntry, At, TypeOK, CallOK
<1>2. \A d \in Callers : d # c => call'[d] = call[d]
  BY DEF Clear, TypeOK
<1>3. call'[c].pc # "persist"
  BY DEF Clear, TypeOK, Calls
<1>4. \A e \in AccountEntries : vault'[e] = None \/ vault'[e] = vault[e]
  BY <1>1 DEF AccountEntries, Entries, TypeOK
<1>5. \A e \in AccountEntries :
        /\ vault'[e] # None => vault[e] # None /\ Owner(e)' = Owner(e)
        /\ Owner(e)' \in {None, Owner(e)}
  BY <1>4 DEF Owner
<1>6. \A d \in Callers : /\ At(d, "persist")' <=> At(d, "persist")
                         /\ At(d, "persist") => call'[d] = call[d]
  BY <1>1, <1>2, <1>3 DEF At
<1>7. VaultAgrees'
  BY <1>5, <1>6 DEF AgreeInv, VaultAgrees, Persisting
<1>8. ASSUME NEW d \in Callers, At(d, "persist")' PROVE PersistAgrees(d)'
  <2>1. At(d, "persist") /\ call'[d] = call[d]
    BY <1>6, <1>8
  <2>2. Written(call[d].at) \subseteq AccountEntries /\ PersistAgrees(d)
    BY <2>1, PersistLocals DEF AgreeInv
  <2>3. QED
    BY <1>5, <2>1, <2>2 DEF PersistAgrees, AgreeOn
<1>9. QED
  BY <1>7, <1>8 DEF AgreeInv

LEMMA NextAgreeInv ==
  ASSUME Quiet PROVE TypeOK /\ AgreeInv /\ [Next]_vars => AgreeInv'
<1> SUFFICES ASSUME TypeOK, AgreeInv, [Next]_vars PROVE AgreeInv'
  OBVIOUS
<1>0. /\ call \in [Callers -> Calls]
      /\ vault \in [Entries -> Option(Accounts \cup Profiles)]
      /\ AccountEntries \subseteq Entries
  BY DEF TypeOK, AccountEntries, Entries
<1> USE <1>0 DEF At, Idle, Calls
<1>1. ASSUME NEW c \in Callers, ConnectReadPin(c) PROVE AgreeInv'
  BY <1>1, QuietStep DEF ConnectReadPin, Start
<1>2. ASSUME NEW c \in Callers, NEW op \in Ops, BeginLocked(c, op) PROVE AgreeInv'
  BY <1>2, QuietStep DEF BeginLocked, Start
<1>3. ASSUME NEW c \in Callers, NEW op \in Ops, ReadMasterKey(c, op) PROVE AgreeInv'
  BY <1>3, QuietStep DEF ReadMasterKey, Start
<1>4. ASSUME NEW c \in Callers, NEW op \in Ops, BeginClear(c, op) PROVE AgreeInv'
  BY <1>4, QuietStep DEF BeginClear, Start
<1>5. ASSUME NEW c \in Callers, NEW typed \in Option(Accounts), SignInResolve(c, typed)
      PROVE  AgreeInv'
  BY <1>5, QuietStep DEF SignInResolve, Start
<1>6. ASSUME NEW c \in Callers, RestoreReadProfile(c) PROVE AgreeInv'
  BY <1>6, QuietStep DEF RestoreReadProfile, Start
<1>7. ASSUME NEW c \in Callers, ConnectInstall(c) PROVE AgreeInv'
  BY <1>7, QuietStep DEF ConnectInstall, Return
<1>8. ASSUME NEW c \in Callers, Enter(c) PROVE AgreeInv'
  BY <1>8, QuietStep DEF Enter, GoTo, RpcOf
<1>9. ASSUME NEW c \in Callers, EnterRejected(c) PROVE AgreeInv'
  BY <1>9, QuietStep DEF EnterRejected, Return
<1>10. ASSUME NEW c \in Callers, Reset(c) PROVE AgreeInv'
  BY <1>10, QuietStep DEF Reset, Return
<1>11. ASSUME NEW c \in Callers, Resume(c) PROVE AgreeInv'
  BY <1>11, QuietStep DEF Resume, Return
<1>12. ASSUME NEW c \in Callers, NEW s \in Servers, ConnectDiscover(c, s) PROVE AgreeInv'
  BY <1>12, QuietStep DEF ConnectDiscover
<1>13. ASSUME NEW c \in Callers, NEW s \in Servers, RestoreRediscover(c, s) PROVE AgreeInv'
  BY <1>13, QuietStep DEF RestoreRediscover
<1>14. ASSUME NEW c \in Callers, NEW a \in Accounts, BootstrapAccepted(c, a) PROVE AgreeInv'
  BY <1>14, StartPersist DEF BootstrapAccepted
<1>15. ASSUME NEW c \in Callers, NEW a \in Accounts, BootstrapReplyLost(c, a) PROVE AgreeInv'
  BY <1>15, QuietStep DEF BootstrapReplyLost, Return
<1>16. ASSUME NEW c \in Callers, NEW a \in Accounts, Login(c, a) PROVE AgreeInv'
  BY <1>16, StartPersist DEF Login
<1>17. ASSUME NEW c \in Callers, NetworkReturns(c) PROVE AgreeInv'
  BY <1>17, QuietStep DEF NetworkReturns, NetworkPCs, Return
<1>18. ASSUME NEW c \in Callers, RegisterDevice(c) PROVE AgreeInv'
  BY <1>18, QuietStep DEF RegisterDevice, GoTo
<1>19. ASSUME NEW c \in Callers, StoreDevice(c) PROVE AgreeInv'
  BY <1>19, QuietStep DEF StoreDevice, SetEntry, AccountEntries, Return
<1>20. ASSUME NEW c \in Callers, SetAvatar(c) PROVE AgreeInv'
  BY <1>20, QuietStep DEF SetAvatar, Return
<1>21. ASSUME NEW c \in Callers, RestoreReadToken(c) PROVE AgreeInv'
  BY <1>21, QuietStep DEF RestoreReadToken, Return
<1>22. ~ Crash /\ \A c \in Callers : ~ StorageFails(c)
  BY DEF Quiet, StorageFails, Crash
<1>23. CASE UNCHANGED vars
  BY <1>23, QuietStep DEF vars, clientVars
<1>24. ASSUME NEW c \in Callers, Persist(c) PROVE AgreeInv'
  BY <1>24, PersistStep
<1>25. ASSUME NEW c \in Callers, Authenticated(c) PROVE AgreeInv'
  BY <1>25, AuthenticatedStep
<1>26. ASSUME NEW c \in Callers, Clear(c) PROVE AgreeInv'
  BY <1>26, ClearStep
<1>27. QED
  BY <1>1, <1>2, <1>3, <1>4, <1>5, <1>6, <1>7, <1>8, <1>9, <1>10, <1>11, <1>12,
     <1>13, <1>14, <1>15, <1>16, <1>17, <1>18, <1>19, <1>20, <1>21, <1>22, <1>23,
     <1>24, <1>25, <1>26
     DEF Next, Begin, TakeLock, Advance

\* As long as neither the keychain nor the process fails, the vault never
\* mixes accounts, however sign_in, create_owner, sign_out and forget_server
\* of different callers interleave.
THEOREM VaultNeverMixes ==
  ASSUME Quiet PROVE Spec => []VaultAgrees
<1>1. TypeOK /\ AgreeInv /\ [Next]_vars => AgreeInv'
  BY NextAgreeInv
<1>2. Spec => []AgreeInv
  BY <1>1, InitAgreeInv, TypeCorrect, PTL DEF Spec
<1>3. AgreeInv => VaultAgrees
  BY DEF AgreeInv
<1>4. QED
  BY <1>2, <1>3, PTL

(***************************************************************************)
(* No Secret Key is lost as long as nothing but the network's errors goes  *)
(* wrong.  A registered account's key is with its user, or on the stack of *)
(* the create_owner that made it: the vault is not needed.                 *)
(***************************************************************************)

Delivering(a) ==
  \E c \in Callers : At(c, "persist") /\ Doing(c, "create_owner") /\ call[c].key = a

DeliveredInv == \A a \in registered : a \in shown \/ Delivering(a)

\* Steps that register no account and stop no call that persists.
LEMMA DeliveringStep ==
  ASSUME DeliveredInv, registered' = registered, shown' = shown,
         \A d \in Callers : At(d, "persist") => /\ call'[d].pc = "persist"
                                                /\ call'[d].op = call[d].op
                                                /\ call'[d].key = call[d].key
  PROVE  DeliveredInv'
  BY DEF DeliveredInv, Delivering, At, Doing

LEMMA NextDeliveredInv ==
  ASSUME Faults = {} PROVE TypeOK /\ DeliveredInv /\ [Next]_vars => DeliveredInv'
<1> SUFFICES ASSUME TypeOK, DeliveredInv, [Next]_vars PROVE DeliveredInv'
  OBVIOUS
<1>0. call \in [Callers -> Calls]
  BY DEF TypeOK
<1> USE <1>0 DEF At, Calls, accountVars
<1>1. ASSUME NEW c \in Callers, ConnectReadPin(c) PROVE DeliveredInv'
  BY <1>1, DeliveringStep DEF ConnectReadPin, Start
<1>2. ASSUME NEW c \in Callers, NEW op \in Ops, BeginLocked(c, op) PROVE DeliveredInv'
  BY <1>2, DeliveringStep DEF BeginLocked, Start
<1>3. ASSUME NEW c \in Callers, NEW op \in Ops, ReadMasterKey(c, op) PROVE DeliveredInv'
  BY <1>3, DeliveringStep DEF ReadMasterKey, Start
<1>4. ASSUME NEW c \in Callers, NEW op \in Ops, BeginClear(c, op) PROVE DeliveredInv'
  BY <1>4, DeliveringStep DEF BeginClear, Start
<1>5. ASSUME NEW c \in Callers, NEW typed \in Option(Accounts), SignInResolve(c, typed)
      PROVE  DeliveredInv'
  BY <1>5, DeliveringStep DEF SignInResolve, Start
<1>6. ASSUME NEW c \in Callers, RestoreReadProfile(c) PROVE DeliveredInv'
  BY <1>6, DeliveringStep DEF RestoreReadProfile, Start
<1>7. ASSUME NEW c \in Callers, ConnectInstall(c) PROVE DeliveredInv'
  BY <1>7, DeliveringStep DEF ConnectInstall, Return
<1>8. ASSUME NEW c \in Callers, Enter(c) PROVE DeliveredInv'
  BY <1>8, DeliveringStep DEF Enter, GoTo
<1>9. ASSUME NEW c \in Callers, EnterRejected(c) PROVE DeliveredInv'
  BY <1>9, DeliveringStep DEF EnterRejected, Return
<1>10. ASSUME NEW c \in Callers, Reset(c) PROVE DeliveredInv'
  BY <1>10, DeliveringStep DEF Reset, Return
<1>11. ASSUME NEW c \in Callers, Resume(c) PROVE DeliveredInv'
  BY <1>11, DeliveringStep DEF Resume, Return
<1>12. ASSUME NEW c \in Callers, NEW s \in Servers, ConnectDiscover(c, s) PROVE DeliveredInv'
  BY <1>12, DeliveringStep DEF ConnectDiscover
<1>13. ASSUME NEW c \in Callers, NEW s \in Servers, RestoreRediscover(c, s) PROVE DeliveredInv'
  BY <1>13, DeliveringStep DEF RestoreRediscover
<1>14. ASSUME NEW c \in Callers, NEW a \in Accounts, Login(c, a) PROVE DeliveredInv'
  BY <1>14, DeliveringStep DEF Login
<1>15. ASSUME NEW c \in Callers, NetworkReturns(c) PROVE DeliveredInv'
  BY <1>15, DeliveringStep DEF NetworkReturns, NetworkPCs, Return
<1>16. ASSUME NEW c \in Callers, Persist(c) PROVE DeliveredInv'
  BY <1>16, DeliveringStep DEF Persist
<1>17. ASSUME NEW c \in Callers, RegisterDevice(c) PROVE DeliveredInv'
  BY <1>17, DeliveringStep DEF RegisterDevice, GoTo
<1>18. ASSUME NEW c \in Callers, StoreDevice(c) PROVE DeliveredInv'
  BY <1>18, DeliveringStep DEF StoreDevice, Return
<1>19. ASSUME NEW c \in Callers, SetAvatar(c) PROVE DeliveredInv'
  BY <1>19, DeliveringStep DEF SetAvatar, StoreAvatar, Return
<1>20. ASSUME NEW c \in Callers, Clear(c) PROVE DeliveredInv'
  BY <1>20, DeliveringStep DEF Clear
<1>21. ASSUME NEW c \in Callers, RestoreReadToken(c) PROVE DeliveredInv'
  BY <1>21, DeliveringStep DEF RestoreReadToken, Return
<1>22. ASSUME NEW c \in Callers, NEW a \in Accounts, BootstrapAccepted(c, a)
      PROVE DeliveredInv'
  <2>1. /\ At(c, "bootstrap") /\ call[c].op = "create_owner"
        /\ registered' = registered \cup {a} /\ shown' = shown
        /\ \A d \in Callers : d # c => call'[d] = call[d]
        /\ call'[c].pc = "persist" /\ call'[c].key = a /\ call'[c].op = "create_owner"
    BY <1>22 DEF BootstrapAccepted, Bootstrap, TypeOK, CallOK
  <2>2. QED
    BY <2>1 DEF DeliveredInv, Delivering, Doing
<1>23. ASSUME NEW c \in Callers, Authenticated(c) PROVE DeliveredInv'
  <2>1. /\ registered' = registered
        /\ shown' = IF call[c].op = "create_owner" THEN shown \cup {call[c].key} ELSE shown
        /\ \A d \in Callers : d # c => call'[d] = call[d]
    BY <1>23 DEF Authenticated, Shown, Doing, Return
  <2>2. QED
    BY <2>1 DEF DeliveredInv, Delivering, Doing
<1>24. ~ Crash /\ \A c \in Callers : ~ StorageFails(c) /\ \A a \in Accounts : ~ BootstrapReplyLost(c, a)
  BY DEF StorageFails, Crash, BootstrapReplyLost
<1>25. CASE UNCHANGED vars
  BY <1>25, DeliveringStep DEF vars, clientVars
<1>26. QED
  BY <1>1, <1>2, <1>3, <1>4, <1>5, <1>6, <1>7, <1>8, <1>9, <1>10, <1>11, <1>12,
     <1>13, <1>14, <1>15, <1>16, <1>17, <1>18, <1>19, <1>20, <1>21, <1>22, <1>23,
     <1>24, <1>25
     DEF Next, Begin, TakeLock, Advance

\* As long as nothing but the network's errors goes wrong, the Secret Key of
\* every registered account is with its user or on its way there from
\* create_owner.
THEOREM SecretKeyNeverLost ==
  ASSUME Faults = {} PROVE Spec => []SecretKeyRetained
<1>1. Init => DeliveredInv
  BY DEF Init, DeliveredInv
<1>2. TypeOK /\ DeliveredInv /\ [Next]_vars => DeliveredInv'
  BY NextDeliveredInv
<1>3. DeliveredInv => SecretKeyRetained
  BY DEF DeliveredInv, Delivering, SecretKeyRetained
<1>4. QED
  BY <1>1, <1>2, <1>3, TypeCorrect, PTL DEF Spec

=============================================================================
