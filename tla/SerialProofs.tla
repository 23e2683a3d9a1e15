---------------------------- MODULE SerialProofs ----------------------------
(***************************************************************************)
(* Proofs about a shell that makes one call at a time, under any faults:   *)
(* the client implements trust on first use, keeps each session at its     *)
(* account's server, and leaves behind what sign_out and forget_server     *)
(* promise to drop.                                                        *)
(***************************************************************************)
EXTENDS ClientProofs

USE DEF MASTER_KEY, SECRET_KEY, DEVICE_SECRET, SESSION_TOKEN, SERVER_PROFILE, Done

Serial == \E c : Callers = {c}

(***************************************************************************)
(* The inductive invariant: the pin, the connection, the session and the   *)
(* token in the vault speak of one server, and each call carries what it   *)
(* has read of it.                                                         *)
(***************************************************************************)

\* The verified server is the pinned one, if there is a pin.
OneServer ==
  /\ inner.channel = inner.verified
  /\ Pin # None /\ inner.verified # None => Pin = inner.verified

\* A session belongs to a server that is verified and pinned, until the last
\* step of a forget_server.
SessionPinned ==
  inner.session # None =>
    /\ inner.session.server = Home[inner.session.token]
    /\ inner.session.server = inner.verified
    /\ Pin = inner.verified \/ Forgotten

\* A token is cached for the pinned server.
TokenAtPin ==
  Pin # None /\ vault[SESSION_TOKEN] # None => Home[vault[SESSION_TOKEN]] = Pin

\* What a call of its own knows of the vault.
CallKnows(c) ==
  LET k == call[c] IN
  /\ k.pc = "discover" => k.server = Pin
  /\ k.pc = "install" => Pin \in {None, k.server}
  /\ k.pc = "persist" =>
       /\ Home[k.user] = inner.verified
       /\ k.at # MASTER_KEY => vault[MASTER_KEY] = k.user
       /\ k.at \notin {MASTER_KEY, SECRET_KEY} => vault[SECRET_KEY] = k.user
       /\ k.at \in {DEVICE_SECRET, SERVER_PROFILE, Done} => vault[SESSION_TOKEN] = k.user
       /\ k.at = Done => /\ Pin = inner.verified
                         /\ vault[SERVER_PROFILE] # None
                         /\ vault[SERVER_PROFILE].user = k.user
  /\ k.pc \in {"read_token", "rediscover", "resume"} => Pin # None /\ k.server = Pin
  /\ k.pc \in {"rediscover", "resume"} => Home[k.key] = Pin

\* What a clear has deleted so far.
Cleared(c) ==
  LET k == call[c]
      Gone(S) == \A e \in S : vault[e] = None
  IN
  /\ k.pc \in {"clear", "reset"} => k.op \in {"sign_out", "forget_server"}
  /\ k.op = "sign_out" =>
       /\ k.pc = "clear" => k.at \in {SESSION_TOKEN, MASTER_KEY}
       /\ k.pc = "clear" /\ k.at = MASTER_KEY => Gone({SESSION_TOKEN})
       /\ k.pc = "reset" => Gone({SESSION_TOKEN, MASTER_KEY})
  /\ k.op = "forget_server" =>
       /\ k.pc = "clear" /\ k.at # MASTER_KEY => Gone({MASTER_KEY})
       /\ k.pc = "clear" /\ k.at \notin {MASTER_KEY, SECRET_KEY} => Gone({SECRET_KEY})
       /\ k.pc = "clear" /\ k.at \in {SESSION_TOKEN, SERVER_PROFILE} => Gone({DEVICE_SECRET})
       /\ k.pc = "clear" /\ k.at = SERVER_PROFILE => Gone({SESSION_TOKEN})
       /\ k.pc = "reset" => Gone(Entries)

SerialInv ==
  /\ OneServer
  /\ SessionPinned
  /\ TokenAtPin
  /\ \A c \in Callers : CallKnows(c) /\ Cleared(c)

LEMMA InitSerialInv == Init => SerialInv
  BY DEF Init, StorageInit, NoInner, Idle, Entries, SerialInv, OneServer, SessionPinned,
         TokenAtPin, CallKnows, Cleared, Pin

\* With one caller, the invariant is about its call.
LEMMA OneCaller ==
  ASSUME NEW c \in Callers, Callers = {c}
  PROVE  /\ SerialInv <=> /\ OneServer /\ SessionPinned /\ TokenAtPin
                          /\ CallKnows(c) /\ Cleared(c)
         /\ Forgotten <=> call[c].pc = "reset" /\ call[c].op = "forget_server"
  BY DEF SerialInv, Forgotten, At, Doing

LEMMA NextSerialInv ==
  ASSUME Serial, TypeOK, SerialInv, [Next]_vars PROVE SerialInv'
<1>1. PICK c \in Callers : Callers = {c}
  BY DEF Serial
<1>2. /\ SerialInv' <=> /\ OneServer' /\ SessionPinned' /\ TokenAtPin'
                       /\ CallKnows(c)' /\ Cleared(c)'
      /\ Forgotten <=> call[c].pc = "reset" /\ call[c].op = "forget_server"
      /\ Forgotten' <=> call'[c].pc = "reset" /\ call'[c].op = "forget_server"
  BY <1>1, OneCaller DEF SerialInv, Forgotten, At, Doing
<1>3. /\ OneServer /\ SessionPinned /\ TokenAtPin /\ CallKnows(c) /\ Cleared(c)
  BY DEF SerialInv
<1>4. /\ call \in [Callers -> Calls] /\ CallOK(c)
      /\ vault \in [Entries -> Option(Accounts \cup Profiles)]
      /\ vault[SERVER_PROFILE] \in Option(Profiles)
      /\ inner \in [channel : Option(Servers), verified : Option(Servers),
                    session : Option(Sessions), identity : Option(Accounts),
                    secret_key : Option(Accounts)]
      /\ None \notin Servers /\ None \notin Profiles /\ None \notin Sessions
      /\ None \notin Accounts
  BY NoneAssumption DEF TypeOK
<1> USE <1>2, <1>3, <1>4
    DEF OneServer, SessionPinned, TokenAtPin, CallKnows, Cleared, Pin, At, Idle, Calls,
        CallOK, Option, Entries, Profiles, Sessions, Return, GoTo, Start, accountVars
<1>5. ASSUME ConnectReadPin(c) PROVE SerialInv'
  BY <1>5 DEF ConnectReadPin
<1>6. ASSUME NEW op \in Ops, BeginLocked(c, op) PROVE SerialInv'
  BY <1>6 DEF BeginLocked
<1>7. ASSUME NEW op \in Ops, ReadMasterKey(c, op) PROVE SerialInv'
  BY <1>7 DEF ReadMasterKey
<1>8. ASSUME NEW op \in Ops, BeginClear(c, op) PROVE SerialInv'
  BY <1>8 DEF BeginClear, ClearFirst
<1>9. ASSUME NEW typed \in Option(Accounts), SignInResolve(c, typed) PROVE SerialInv'
  BY <1>9 DEF SignInResolve
<1>10. ASSUME RestoreReadProfile(c) PROVE SerialInv'
  BY <1>10 DEF RestoreReadProfile
<1>11. ASSUME ConnectInstall(c) PROVE SerialInv'
  BY <1>11 DEF ConnectInstall
<1>12. ASSUME Enter(c) PROVE SerialInv'
  BY <1>12 DEF Enter, RpcOf
<1>13. ASSUME EnterRejected(c) PROVE SerialInv'
  BY <1>13 DEF EnterRejected
<1>14. ASSUME Reset(c) PROVE SerialInv'
  BY <1>14 DEF Reset, NoInner
<1>15. ASSUME Resume(c) PROVE SerialInv'
  BY <1>15 DEF Resume
<1>16. ASSUME NEW s \in Servers, ConnectDiscover(c, s) PROVE SerialInv'
  BY <1>16 DEF ConnectDiscover, check_pin
<1>17. ASSUME NEW s \in Servers, RestoreRediscover(c, s) PROVE SerialInv'
  BY <1>17 DEF RestoreRediscover, check_pin
<1>18. ASSUME NEW a \in Accounts, BootstrapAccepted(c, a) PROVE SerialInv'
  BY <1>18 DEF BootstrapAccepted, Bootstrap
<1>19. ASSUME NEW a \in Accounts, BootstrapReplyLost(c, a) PROVE SerialInv'
  BY <1>19 DEF BootstrapReplyLost
<1>20. ASSUME NEW a \in Accounts, Login(c, a) PROVE SerialInv'
  BY <1>20 DEF Login, CanLogin
<1>21. ASSUME NetworkReturns(c) PROVE SerialInv'
  BY <1>21 DEF NetworkReturns, NetworkPCs
<1>22. ASSUME Persist(c) PROVE SerialInv'
  <2>1. /\ call[c].pc = "persist" /\ call[c].at \in Entries
        /\ call'[c] = [call[c] EXCEPT !.at = PersistNext(call[c].op, call[c].at)]
        /\ vault' = [vault EXCEPT ![call[c].at] = ToCache(c, call[c].at)]
        /\ inner' = inner
    BY <1>22 DEF Persist, SetEntry
  <2>2. CASE call[c].at = SERVER_PROFILE
    BY <2>1, <2>2 DEF PersistNext, ToCache
  <2>3. CASE call[c].at # SERVER_PROFILE
    <3>1. Pin' = Pin /\ PersistNext(call[c].op, call[c].at) # Done
      BY <2>1, <2>3 DEF PersistNext
    <3>2. PersistNext(call[c].op, call[c].at) \in {DEVICE_SECRET, SERVER_PROFILE} =>
            vault'[SESSION_TOKEN] = call[c].user
      BY <2>1, <2>3 DEF PersistNext, ToCache
    <3>3. vault'[SESSION_TOKEN] \in {vault[SESSION_TOKEN], call[c].user}
      BY <2>1, <2>3 DEF ToCache
    <3>4. /\ PersistNext(call[c].op, call[c].at) # MASTER_KEY /\ vault'[MASTER_KEY] = call[c].user
          /\ PersistNext(call[c].op, call[c].at) \notin {MASTER_KEY, SECRET_KEY} =>
               vault'[SECRET_KEY] = call[c].user
      BY <2>1, <2>3 DEF PersistNext, ToCache
    <3>5. QED
      BY <2>1, <3>1, <3>2, <3>3, <3>4
  <2>4. QED
    BY <2>2, <2>3
<1>23. ASSUME Authenticated(c) PROVE SerialInv'
  BY <1>23 DEF Authenticated, NewSession
<1>24. ASSUME RegisterDevice(c) PROVE SerialInv'
  BY <1>24 DEF RegisterDevice
<1>25. ASSUME StoreDevice(c) PROVE SerialInv'
  BY <1>25 DEF StoreDevice, SetEntry
<1>26. ASSUME SetAvatar(c) PROVE SerialInv'
  BY <1>26 DEF SetAvatar
<1>27. ASSUME Clear(c) PROVE SerialInv'
  <2> DEFINE goes == ClearNext(call[c].op, call[c].at)
  <2>1. /\ call[c].pc = "clear" /\ call[c].at \in Entries
        /\ call'[c] = [call[c] EXCEPT !.at = IF goes = Done THEN None ELSE goes,
                                     !.pc = IF goes = Done THEN "reset" ELSE "clear"]
        /\ vault' = [vault EXCEPT ![call[c].at] = None]
        /\ inner' = inner
    BY <1>27 DEF Clear, DeleteEntry
  <2>2. CASE call[c].op = "sign_out"
    BY <2>1, <2>2 DEF ClearNext, clear_session
  <2>3. CASE call[c].op = "forget_server"
    BY <2>1, <2>3 DEF ClearNext, clear
  <2>4. QED
    BY <2>1, <2>2, <2>3
<1>28. ASSUME RestoreReadToken(c) PROVE SerialInv'
  BY <1>28 DEF RestoreReadToken
<1>29. ASSUME StorageFails(c) PROVE SerialInv'
  BY <1>29 DEF StorageFails
<1>30. CASE Crash
  BY <1>30 DEF Crash, NoInner
<1>31. CASE UNCHANGED vars
  BY <1>31 DEF vars, clientVars
<1>32. QED
  BY <1>1, <1>5, <1>6, <1>7, <1>8, <1>9, <1>10, <1>11, <1>12, <1>13, <1>14, <1>15, <1>16,
     <1>17, <1>18, <1>19, <1>20, <1>21, <1>22, <1>23, <1>24, <1>25, <1>26, <1>27, <1>28,
     <1>29, <1>30, <1>31
     DEF Next, Begin, TakeLock, Advance

LEMMA SerialInvariant == ASSUME Serial PROVE Spec => [](TypeOK /\ SerialInv)
<1>1. Init => SerialInv
  BY InitSerialInv
<1>2. TypeOK /\ SerialInv /\ [Next]_vars => SerialInv'
  BY NextSerialInv
<1>3. QED
  BY <1>1, <1>2, TypeCorrect, PTL DEF Spec

\* With one call at a time, and whatever fails, a session runs over a
\* connection to the server its account lives on, the one the client has
\* verified (connect, sign_in, create_owner, restore).
THEOREM SerialSessionAtHome ==
  ASSUME Serial PROVE Spec => []SessionAtHome
<1>1. TypeOK /\ SerialInv => SessionAtHome
  BY DEF SerialInv, OneServer, SessionPinned, SessionAtHome
<1>2. QED
  BY <1>1, SerialInvariant, PTL

\* With one call at a time, a sign_in or create_owner that returns Ok has made all
\* of the vault its account's and pinned its server, whatever an earlier persist
\* or clear that failed half way has left there.
THEOREM SignInRepairs == ASSUME Serial PROVE Spec => SignInHeals
<1>1. SerialInv =>
        [\A c \in Callers :
           Authenticated(c) =>
             /\ \A e \in AccountEntries : Owner(e)' = inner'.session.token
             /\ Pin' = inner'.session.server]_vars
  <2> SUFFICES ASSUME SerialInv, NEW c \in Callers, Authenticated(c)
               PROVE  /\ \A e \in AccountEntries : Owner(e)' = inner'.session.token
                      /\ Pin' = inner'.session.server
    OBVIOUS
  <2> DEFINE k == call[c]
  <2>1. k.pc = "persist" /\ k.at = Done /\ vault' = vault
    BY DEF Authenticated, At
  <2>2. inner'.session.token = k.user /\ inner'.session.server = inner.channel
    BY DEF Authenticated, NewSession
  <2>3. /\ vault[MASTER_KEY] = k.user /\ vault[SECRET_KEY] = k.user
        /\ vault[SESSION_TOKEN] = k.user /\ vault[SERVER_PROFILE] # None
        /\ vault[SERVER_PROFILE].user = k.user /\ Pin = inner.channel
    BY <2>1 DEF SerialInv, CallKnows, OneServer
  <2>4. QED
    BY <2>1, <2>2, <2>3 DEF AccountEntries, Owner, Pin
<1>2. QED
  BY <1>1, SerialInvariant, PTL DEF SignInHeals

(***************************************************************************)
(* What sign_out and forget_server leave behind.                           *)
(***************************************************************************)

LEMMA ResetStep ==
  ASSUME SerialInv, NEW c \in Callers, Reset(c)
  PROVE  /\ Doing(c, "sign_out") =>
              /\ inner'.session = None /\ inner'.identity = None
              /\ vault'[SESSION_TOKEN] = None /\ vault'[MASTER_KEY] = None
         /\ Doing(c, "forget_server") => \A e \in Entries : vault'[e] = None
<1>1. Cleared(c) /\ call[c].pc = "reset" /\ vault' = vault /\ inner' = NoInner
  BY DEF SerialInv, Reset, At
<1>2. QED
  BY <1>1 DEF Cleared, Doing, NoInner

\* With one call at a time, and whatever fails, a sign_out that returns Ok has
\* left neither the token nor the master key in the vault, and no session and
\* no identity in memory.
THEOREM SignOutDrops == ASSUME Serial PROVE Spec => SignOutDropsSession
<1>1. SerialInv =>
        [\A c \in Callers :
           Reset(c) /\ Doing(c, "sign_out") =>
             /\ inner'.session = None /\ inner'.identity = None
             /\ vault'[SESSION_TOKEN] = None /\ vault'[MASTER_KEY] = None]_vars
  BY ResetStep
<1>2. QED
  BY <1>1, SerialInvariant, PTL DEF SignOutDropsSession

\* With one call at a time, and whatever fails, a forget_server that returns Ok
\* has left the vault empty.
THEOREM ForgetWipes == ASSUME Serial PROVE Spec => ForgetWipesVault
<1>1. SerialInv =>
        [\A c \in Callers :
           Reset(c) /\ Doing(c, "forget_server") =>
             \A e \in Entries : vault'[e] = None]_vars
  BY ResetStep
<1>2. QED
  BY <1>1, SerialInvariant, PTL DEF ForgetWipesVault

(***************************************************************************)
(* Trust on first use.  connect, the pin, signing in, resuming, dropping   *)
(* and forgetting each have one step that does it; the others stutter.     *)
(***************************************************************************)

\* What the abstract specification sees of a state.
Connected == IF Forgotten THEN None ELSE inner.verified
SignedIn == IF Forgotten \/ inner.session = None THEN None ELSE inner.session.token

\* Steps of the code and the abstract steps they are.
LEMMA TofuStep ==
  ASSUME Serial, TypeOK, SerialInv, [Next]_vars
  PROVE  [T!Next]_<<Pin, Connected, SignedIn>>
<1>1. PICK c \in Callers : Callers = {c}
  BY DEF Serial
<1>2. /\ Forgotten <=> call[c].pc = "reset" /\ call[c].op = "forget_server"
      /\ Forgotten' <=> call'[c].pc = "reset" /\ call'[c].op = "forget_server"
  BY <1>1, OneCaller DEF SerialInv, Forgotten, At, Doing
<1>3. /\ OneServer /\ SessionPinned /\ TokenAtPin /\ CallKnows(c) /\ Cleared(c)
  BY DEF SerialInv
<1>4. /\ call \in [Callers -> Calls] /\ CallOK(c)
      /\ vault \in [Entries -> Option(Accounts \cup Profiles)]
      /\ vault[SERVER_PROFILE] \in Option(Profiles)
      /\ inner \in [channel : Option(Servers), verified : Option(Servers),
                    session : Option(Sessions), identity : Option(Accounts),
                    secret_key : Option(Accounts)]
      /\ None \notin Servers /\ None \notin Profiles /\ None \notin Sessions
      /\ None \notin Accounts
  BY NoneAssumption DEF TypeOK
<1> DEFINE Stutters == UNCHANGED <<Pin, Connected, SignedIn>>
<1>5. ASSUME UNCHANGED <<inner, vault>>, Forgotten' <=> Forgotten PROVE Stutters
  BY <1>5 DEF Pin, Connected, SignedIn
<1> HIDE DEF Stutters
<1> USE <1>2, <1>3, <1>4
    DEF OneServer, SessionPinned, TokenAtPin, CallKnows, Cleared, At, Idle, Calls, CallOK,
        Option, Entries, Profiles, Sessions, Return, GoTo, Start, accountVars
<1>6. ASSUME ConnectReadPin(c) PROVE Stutters
  BY <1>5, <1>6 DEF ConnectReadPin
<1>7. ASSUME NEW op \in Ops, BeginLocked(c, op) PROVE Stutters
  BY <1>5, <1>7 DEF BeginLocked
<1>8. ASSUME NEW op \in Ops, ReadMasterKey(c, op) PROVE Stutters
  BY <1>5, <1>8 DEF ReadMasterKey
<1>9. ASSUME NEW op \in Ops, BeginClear(c, op) PROVE Stutters
  BY <1>5, <1>9 DEF BeginClear
<1>10. ASSUME NEW typed \in Option(Accounts), SignInResolve(c, typed) PROVE Stutters
  BY <1>5, <1>10 DEF SignInResolve
<1>11. ASSUME RestoreReadProfile(c) PROVE Stutters
  BY <1>5, <1>11 DEF RestoreReadProfile
<1>12. ASSUME Enter(c) PROVE Stutters
  BY <1>5, <1>12 DEF Enter, RpcOf
<1>13. ASSUME EnterRejected(c) PROVE Stutters
  BY <1>5, <1>13 DEF EnterRejected
<1>14. ASSUME NEW s \in Servers, ConnectDiscover(c, s) PROVE Stutters
  BY <1>5, <1>14 DEF ConnectDiscover
<1>15. ASSUME NEW s \in Servers, RestoreRediscover(c, s) PROVE Stutters
  BY <1>5, <1>15 DEF RestoreRediscover
<1>16. ASSUME NEW a \in Accounts, BootstrapAccepted(c, a) PROVE Stutters
  BY <1>5, <1>16 DEF BootstrapAccepted
<1>17. ASSUME NEW a \in Accounts, BootstrapReplyLost(c, a) PROVE Stutters
  BY <1>5, <1>17 DEF BootstrapReplyLost
<1>18. ASSUME NEW a \in Accounts, Login(c, a) PROVE Stutters
  BY <1>5, <1>18 DEF Login
<1>19. ASSUME NetworkReturns(c) PROVE Stutters
  BY <1>5, <1>19 DEF NetworkReturns, NetworkPCs
<1>20. ASSUME RegisterDevice(c) PROVE Stutters
  BY <1>5, <1>20 DEF RegisterDevice
<1>21. ASSUME SetAvatar(c) PROVE Stutters
  BY <1>5, <1>21 DEF SetAvatar
<1>22. ASSUME RestoreReadToken(c) PROVE Stutters
  BY <1>5, <1>22 DEF RestoreReadToken
<1>23. ASSUME StorageFails(c) PROVE Stutters
  BY <1>5, <1>23 DEF StorageFails
<1>24. ASSUME StoreDevice(c) PROVE Stutters
  BY <1>24 DEF StoreDevice, SetEntry, Stutters, Pin, Connected, SignedIn
<1>25. ASSUME ConnectInstall(c) PROVE \E s \in Servers : T!Connect(s)
  BY <1>25 DEF ConnectInstall, T!Connect, Pin
<1>26. ASSUME Resume(c) PROVE \E a \in Accounts : T!Resume(a)
  BY <1>26 DEF Resume, T!Resume, Pin
<1>27. ASSUME Authenticated(c) PROVE \E a \in Accounts : T!SignIn(a)
  BY <1>27 DEF Authenticated, NewSession, T!SignIn, Pin
<1>28. ASSUME Persist(c) PROVE Stutters \/ T!PinServer
  BY <1>28
     DEF Persist, SetEntry, ToCache, PersistNext, Stutters, T!PinServer, Pin, Connected,
         SignedIn
<1>29. ASSUME Clear(c) PROVE Stutters \/ T!Forget
  BY <1>29
     DEF Clear, DeleteEntry, ClearNext, clear, clear_session, Stutters, T!Forget, Pin,
         Connected, SignedIn
<1>30. ASSUME Reset(c) PROVE Stutters \/ T!Drop
  BY <1>30 DEF Reset, NoInner, Stutters, T!Drop, Pin, Connected, SignedIn
<1>31. ASSUME Crash PROVE T!Drop
  BY <1>31 DEF Crash, NoInner, T!Drop, Pin
<1>32. ASSUME UNCHANGED vars PROVE Stutters
  BY <1>5, <1>32 DEF vars, clientVars
<1>33. QED
  BY <1>1, <1>6, <1>7, <1>8, <1>9, <1>10, <1>11, <1>12, <1>13, <1>14, <1>15, <1>16, <1>17,
     <1>18, <1>19, <1>20, <1>21, <1>22, <1>23, <1>24, <1>25, <1>26, <1>27, <1>28, <1>29,
     <1>30, <1>31, <1>32
     DEF Next, Begin, TakeLock, Advance, Stutters, T!Next

\* With one call at a time, and whatever fails, the client implements trust on
\* first use: it connects to no server but the pinned one, only authenticating
\* pins, only forget_server unpins, and every session is one of the pinned
\* server (connect, persist, sign_out, forget_server, restore).
THEOREM TofuImplemented == ASSUME Serial PROVE Spec => TofuRefined
<1>1. Init => T!Init
  BY DEF Init, StorageInit, NoInner, Idle, Entries, T!Init, Pin, Forgotten, At
<1>2. TypeOK /\ SerialInv /\ [Next]_vars => [T!Next]_T!vars
  BY TofuStep DEF T!vars, Connected, SignedIn
<1>3. QED
  BY <1>1, <1>2, SerialInvariant, PTL DEF Spec, TofuRefined, T!Spec

\* With one call at a time, and whatever fails, a pin is never replaced by
\* another identity: only forget_server takes it away (check_pin, persist).
THEOREM PinStays == ASSUME Serial PROVE Spec => PinStable
<1>1. TypeOK /\ SerialInv /\ [Next]_vars => [Pin # None => Pin' \in {None, Pin}]_vars
  <2> SUFFICES ASSUME TypeOK, SerialInv, [Next]_vars, Pin # None
               PROVE  Pin' \in {None, Pin}
    OBVIOUS
  <2>1. [T!Next]_<<Pin, Connected, SignedIn>>
    BY TofuStep
  <2>2. T!Next => Pin' \in {None, Pin}
    BY DEF T!Next, T!Connect, T!SignIn, T!Resume, T!PinServer, T!Drop, T!Forget
  <2>3. QED
    BY <2>1, <2>2
<1>2. QED
  BY <1>1, SerialInvariant, PTL DEF Spec, PinStable
=============================================================================
