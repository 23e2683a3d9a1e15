------------------------------- MODULE Client -------------------------------
(***************************************************************************)
(* client.rs: the stateful client handle of the SDK.  Inner, the in-memory *)
(* connection and session, is behind one async mutex; the vault is not.    *)
(* The shell calls the handle from several threads at once (ffi.rs), so    *)
(* each caller runs one operation at a time and the operations interleave  *)
(* wherever one of them touches the vault, takes the mutex, or waits for   *)
(* the network.                                                            *)
(*                                                                         *)
(* A step of a caller is one action: what the code does between two such   *)
(* points.  pc names the point the caller has reached.                     *)
(***************************************************************************)
EXTENDS Storage, Account, Trust

CONSTANTS
  Callers,      \* threads of the shell
  Ops,          \* the operations they use
  Faults        \* what goes wrong, besides the network

AllOps == {"connect", "create_owner", "sign_in", "enroll_this_device",
           "account_call", "get_avatar", "set_avatar", "sign_out",
           "forget_server", "restore"}

AllFaults == {"storage", "lost_reply", "crash"}

VARIABLES
  lock,         \* the caller that holds the mutex on Inner
  inner,        \* the fields of Inner
  call,         \* what each caller is doing
  shown         \* accounts whose Secret Key their user has been given

clientVars == <<lock, inner, call, shown>>
vars == <<clientVars, vault, accountVars>>

Sessions == [server : Servers, token : Accounts]
Profiles == [identity : Servers, user : Accounts]

ASSUME NoneAssumption ==
  None \notin Servers \cup Accounts \cup Callers \cup Sessions \cup Profiles

ASSUME OpsAssumption == Ops \subseteq AllOps /\ Faults \subseteq AllFaults

(***************************************************************************)
(* State.                                                                  *)
(***************************************************************************)

\* Inner::default().
NoInner == [channel |-> None, verified |-> None, session |-> None,
            identity |-> None, secret_key |-> None]

\* The locals of a call, as far as a later step reads them:
\*   user    the account the server has answered for, or restore's profile
\*   key     the key or the token read before the mutex is taken
\*   server  the pin read from the vault, then the server that was verified
\*   at      the vault entry the next operation is on
Idle == [op |-> None, pc |-> "idle", user |-> None, key |-> None,
         server |-> None, at |-> None]

PCs == {"idle", "discover", "install", "enter", "bootstrap", "login", "persist",
        "register", "store_device", "rpc", "clear", "reset", "read_token",
        "rediscover", "resume"}

\* Points a caller is at only while it holds the mutex.
LockedPCs == {"bootstrap", "login", "persist", "register", "store_device", "rpc"}

\* Points where a caller waits for the network.
NetworkPCs == {"discover", "rediscover", "bootstrap", "login", "register", "rpc"}

Calls == [op : Option(AllOps), pc : PCs, user : Option(Accounts),
          key : Option(Accounts), server : Option(Servers),
          at : Option(Entries \cup {Done})]

\* A call has the locals its point reads, and Inner the fields.
CallOK(c) ==
  LET k == call[c] IN
  /\ k.pc \in {"install", "resume"} => k.server \in Servers
  /\ k.pc \in {"rediscover", "resume"} => k.key \in Accounts
  /\ k.pc = "clear" => k.at \in Entries
  /\ k.pc = "persist" => /\ k.op \in {"create_owner", "sign_in"}
                         /\ k.at \in Entries \cup {Done}
                         /\ k.user \in Accounts /\ k.key = k.user
  /\ k.pc = "login" => k.op = "sign_in"
  /\ k.pc = "bootstrap" => k.op = "create_owner"
  /\ k.pc \in {"bootstrap", "login", "persist"} =>
       inner.channel \in Servers /\ inner.verified \in Servers
  /\ k.pc \in {"register", "store_device", "rpc"} => inner.session \in Sessions

\* Everything has its type, and the caller that holds the mutex is the one at
\* a point the code reaches with the guard alive.
TypeOK ==
  /\ AccountTypeOK
  /\ shown \subseteq Accounts
  /\ lock \in Option(Callers)
  /\ inner \in [channel : Option(Servers), verified : Option(Servers),
                session : Option(Sessions), identity : Option(Accounts),
                secret_key : Option(Accounts)]
  /\ call \in [Callers -> Calls]
  /\ vault \in [Entries -> Option(Accounts \cup Profiles)]
  /\ \A e \in Entries \ {SERVER_PROFILE} : vault[e] \in Option(Accounts)
  /\ vault[SERVER_PROFILE] \in Option(Profiles)
  /\ \A c \in Callers : call[c].pc \in LockedPCs <=> lock = c
  /\ \A c \in Callers : CallOK(c)

Init ==
  /\ AccountInit
  /\ StorageInit
  /\ shown = registered
  /\ lock = None
  /\ inner = NoInner
  /\ call = [c \in Callers |-> Idle]

(***************************************************************************)
(* Steps of a call.                                                        *)
(***************************************************************************)

At(c, pc) == call[c].pc = pc
Doing(c, op) == call[c].op = op

\* Caller c, idle, starts op and goes on to the point locals.pc.
Start(c, op, locals) ==
  /\ At(c, "idle")
  /\ op \in Ops
  /\ call' = [call EXCEPT ![c] = locals]

GoTo(c, pc) == call' = [call EXCEPT ![c].pc = pc]

\* The mutex can be taken.
Free == lock = None

BugUnlocked(c) == lock

\* The guard is dropped when the call returns.
Unlocked(c) == IF lock = c THEN None ELSE lock

Return(c) ==
  /\ call' = [call EXCEPT ![c] = Idle]
  /\ lock' = Unlocked(c)

\* The pin that connect hands to the trust check.
Pin == IF vault[SERVER_PROFILE] = None THEN None
       ELSE vault[SERVER_PROFILE].identity

(***************************************************************************)
(* connect: the pin is read before the discovery, and Inner is written     *)
(* after it, under the mutex.                                              *)
(***************************************************************************)

ConnectReadPin(c) ==
  /\ Start(c, "connect", [Idle EXCEPT !.op = "connect", !.pc = "discover",
                                      !.server = Pin])
  /\ UNCHANGED <<lock, inner, shown, vault, accountVars>>

\* discover_and_connect finds server s at the address the user entered.
ConnectDiscover(c, s) ==
  /\ At(c, "discover")
  /\ check_pin(s, call[c].server) # "Mismatch"
  /\ call' = [call EXCEPT ![c].server = s, ![c].pc = "install"]
  /\ UNCHANGED <<lock, inner, shown, vault, accountVars>>

ConnectInstall(c) ==
  /\ At(c, "install")
  /\ Free
  /\ inner' = [inner EXCEPT !.channel = call[c].server,
                            !.verified = call[c].server]
  /\ Return(c)
  /\ UNCHANGED <<shown, vault, accountVars>>

(***************************************************************************)
(* Calls that hold the mutex while they wait for the server.               *)
(***************************************************************************)

\* create_owner, enroll_this_device and the calls that only ask the server
\* something (list_devices, get_profile, update_email, ...) first take the
\* mutex.
BeginLocked(c, op) ==
  /\ op \in {"create_owner", "enroll_this_device", "account_call"}
  /\ Start(c, op, [Idle EXCEPT !.op = op, !.pc = "enter"])
  /\ UNCHANGED <<lock, inner, shown, vault, accountVars>>

\* sign_in settles which Secret Key to use before it takes the mutex: the one
\* the user typed, or else the cached one; with neither it returns.
SignInResolve(c, typed) ==
  LET resolved == IF typed # None THEN typed ELSE vault[SECRET_KEY] IN
  /\ resolved # None
  /\ Start(c, "sign_in", [Idle EXCEPT !.op = "sign_in", !.pc = "enter",
                                      !.key = resolved])
  /\ UNCHANGED <<lock, inner, shown, vault, accountVars>>

\* get_avatar and set_avatar take the master key out of the vault first, and
\* set_avatar seals the image under it there and then.
ReadMasterKey(c, op) ==
  /\ op \in {"get_avatar", "set_avatar"}
  /\ vault[MASTER_KEY] # None
  /\ Start(c, op, [Idle EXCEPT !.op = op, !.pc = "enter",
                               !.key = vault[MASTER_KEY]])
  /\ UNCHANGED <<lock, inner, shown, vault, accountVars>>

\* The RPC each operation makes once it has the mutex.
RpcOf(op) ==
  CASE op = "create_owner"       -> "bootstrap"
    [] op = "sign_in"            -> "login"
    [] op = "enroll_this_device" -> "register"
    [] OTHER                     -> "rpc"

\* NotConnected or NotSignedIn otherwise.
Ready(op) ==
  IF op \in {"create_owner", "sign_in"}
  THEN inner.channel # None /\ inner.verified # None
  ELSE inner.session # None

Enter(c) ==
  /\ At(c, "enter")
  /\ Free
  /\ Ready(call[c].op)
  /\ lock' = c
  /\ GoTo(c, RpcOf(call[c].op))
  /\ UNCHANGED <<inner, shown, vault, accountVars>>

EnterRejected(c) ==
  /\ At(c, "enter")
  /\ Free
  /\ ~ Ready(call[c].op)
  /\ Return(c)
  /\ UNCHANGED <<inner, shown, vault, accountVars>>

\* Any wait for the network may end in an error: unreachable, refused, a
\* server other than the pinned one, a wrong key, MFA.  A call that only asks
\* the server something ends the same way when it succeeds.
NetworkReturns(c) ==
  /\ call[c].pc \in NetworkPCs
  /\ Return(c)
  /\ UNCHANGED <<inner, shown, vault, accountVars>>

\* The server takes the key material of account a, which create_owner has
\* just made up, and the reply arrives.
BootstrapAccepted(c, a) ==
  /\ At(c, "bootstrap")
  /\ Bootstrap(inner.channel, a)
  /\ call' = [call EXCEPT ![c].user = a, ![c].key = a,
                          ![c].pc = "persist", ![c].at = MASTER_KEY]
  /\ UNCHANGED <<lock, inner, shown, vault>>

\* ... or the reply is lost, and the call fails.
BootstrapReplyLost(c, a) ==
  /\ "lost_reply" \in Faults
  /\ At(c, "bootstrap")
  /\ Bootstrap(inner.channel, a)
  /\ Return(c)
  /\ UNCHANGED <<inner, shown, vault>>

\* flows::login: the server accepts the password of account a and returns the
\* wrapped bundle, which opens with the resolved Secret Key.
Login(c, a) ==
  /\ At(c, "login")
  /\ CanLogin(inner.channel, a)
  /\ unlock_identity(a, call[c].key)
  /\ call' = [call EXCEPT ![c].user = a, ![c].pc = "persist",
                          ![c].at = MASTER_KEY]
  /\ UNCHANGED <<lock, inner, shown, vault, accountVars>>

(***************************************************************************)
(* persist: one entry at a time; only create_owner has a device secret.    *)
(***************************************************************************)

BugPersistNoPin(op, e) ==
  CASE e = MASTER_KEY -> SECRET_KEY
    [] e = SECRET_KEY -> SESSION_TOKEN
    [] OTHER          -> Done

BugPersistPinOnce(op, e) ==
  CASE e = MASTER_KEY    -> SECRET_KEY
    [] e = SECRET_KEY    -> SESSION_TOKEN
    [] e = SESSION_TOKEN -> IF vault[SERVER_PROFILE] = None THEN SERVER_PROFILE ELSE Done
    [] OTHER             -> Done

BugPersistNoDevice(op, e) ==
  CASE e = MASTER_KEY    -> SECRET_KEY
    [] e = SECRET_KEY    -> SESSION_TOKEN
    [] e = SESSION_TOKEN -> SERVER_PROFILE
    [] OTHER             -> Done

PersistNext(op, e) ==
  CASE e = MASTER_KEY    -> SECRET_KEY
    [] e = SECRET_KEY    -> SESSION_TOKEN
    [] e = SESSION_TOKEN -> IF op = "create_owner" THEN DEVICE_SECRET
                            ELSE SERVER_PROFILE
    [] e = DEVICE_SECRET -> SERVER_PROFILE
    [] OTHER             -> Done

BugToCache(c, e) ==
  CASE e = SERVER_PROFILE -> [identity |-> inner.verified, user |-> call[c].user]
    [] e = SECRET_KEY     -> IF inner.secret_key # None THEN inner.secret_key ELSE call[c].key
    [] OTHER              -> call[c].user

\* ToCache: what the call writes to entry e.
ToCache(c, e) ==
  CASE e = SERVER_PROFILE -> [identity |-> inner.verified, user |-> call[c].user]
    [] e = SECRET_KEY     -> call[c].key
    [] OTHER              -> call[c].user

Persist(c) ==
  /\ At(c, "persist")
  /\ call[c].at # Done
  /\ SetEntry(call[c].at, ToCache(c, call[c].at))
  /\ call' = [call EXCEPT ![c].at = PersistNext(call[c].op, call[c].at)]
  /\ UNCHANGED <<lock, inner, shown, accountVars>>

BugShown(c) == shown

\* create_owner's result carries the Secret Key for the user to write down.
Shown(c) == IF Doing(c, "create_owner") THEN shown \cup {call[c].key} ELSE shown

BugNewSession(c) ==
  IF inner.session # None THEN inner.session
  ELSE [server |-> inner.channel, token |-> call[c].user]

\* AccountSession::new: over the channel the call took, with the new token.
NewSession(c) == [server |-> inner.channel, token |-> call[c].user]

\* Everything is cached: the session opens and the result goes back.
Authenticated(c) ==
  /\ At(c, "persist")
  /\ call[c].at = Done
  /\ inner' = [inner EXCEPT
       !.session = NewSession(c),
       !.identity = call[c].user,
       !.secret_key = call[c].key]
  /\ shown' = Shown(c)
  /\ Return(c)
  /\ UNCHANGED <<vault, accountVars>>

(***************************************************************************)
(* Calls with a session.                                                   *)
(***************************************************************************)

\* enroll_this_device: the server records the device, then its secret goes
\* to the vault.
RegisterDevice(c) ==
  /\ At(c, "register")
  /\ GoTo(c, "store_device")
  /\ UNCHANGED <<lock, inner, shown, vault, accountVars>>

StoreDevice(c) ==
  /\ At(c, "store_device")
  /\ SetEntry(DEVICE_SECRET, inner.session.token)
  /\ Return(c)
  /\ UNCHANGED <<inner, shown, accountVars>>

\* set_avatar: the blob, sealed before the mutex was taken, is stored for the
\* account of the session that is live now.
SetAvatar(c) ==
  /\ At(c, "rpc")
  /\ Doing(c, "set_avatar")
  /\ StoreAvatar(inner.session.token, call[c].key)
  /\ Return(c)
  /\ UNCHANGED <<inner, shown, vault>>

(***************************************************************************)
(* sign_out and forget_server: the vault is cleared before the mutex is    *)
(* taken, then Inner is reset under it.                                    *)
(***************************************************************************)

ClearFirst(op) == IF op = "sign_out" THEN SESSION_TOKEN ELSE MASTER_KEY

BugClearKeepsKey(op, e) == IF op = "sign_out" THEN Done ELSE clear(e)

BugClearKeepsPin(op, e) ==
  IF op = "sign_out" THEN clear_session(e)
  ELSE IF e = SESSION_TOKEN THEN Done ELSE clear(e)

BugClearAll(op, e) ==
  CASE op = "forget_server" -> clear(e)
    [] e = SESSION_TOKEN    -> MASTER_KEY
    [] e = DEVICE_SECRET    -> Done
    [] OTHER                -> clear(e)

ClearNext(op, e) == IF op = "sign_out" THEN clear_session(e) ELSE clear(e)

BeginClear(c, op) ==
  /\ op \in {"sign_out", "forget_server"}
  /\ Start(c, op, [Idle EXCEPT !.op = op, !.pc = "clear", !.at = ClearFirst(op)])
  /\ UNCHANGED <<lock, inner, shown, vault, accountVars>>

Clear(c) ==
  LET next == ClearNext(call[c].op, call[c].at) IN
  /\ At(c, "clear")
  /\ DeleteEntry(call[c].at)
  /\ call' = [call EXCEPT ![c].at = IF next = Done THEN None ELSE next,
                          ![c].pc = IF next = Done THEN "reset" ELSE "clear"]
  /\ UNCHANGED <<lock, inner, shown, accountVars>>

Reset(c) ==
  /\ At(c, "reset")
  /\ Free
  /\ inner' = NoInner
  /\ Return(c)
  /\ UNCHANGED <<shown, vault, accountVars>>

(***************************************************************************)
(* restore: profile and token are two reads, the reconnection follows, and *)
(* Inner is written last.                                                  *)
(***************************************************************************)

RestoreReadProfile(c) ==
  /\ vault[SERVER_PROFILE] # None
  /\ Start(c, "restore", [Idle EXCEPT !.op = "restore", !.pc = "read_token",
                                      !.user = vault[SERVER_PROFILE].user,
                                      !.server = vault[SERVER_PROFILE].identity])
  /\ UNCHANGED <<lock, inner, shown, vault, accountVars>>

RestoreReadToken(c) ==
  /\ At(c, "read_token")
  /\ IF vault[SESSION_TOKEN] = None
     THEN Return(c)
     ELSE /\ call' = [call EXCEPT ![c].key = vault[SESSION_TOKEN],
                                  ![c].pc = "rediscover"]
          /\ UNCHANGED lock
  /\ UNCHANGED <<inner, shown, vault, accountVars>>

RestoreRediscover(c, s) ==
  /\ At(c, "rediscover")
  /\ check_pin(s, call[c].server) # "Mismatch"
  /\ call' = [call EXCEPT ![c].server = s, ![c].pc = "resume"]
  /\ UNCHANGED <<lock, inner, shown, vault, accountVars>>

\* The unlocked identity is not restored.
Resume(c) ==
  /\ At(c, "resume")
  /\ Free
  /\ inner' = [inner EXCEPT
       !.session = [server |-> call[c].server, token |-> call[c].key],
       !.verified = call[c].server,
       !.channel = call[c].server]
  /\ Return(c)
  /\ UNCHANGED <<shown, vault, accountVars>>

(***************************************************************************)
(* Faults.                                                                 *)
(***************************************************************************)

\* The keychain refuses an operation and the call returns Storage at once,
\* whatever it has done so far.  A refusal of the first read changes nothing.
StorageFails(c) ==
  /\ "storage" \in Faults
  /\ \/ At(c, "persist") /\ call[c].at # Done
     \/ call[c].pc \in {"store_device", "clear", "read_token"}
  /\ Return(c)
  /\ UNCHANGED <<inner, shown, vault, accountVars>>

\* The process dies and starts again: the vault and the servers stay.
Crash ==
  /\ "crash" \in Faults
  /\ lock' = None
  /\ inner' = NoInner
  /\ call' = [c \in Callers |-> Idle]
  /\ UNCHANGED <<shown, vault, accountVars>>

(***************************************************************************)
(* The client.                                                             *)
(***************************************************************************)

\* The user starts an operation.
Begin(c) ==
  \/ ConnectReadPin(c)
  \/ \E op \in Ops : BeginLocked(c, op) \/ ReadMasterKey(c, op) \/ BeginClear(c, op)
  \/ \E typed \in Option(Accounts) : SignInResolve(c, typed)
  \/ RestoreReadProfile(c)

\* Steps that wait for the mutex.
TakeLock(c) == ConnectInstall(c) \/ Enter(c) \/ EnterRejected(c) \/ Reset(c) \/ Resume(c)

\* The other steps of an operation that is under way.
Advance(c) ==
  \/ \E s \in Servers : ConnectDiscover(c, s) \/ RestoreRediscover(c, s)
  \/ \E a \in Accounts : BootstrapAccepted(c, a) \/ BootstrapReplyLost(c, a) \/ Login(c, a)
  \/ NetworkReturns(c)
  \/ Persist(c) \/ Authenticated(c)
  \/ RegisterDevice(c) \/ StoreDevice(c) \/ SetAvatar(c)
  \/ Clear(c) \/ RestoreReadToken(c)
  \/ StorageFails(c)

Next == (\E c \in Callers : Begin(c) \/ TakeLock(c) \/ Advance(c)) \/ Crash

Spec == Init /\ [][Next]_vars

\* The runtime schedules every call (WF), the mutex is fair (SF: tokio's Mutex
\* is first come, first served), and a server that is asked either answers or
\* the connection fails (WF of the network steps).  The last is an assumption
\* about the world: the code sets no timeout of its own.
Fairness == \A c \in Callers : WF_vars(Advance(c)) /\ SF_vars(TakeLock(c))

FairSpec == Spec /\ Fairness
=============================================================================
