-------------------------- MODULE ClientProperties --------------------------
(***************************************************************************)
(* What the client promises, under which callers and faults it keeps it    *)
(* (the MC modules say), and what the theorems of ClientProofs are about.  *)
(***************************************************************************)
EXTENDS Client

(***************************************************************************)
(* Under every interleaving of callers and every fault.                    *)
(***************************************************************************)

\* No key reaches the vault or memory on the user's word alone: what is
\* cached belongs to an account whose server has accepted it, and the
\* identity in memory was unlocked by the Secret Key in memory.
KeysGenuine ==
  /\ \A e \in Entries \ {SERVER_PROFILE} : vault[e] \in Option(registered)
  /\ vault[SERVER_PROFILE] # None => vault[SERVER_PROFILE].user \in registered
  /\ inner.session # None => inner.session.token \in registered
  /\ inner.identity \in Option(registered)
  /\ inner.identity = inner.secret_key

(***************************************************************************)
(* Under every interleaving of callers, as long as nothing but the network *)
(* fails.                                                                  *)
(***************************************************************************)

Persisting == \E c \in Callers : At(c, "persist")

\* The account an entry of the vault is about.
Owner(e) ==
  IF e = SERVER_PROFILE /\ vault[e] # None THEN vault[e].user ELSE vault[e]

\* The entries that persist writes for every account.
AccountEntries == {MASTER_KEY, SECRET_KEY, SESSION_TOKEN, SERVER_PROFILE}

\* The vault never mixes accounts: between two persists, the master key, the
\* Secret Key, the token and the profile that are there are one account's,
\* however sign-outs and forgets cut into the persists.
VaultAgrees ==
  ~ Persisting =>
    \A e, f \in AccountEntries :
      vault[e] # None /\ vault[f] # None => Owner(e) = Owner(f)

\* The Secret Key of a registered account cannot be got back from anywhere
\* else: the user has it, the vault has it, or the create_owner that made it
\* is about to deliver it.
SecretKeyRetained ==
  \A a \in registered :
    \/ a \in shown
    \/ vault[SECRET_KEY] = a
    \/ \E c \in Callers : At(c, "persist") /\ Doing(c, "create_owner") /\ call[c].key = a

(***************************************************************************)
(* For a shell that makes one call at a time, under every fault.           *)
(***************************************************************************)

\* A forget_server whose vault is empty and whose Inner is not reset yet has
\* forgotten.
Forgotten == \E c \in Callers : At(c, "reset") /\ Doing(c, "forget_server")

T == INSTANCE Tofu WITH
       pinned    <- Pin,
       connected <- IF Forgotten THEN None ELSE inner.verified,
       signedIn  <- IF Forgotten \/ inner.session = None THEN None
                    ELSE inner.session.token

\* The client implements trust on first use.
TofuRefined == T!Spec

\* A session runs over a connection to the server its account lives on, the
\* one the client has verified: no token is ever sent to another server.
SessionAtHome ==
  inner.session # None =>
    /\ inner.session.server = Home[inner.session.token]
    /\ inner.session.server = inner.verified
    /\ inner.channel = inner.verified

\* When sign_in or create_owner returns Ok, a restart would restore the very
\* session it has opened: whatever half of an earlier persist or clear was in
\* the vault, every entry is the account's now and its server is pinned.
SignInHeals ==
  [][\A c \in Callers :
       Authenticated(c) =>
         /\ \A e \in AccountEntries : Owner(e)' = inner'.session.token
         /\ Pin' = inner'.session.server]_vars

\* When sign_out returns, memory holds neither session nor identity, and the
\* vault neither the token nor the master key.
SignOutDropsSession ==
  [][\A c \in Callers :
       Reset(c) /\ Doing(c, "sign_out") =>
         /\ inner'.session = None /\ inner'.identity = None
         /\ vault'[SESSION_TOKEN] = None /\ vault'[MASTER_KEY] = None]_vars

\* When forget_server returns, the vault is empty.
ForgetWipesVault ==
  [][\A c \in Callers :
       Reset(c) /\ Doing(c, "forget_server") => \A e \in Entries : vault'[e] = None]_vars

\* A pin is never replaced by another: a changed identity is refused until
\* the user forgets the server.
PinStable == [][Pin # None => Pin' \in {None, Pin}]_vars

(***************************************************************************)
(* For a shell that makes one call at a time, as long as neither the       *)
(* keychain nor the process fails.                                         *)
(***************************************************************************)

\* What an account has stored as its avatar, its own devices can open.
AvatarUnderOwnKey == \A a \in Accounts : avatar[a] \in {None, a}

\* The user that restore reports is the one whose session it has rebuilt.
RestoreReportsTokenUser ==
  [][\A c \in Callers : Resume(c) => call[c].user = inner'.session.token]_vars

\* The session in memory is the one a restart would restore: between the
\* calls that write the vault, its account is that of the master key, the
\* Secret Key, the token and the profile in the vault, and of the identity in
\* memory if there is one.
MemoryMatchesVault ==
  inner.session # None /\ (\A c \in Callers : call[c].pc \notin {"persist", "clear", "reset"}) =>
    /\ inner.identity \in Option({inner.session.token})
    /\ \A e \in AccountEntries : Owner(e) = inner.session.token

\* A return after sign_out needs only the password: as long as a server is
\* pinned, the Secret Key in the vault is that of the profile's account, even
\* after sign-outs, restores and sign-ins to other accounts.
ReturnNeedsOnlyPassword ==
  Pin # None /\ (\A c \in Callers : call[c].pc \notin {"persist", "clear"}) =>
    vault[SECRET_KEY] = vault[SERVER_PROFILE].user

(***************************************************************************)
(* Liveness.                                                               *)
(***************************************************************************)

\* Every call returns: no error path keeps the mutex, and no caller waits
\* for it for ever.
EveryCallReturns == \A c \in Callers : ~ At(c, "idle") ~> At(c, "idle")
=============================================================================
