------------------------------ MODULE Account ------------------------------
(***************************************************************************)
(* The Account service of the Sylva servers, as the SDK uses it.  The      *)
(* service itself is not in this repository: it is modelled from the stubs *)
(* in transport/client.rs, the flows in flows.rs and the contract in       *)
(* account.proto.                                                          *)
(*                                                                         *)
(* A server is its identity key.  An account names everything that is its  *)
(* own: its user id, its master key, its Secret Key, its device secret and *)
(* its session tokens.  "The master key of a" and "the Secret Key of a"    *)
(* are both the value a, in the places that hold a key of that kind.       *)
(***************************************************************************)
EXTENDS Optional

CONSTANTS
  Servers,      \* server identities
  Accounts,     \* the accounts there are or will ever be
  Home          \* the server each account belongs to

ASSUME HomeAssumption == Home \in [Accounts -> Servers]

VARIABLES
  registered,   \* accounts whose server has accepted their key material
  avatar        \* the key each account's stored avatar is sealed under

accountVars == <<registered, avatar>>

Users(s) == {a \in Accounts : Home[a] = s}

AccountTypeOK ==
  /\ registered \subseteq Accounts
  /\ avatar \in [Accounts -> Option(Accounts)]

\* Any of the accounts may already exist, enrolled from other devices.
AccountInit ==
  /\ registered \in SUBSET Accounts
  /\ avatar = [a \in Accounts |-> None]

\* Bootstrap on server s: "rejected once any user exists".
Bootstrap(s, a) ==
  /\ Home[a] = s
  /\ Users(s) \cap registered = {}
  /\ registered' = registered \cup {a}
  /\ UNCHANGED avatar

\* Login and GetKeyMaterial: only an account of server s can sign in there.
CanLogin(s, a) == a \in registered /\ Home[a] = s

BugUnlockIdentity(a, key) == TRUE

\* unlock_identity: the wrapped bundle of account a opens with the account's
\* own Secret Key and no other (the password is the user's and is right).
unlock_identity(a, key) == key = a

\* SetAvatar, authenticated by a token of account a, with a blob sealed under
\* key: it overwrites what was stored.
StoreAvatar(a, key) ==
  /\ avatar' = [avatar EXCEPT ![a] = key]
  /\ UNCHANGED registered
=============================================================================
