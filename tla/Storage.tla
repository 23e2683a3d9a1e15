------------------------------ MODULE Storage ------------------------------
(***************************************************************************)
(* storage.rs: the vault, a flat store of five entries that outlives the   *)
(* process.  Each set and each delete is one keychain operation: a caller  *)
(* that needs several does them one at a time, and anything can happen in  *)
(* between.                                                                *)
(***************************************************************************)
EXTENDS Optional

VARIABLE vault      \* what each entry holds, None when it is absent

MASTER_KEY     == "master_key"
SECRET_KEY     == "secret_key"
DEVICE_SECRET  == "device_secret"
SESSION_TOKEN  == "session_token"
SERVER_PROFILE == "server_profile"

Entries ==
  {MASTER_KEY, SECRET_KEY, DEVICE_SECRET, SESSION_TOKEN, SERVER_PROFILE}

\* A sequence of operations on the entries that has reached its end.
Done == "done"

StorageInit == vault = [e \in Entries |-> None]

SetEntry(e, value) == vault' = [vault EXCEPT ![e] = value]

DeleteEntry(e) == vault' = [vault EXCEPT ![e] = None]

\* Vault::clear deletes every entry in this order, Vault::clear_session the
\* token and the master key.
clear(e) ==
  CASE e = MASTER_KEY    -> SECRET_KEY
    [] e = SECRET_KEY    -> DEVICE_SECRET
    [] e = DEVICE_SECRET -> SESSION_TOKEN
    [] e = SESSION_TOKEN -> SERVER_PROFILE
    [] OTHER             -> Done

clear_session(e) == IF e = SESSION_TOKEN THEN MASTER_KEY ELSE Done
=============================================================================
