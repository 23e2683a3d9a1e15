------------------------------- MODULE Crypto -------------------------------
(***************************************************************************)
(* crypto/mod.rs, with ciphers that nobody breaks: a sealed blob opens with *)
(* the key it was sealed under and with no other, and two derivations give *)
(* the same key only from the same inputs.                                 *)
(*                                                                         *)
(* An account names its Secret Key, its master key and its private keys,   *)
(* as in Account.  The two private keys are wrapped in the same way and    *)
(* are one value here.                                                     *)
(***************************************************************************)
EXTENDS Optional

BugKekOfPassword(password, secret_key, salt, params) ==
  [password |-> password, secret_key |-> None, salt |-> salt, params |-> params]

\* The 2SKD key, of both secrets, the salt and the cost parameters.
derive_kek(password, secret_key, salt, params) ==
  [password |-> password, secret_key |-> secret_key, salt |-> salt, params |-> params]

seal(key, plaintext) == [key |-> key, plaintext |-> plaintext]

open(key, blob) == IF blob.key = key THEN blob.plaintext ELSE None

BugRewrapDefaultSalt(master_key, secret_key, new_password, salt, params) ==
  [master_key_wrapped |-> seal(derive_kek(new_password, secret_key, salt, params), master_key),
   kdf_salt |-> None, kdf_params |-> params]

\* The master key under a new password: what rotates is this wrap, the salt
\* and the parameters.
rewrap_master_key(master_key, secret_key, new_password, salt, params) ==
  [master_key_wrapped |-> seal(derive_kek(new_password, secret_key, salt, params), master_key),
   kdf_salt |-> salt, kdf_params |-> params]

\* The bundle of a new account: the master key under the 2SKD key, the private
\* keys under the master key.
bootstrap_identity(a, password, salt, params) ==
  [private_wrapped |-> seal(a, a),
   wrap |-> rewrap_master_key(a, a, password, salt, params)]

\* The master key and the private keys that a bundle opens to, or None.
unlock_identity(bundle, password, secret_key) ==
  LET kek == derive_kek(password, secret_key, bundle.wrap.kdf_salt, bundle.wrap.kdf_params)
      master_key == open(kek, bundle.wrap.master_key_wrapped)
      private == open(master_key, bundle.private_wrapped)
  IN IF master_key = None \/ private = None THEN None
     ELSE [master_key |-> master_key, private |-> private]
=============================================================================
