----------------------------- MODULE SealedBox -----------------------------
(***************************************************************************)
(* crypto/mod.rs: anonymous public-key encryption to an X25519 key, with   *)
(* the ciphers of Crypto.  A secret key names its pair; the agreement of   *)
(* two pairs is the set of them, the same from either side.                *)
(***************************************************************************)
EXTENDS Crypto

public_key(secret) == [public |-> secret]

diffie_hellman(secret, public) == {secret, public.public}

\* The AEAD key, bound to the message and to its recipient.
sealbox_key(shared, ephemeral_public, recipient_public) ==
  [shared |-> shared, ephemeral_public |-> ephemeral_public,
   recipient_public |-> recipient_public]

\* The sender's pair is made for the one message.
seal_to(ephemeral, recipient_public, plaintext) ==
  [ephemeral_public |-> public_key(ephemeral),
   sealed |-> seal(sealbox_key(diffie_hellman(ephemeral, recipient_public),
                               public_key(ephemeral), recipient_public),
                   plaintext)]

BugOpenSealed(recipient_secret, blob) ==
  open(sealbox_key(diffie_hellman(recipient_secret, blob.ephemeral_public),
                   public_key(recipient_secret), blob.ephemeral_public),
       blob.sealed)

open_sealed(recipient_secret, blob) ==
  open(sealbox_key(diffie_hellman(recipient_secret, blob.ephemeral_public),
                   blob.ephemeral_public, public_key(recipient_secret)),
       blob.sealed)
=============================================================================
