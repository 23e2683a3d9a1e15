-------------------------- MODULE MCSecretKeyCodec --------------------------
(***************************************************************************)
(* Keys for TLC: of constant bytes, of bytes that go up, and of bytes that *)
(* jump about, with the ends of the range and of its halves among them.    *)
(***************************************************************************)
EXTENDS SecretKeyCodec

MCKeys == {[i \in 1 .. KeyBytes |-> (step * i + first) % 256] :
             step \in {0, 1, 37, 85, 128, 251}, first \in {0, 1, 127, 128, 255}}
=============================================================================
