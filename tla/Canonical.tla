----------------------------- MODULE Canonical -----------------------------
(***************************************************************************)
(* transport/discovery.rs: the bytes a server signs over its description   *)
(* of itself, domain-separated and with each field behind its length.      *)
(* Texts and keys are sequences of bytes.                                  *)
(***************************************************************************)
EXTENDS Naturals, Sequences

Byte == 0 .. 255

\* The numbers that fit two and four bytes, and the texts whose length does.
u16 == {n \in Nat : n \div 256 < 256}
u32 == {n \in Nat : n \div (256 * 256 * 256) < 256}
Field == {f \in Seq(Byte) : Len(f) \in u32}

\* DOMAIN, "sylva.discovery.v1".
DOMAIN_TAG == <<115, 121, 108, 118, 97, 46, 100, 105, 115, 99, 111, 118, 101, 114,
                121, 46, 118, 49>>

PAYLOAD_VERSION == 1

\* to_be_bytes of a u32 and of a u16; what does not fit is cut off, as by "as".
be_bytes_u32(n) == <<(n \div (256 * 256 * 256)) % 256, (n \div (256 * 256)) % 256,
                     (n \div 256) % 256, n % 256>>

be_bytes_u16(n) == <<(n \div 256) % 256, n % 256>>

push_field(out, field) == out \o (be_bytes_u32(Len(field)) \o field)

BugPayload(version, nonce, public, grpc_port, name) ==
  push_field(push_field(push_field(push_field(push_field(<<>>,
    DOMAIN_TAG), be_bytes_u32(version)), nonce), public), name)

\* What a server of some payload version signs.
payload(version, nonce, public, grpc_port, name) ==
  push_field(push_field(push_field(push_field(push_field(push_field(<<>>,
    DOMAIN_TAG), be_bytes_u32(version)), nonce), public), be_bytes_u16(grpc_port)), name)

\* What this client checks the signature against.
canonical_bytes(nonce, public, grpc_port, name) ==
  payload(PAYLOAD_VERSION, nonce, public, grpc_port, name)
=============================================================================
