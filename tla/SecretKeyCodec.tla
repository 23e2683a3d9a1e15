--------------------------- MODULE SecretKeyCodec ---------------------------
(***************************************************************************)
(* crypto/secret_key.rs: the Secret Key is shown once for write-down, in   *)
(* groups of four Crockford symbols, and typed in again on the next device, *)
(* one character after the other and as carelessly as the parser forgives. *)
(*                                                                         *)
(* Both directions repack bits through an accumulator of one machine word. *)
(***************************************************************************)
EXTENDS Naturals, Sequences, SequencesExt

CONSTANTS
  KeyBytes,     \* SECRET_KEY_BYTES, 20
  Word,         \* accumulators count modulo Word, 2^32
  Keys,         \* the keys there are
  MaxSlips      \* bound: symbols typed after the end of the key

\* "exactly 32 Crockford base32 symbols, no padding": whole symbols.
ASSUME KeyBytesAssumption == KeyBytes \in Nat \ {0} /\ KeyBytes % 5 = 0

\* An accumulator has room for what is left over and the next byte.
ASSUME WordAssumption == Word \in Nat /\ Word > 0 /\ Word % 4096 = 0

Bytes == 0 .. 255

ASSUME KeysAssumption == Keys \subseteq [1 .. KeyBytes -> Bytes]

ALPHABET ==
  <<"0", "1", "2", "3", "4", "5", "6", "7", "8", "9", "A", "B", "C", "D", "E", "F",
    "G", "H", "J", "K", "M", "N", "P", "Q", "R", "S", "T", "V", "W", "X", "Y", "Z">>

Separators == {"-", " "}

VARIABLES
  key,          \* the bytes of the key
  enc,          \* encode_grouped: bytes read, accumulator, symbols, text
  next,         \* the position in the text that the user has come to
  dec,          \* decode_forgiving: accumulator, symbols, bytes
  slips,        \* symbols typed after the end of the text
  parsed        \* what the parser has said: "ok", "error", or "" so far

vars == <<key, enc, next, dec, slips, parsed>>

Init ==
  /\ key \in Keys
  /\ enc = [read |-> 0, acc |-> 0, acc_bits |-> 0, symbols |-> 0, out |-> <<>>, done |-> FALSE]
  /\ dec = [acc |-> 0, acc_bits |-> 0, symbols |-> 0, out |-> <<>>]
  /\ next = 1 /\ slips = 0 /\ parsed = ""

(***************************************************************************)
(* encode_grouped.                                                         *)
(***************************************************************************)

\* Five bits of the accumulator, above the lowest shift bits.
Digit(acc, shift) == ALPHABET[((acc \div 2^shift) % 32) + 1]

BugGrouped(symbols) == symbols % 4 = 0 /\ symbols # 16

\* A hyphen follows every fourth symbol.
Grouped(symbols) == symbols % 4 = 0

\* A byte is read once the inner loop has taken what it can.
EncodeByte ==
  /\ enc.acc_bits < 5 /\ enc.read < KeyBytes
  /\ enc' = [enc EXCEPT !.read = @ + 1,
                        !.acc = (@ * 256 + key[enc.read + 1]) % Word,
                        !.acc_bits = @ + 8]
  /\ UNCHANGED <<key, next, dec, slips, parsed>>

\* The inner loop: one more symbol, from the top of what is left.
EmitSymbol ==
  LET shift == enc.acc_bits - 5
      text == Append(enc.out, Digit(enc.acc, shift))
  IN
  /\ enc.acc_bits >= 5
  /\ enc' = [enc EXCEPT !.acc_bits = shift, !.symbols = @ + 1,
                        !.out = IF Grouped(enc.symbols + 1) THEN Append(text, "-") ELSE text]
  /\ UNCHANGED <<key, next, dec, slips, parsed>>

\* Bits left over make a last symbol; the hyphen after a full group goes.
EncodeEnd ==
  LET out == IF enc.acc_bits > 0
             THEN Append(enc.out, ALPHABET[((enc.acc * 2^(5 - enc.acc_bits)) % 32) + 1])
             ELSE enc.out
  IN
  /\ enc.acc_bits < 5 /\ enc.read = KeyBytes /\ ~ enc.done
  /\ enc' = [enc EXCEPT !.done = TRUE,
                        !.out = IF Last(out) = "-" THEN Front(out) ELSE out]
  /\ UNCHANGED <<key, next, dec, slips, parsed>>

(***************************************************************************)
(* decode_forgiving, one character at a time.                              *)
(***************************************************************************)

BugSymbolValue(upper) ==
  CASE upper \in {"O", "I"} -> 0
    [] upper = "L"          -> 1
    [] OTHER                -> (CHOOSE p \in 1 .. 32 : ALPHABET[p] = upper) - 1

\* The look-alikes are forgiven.
symbol_value(upper) ==
  CASE upper = "O"          -> 0
    [] upper \in {"I", "L"} -> 1
    [] OTHER                -> (CHOOSE p \in 1 .. 32 : ALPHABET[p] = upper) - 1

\* The characters symbol_value knows; to_ascii_uppercase has been at them.
Symbols == {ALPHABET[p] : p \in 1 .. 32} \cup {"O", "I", "L"}

TakesByte(acc_bits) == acc_bits >= 8

\* Eight bits of the accumulator, above the lowest shift bits.
Byte(acc, shift) == (acc \div 2^shift) % 256

\* The accumulator has taken one more symbol: a byte is written if there is one.
Took(acc, acc_bits) ==
  IF TakesByte(acc_bits)
  THEN [acc |-> acc, acc_bits |-> acc_bits - 8, symbols |-> dec.symbols + 1,
        out |-> Append(dec.out, Byte(acc, acc_bits - 8))]
  ELSE [acc |-> acc, acc_bits |-> acc_bits, symbols |-> dec.symbols + 1, out |-> dec.out]

Decode(upper) ==
  dec' = Took((dec.acc * 32 + symbol_value(upper)) % Word, dec.acc_bits + 5)

(***************************************************************************)
(* The user at the keyboard.                                               *)
(***************************************************************************)

Typing == enc.done /\ parsed = ""

\* What may be typed for a character of the text, once it is in upper case.
Readings(glyph) ==
  {glyph} \cup (IF glyph = "0" THEN {"O"} ELSE {})
          \cup (IF glyph = "1" THEN {"I", "L"} ELSE {})

TypeSymbol(upper) ==
  /\ Typing /\ next <= Len(enc.out)
  /\ enc.out[next] \notin Separators
  /\ upper \in Readings(enc.out[next])
  /\ Decode(upper)
  /\ next' = next + 1
  /\ UNCHANGED <<key, enc, slips, parsed>>

\* Hyphens are optional: typed or not, as hyphens or as spaces, they leave the
\* parser where it is, as they would anywhere else.
PassSeparator ==
  /\ Typing /\ next <= Len(enc.out)
  /\ enc.out[next] \in Separators
  /\ next' = next + 1
  /\ UNCHANGED <<key, enc, dec, slips, parsed>>

\* The user goes on after the last character.
Slip(upper) ==
  /\ Typing /\ next > Len(enc.out)
  /\ slips < MaxSlips
  /\ slips' = slips + 1
  /\ Decode(upper)
  /\ UNCHANGED <<key, enc, next, parsed>>

\* A character that is no symbol ends the parse.
TypeInvalid ==
  /\ Typing
  /\ parsed' = "error"
  /\ UNCHANGED <<key, enc, next, dec, slips>>

\* The input ends here; the bytes must fill the key.
ParseEnd ==
  /\ Typing
  /\ parsed' = IF Len(dec.out) = KeyBytes THEN "ok" ELSE "error"
  /\ UNCHANGED <<key, enc, next, dec, slips>>

Next ==
  \/ EncodeByte \/ EmitSymbol \/ EncodeEnd
  \/ \E upper \in Symbols : TypeSymbol(upper) \/ Slip(upper)
  \/ PassSeparator \/ TypeInvalid \/ ParseEnd

Spec == Init /\ [][Next]_vars

(***************************************************************************)
(* Properties.                                                             *)
(***************************************************************************)

\* What base32 is: symbol n of the text stands for bits 5n .. 5n + 4 of the
\* key, from its top.
Bit(n) == (key[(n \div 8) + 1] \div 2^(7 - (n % 8))) % 2

SymbolAt(n) ==
  ALPHABET[16 * Bit(5*n) + 8 * Bit(5*n + 1) + 4 * Bit(5*n + 2)
           + 2 * Bit(5*n + 3) + Bit(5*n + 4) + 1]

\* The display is the key in base32, in groups of four with a hyphen between
\* two groups and none at the end.
DisplayIsBase32 ==
  enc.done =>
    LET n == (KeyBytes * 8) \div 5 IN
    /\ Len(enc.out) = n + ((n - 1) \div 4)
    /\ \A i \in 1 .. Len(enc.out) :
         enc.out[i] = IF i % 5 = 0 THEN "-" ELSE SymbolAt(i - (i \div 5) - 1)

\* A key read off the display and typed back, with look-alikes or without its
\* hyphens, is the key: the parser has its first bytes all along, all of them
\* at the end of the text, and what it accepts is no less and no more.
TypedKeyIsDisplayed ==
  /\ \A i \in 1 .. Len(dec.out) : i <= KeyBytes => dec.out[i] = key[i]
  /\ enc.done /\ next > Len(enc.out) /\ slips = 0 => dec.out = key
  /\ parsed = "ok" => dec.out = key
=============================================================================
