---------------------------------- MODULE Utf8 ----------------------------------
(***************************************************************************)
(* UTF-8 as the program reads and writes it, byte by byte.  One decoder is *)
(* strict; the other lets an encoded surrogate half through, which the     *)
(* JSON decoder refuses with an error of its own, and so does the encoder. *)
(***************************************************************************)
EXTENDS Integers, Sequences

NotDecoded == [length |-> 0]

\* mutant: overlong forms are accepted.
LeadWithoutLeast(b) ==
  CASE b < 128       -> [more |-> 0, bits |-> b, least |-> 0]
    [] b \div 32 = 6  -> [more |-> 1, bits |-> b % 32, least |-> 128]
    [] b \div 16 = 14 -> [more |-> 2, bits |-> b % 16, least |-> 128]
    [] b \div 8 = 30  -> [more |-> 3, bits |-> b % 8, least |-> 65536]
    [] OTHER          -> [more |-> -1]

\* What the first byte says: how many bytes follow, the bits it carries and
\* the least code point that needs that many bytes.
Lead(b) ==
  CASE b < 128       -> [more |-> 0, bits |-> b, least |-> 0]
    [] b \div 32 = 6  -> [more |-> 1, bits |-> b % 32, least |-> 128]
    [] b \div 16 = 14 -> [more |-> 2, bits |-> b % 16, least |-> 2048]
    [] b \div 8 = 30  -> [more |-> 3, bits |-> b % 8, least |-> 65536]
    [] OTHER          -> [more |-> -1]

IsContinuation(b) == b \div 64 = 2
IsSurrogate(c) == 55296 <= c /\ c <= 57343
LastCodepoint == 1114111

\* Each byte that follows carries six bits.
CodepointOf(bytes, i, lead) ==
  LET taken[k \in 0..lead.more] == IF k = 0 THEN lead.bits ELSE 64 * taken[k - 1] + (bytes[i + k] % 64)
  IN  taken[lead.more]

DecodeOnePermissive(bytes, i) ==
  LET lead == Lead(bytes[i])
      codepoint == CodepointOf(bytes, i, lead)
  IN  IF /\ lead.more >= 0
         /\ i + lead.more <= Len(bytes)
         /\ \A k \in 1..lead.more : IsContinuation(bytes[i + k])
         /\ lead.least <= codepoint /\ codepoint <= LastCodepoint
      THEN [codepoint |-> codepoint, length |-> lead.more + 1]
      ELSE NotDecoded

IsWellFormed(bytes) ==
  LET from[i \in 1..(Len(bytes) + 1)] ==
        LET one == DecodeOnePermissive(bytes, i)
        IN  \/ i > Len(bytes)
            \/ one # NotDecoded /\ ~IsSurrogate(one.codepoint) /\ from[i + one.length]
  IN  from[1]

EncodeCodepoint(c) ==
  LET Continuation(shift) == 128 + ((c \div shift) % 64)
  IN  CASE c < 128                  -> <<c>>
        [] 128 <= c /\ c < 2048      -> <<192 + c \div 64, Continuation(1)>>
        [] 2048 <= c /\ c < 65536    -> <<224 + c \div 4096, Continuation(64), Continuation(1)>>
        [] 65536 <= c                -> <<240 + c \div 262144, Continuation(4096), Continuation(64), Continuation(1)>>
=============================================================================
