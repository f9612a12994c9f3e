--------------------------------- MODULE Unicode ---------------------------------
(***************************************************************************)
(* The reference for Utf8: the well-formed byte sequences of the Unicode   *)
(* Standard, read from left to right.                                      *)
(***************************************************************************)
EXTENDS Utf8

VARIABLES
  text,      \* what has been typed
  alphabet   \* what it is typed from

Byte == 0..255
Later == 128..191

\* The standard's table: the range of the first byte and those of the bytes
\* after it.
Rows(surrogates) ==
  LET Row(first, rest) == [first |-> first, rest |-> rest]
  IN  { Row(0..127, <<>>), Row(194..223, <<Later>>),
        Row({224}, <<160..191, Later>>), Row(225..236, <<Later, Later>>),
        Row({237}, <<128..(IF surrogates THEN 191 ELSE 159), Later>>), Row(238..239, <<Later, Later>>),
        Row({240}, <<144..191, Later, Later>>), Row(241..243, <<Later, Later, Later>>),
        Row({244}, <<128..143, Later, Later>>) }

\* The ranges the bytes to come must be in; none at all when it is too late.
TooLate == <<{}>>

Expected(awaited, b, surrogates) ==
  LET rows == {row \in Rows(surrogates) : b \in row.first}
  IN  IF awaited # <<>> THEN IF b \in awaited[1] THEN Tail(awaited) ELSE TooLate
      ELSE IF rows = {} THEN TooLate ELSE (CHOOSE row \in rows : TRUE).rest

Awaited(bytes, surrogates) ==
  LET after[i \in 0..Len(bytes)] == IF i = 0 THEN <<>> ELSE Expected(after[i - 1], bytes[i], surrogates)
  IN  after[Len(bytes)]

TextOfBytes == alphabet = "Bytes" => text \in Seq(Byte)

(***************************************************************************)
(* A text of bytes is well formed exactly when the Unicode Standard says   *)
(* so; the permissive decoder differs by the surrogate halves only, and    *)
(* what it reads is encoded as the bytes it was read from.                 *)
(***************************************************************************)
Utf8Exact ==
  alphabet = "Bytes" =>
    /\ IsWellFormed(text) = (Awaited(text, FALSE) = <<>>)
    /\ text # <<>> =>
         LET one == DecodeOnePermissive(text, 1)
         IN  IF one = NotDecoded THEN \A n \in DOMAIN text : Awaited(SubSeq(text, 1, n), TRUE) # <<>>
             ELSE /\ Awaited(SubSeq(text, 1, one.length), TRUE) = <<>>
                  /\ EncodeCodepoint(one.codepoint) = SubSeq(text, 1, one.length)
=============================================================================
