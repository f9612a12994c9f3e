------------------------------- MODULE Utf8Proofs -------------------------------
(***************************************************************************)
(* The decoders and the encoder of UTF-8 are what the Unicode Standard     *)
(* says, for every text of bytes: the arithmetic on bits and the ranges of *)
(* the standard's table accept the same sequences, overlong forms,         *)
(* surrogate halves and texts cut short included.                          *)
(***************************************************************************)
EXTENDS Unicode, WellFoundedInduction, SequenceTheorems, TLAPS

Below == {ss \in Nat \X Nat : ss[1] < ss[2]}

\* A set of naturals that is not empty has a least member.
LEMMA LeastOf ==
  ASSUME NEW T, T \subseteq Nat, T # {}
  PROVE  \E m \in T : \A k \in T : m <= k
<1>1. IsWellFoundedOn(Below, Nat)
  <2>1. Below = OpToRel(<, Nat)
    BY DEF OpToRel, Below
  <2> QED BY <2>1, NatLessThanWellFounded
<1>2. PICK m \in T : \A k \in T : ~(<<k, m>> \in Below)
  BY <1>1, WFMin
<1>3. ASSUME NEW k \in T PROVE m <= k
  <2>1. k \in Nat /\ m \in Nat
    OBVIOUS
  <2>2. <<k, m>> \notin Below
    BY <1>2
  <2>3. k < m => <<k, m>> \in Below
    BY <2>1 DEF Below
  <2> QED BY <2>1, <2>2, <2>3
<1> QED BY <1>3

\* A set that has 0, and the successor of every natural it has, has them all.
LEMMA UpFromZero ==
  ASSUME NEW T, 0 \in T, \A n \in Nat : n \in T => n + 1 \in T
  PROVE  Nat \subseteq T
<1> SUFFICES ASSUME Nat \ T # {} PROVE FALSE
  OBVIOUS
<1>1. PICK n \in Nat \ T : \A k \in Nat \ T : n <= k
  BY LeastOf
<1>2. n # 0
  OBVIOUS
<1>3. n - 1 \in Nat /\ n - 1 \in T /\ (n - 1) + 1 = n
  BY <1>1, <1>2
<1>4. (n - 1) + 1 \in T
  BY <1>3, Zenon
<1> QED BY <1>3, <1>4

\* The first bytes of one byte to four, and those that begin nothing.
OfOne == 0..127
OfTwo == 192..223
OfThree == 224..239
OfFour == 240..247
Useless == 128..191 \cup 248..255

\* Those a well-formed text may have, and those it never has there.
ProperTwo == 194..223
ProperFour == 240..244
Never == 128..193 \cup 245..255

\* What the first byte of a code point says.
LEMMA LeadTable ==
  ASSUME NEW b \in Byte
  PROVE  /\ b \in OfOne => Lead(b) = [more |-> 0, bits |-> b, least |-> 0]
         /\ b \in OfTwo => Lead(b) = [more |-> 1, bits |-> b - 192, least |-> 128]
         /\ b \in OfThree => Lead(b) = [more |-> 2, bits |-> b - 224, least |-> 2048]
         /\ b \in OfFour => Lead(b) = [more |-> 3, bits |-> b - 240, least |-> 65536]
         /\ b \in Useless => Lead(b) = [more |-> -1]
<1>1. b \in Int /\ 0 <= b /\ b <= 255
  BY DEF Byte
<1>2. b \div 32 = 6 <=> b \in 192..223
  BY <1>1
<1>3. b \div 16 = 14 <=> b \in 224..239
  BY <1>1
<1>4. b \div 8 = 30 <=> b \in 240..247
  BY <1>1
<1>5. (b \in 192..223 => b % 32 = b - 192) /\ (b \in 224..239 => b % 16 = b - 224) /\ (b \in 240..247 => b % 8 = b - 240)
  BY <1>1
<1>6. b < 128 <=> b \in OfOne
  BY <1>1 DEF OfOne
<1>7. b \in OfTwo => Lead(b) = [more |-> 1, bits |-> b - 192, least |-> 128]
  BY <1>1, <1>2, <1>3, <1>4, <1>5 DEF Lead, OfTwo
<1>8. b \in OfThree => Lead(b) = [more |-> 2, bits |-> b - 224, least |-> 2048]
  BY <1>1, <1>2, <1>3, <1>4, <1>5 DEF Lead, OfThree
<1>9. b \in OfFour => Lead(b) = [more |-> 3, bits |-> b - 240, least |-> 65536]
  BY <1>1, <1>2, <1>3, <1>4, <1>5 DEF Lead, OfFour
<1>10. b \in Useless => Lead(b) = [more |-> -1]
  BY <1>1, <1>2, <1>3, <1>4 DEF Lead, Useless
<1>11. b \in OfOne => Lead(b) = [more |-> 0, bits |-> b, least |-> 0]
  BY <1>1, <1>6 DEF Lead, OfOne
<1> QED BY <1>7, <1>8, <1>9, <1>10, <1>11

\* A byte that follows.
LEMMA LaterByte ==
  ASSUME NEW b \in Byte
  PROVE  /\ IsContinuation(b) <=> b \in Later
         /\ b \in Later => b % 64 = b - 128 /\ b % 64 \in 0..63
<1>1. b \in Int /\ 0 <= b /\ b <= 255
  BY DEF Byte
<1> QED BY <1>1 DEF IsContinuation, Later

-----------------------------------------------------------------------------
(* The bits of a code point.                                               *)

\* The bits of a code point that takes one byte to four.
LEMMA CodepointIs ==
  ASSUME NEW bytes, NEW i, NEW lead, lead.more \in 0..3
  PROVE  CodepointOf(bytes, i, lead) =
           IF lead.more = 0 THEN lead.bits
           ELSE IF lead.more = 1 THEN 64 * lead.bits + (bytes[i + 1] % 64)
           ELSE IF lead.more = 2 THEN 64 * (64 * lead.bits + (bytes[i + 1] % 64)) + (bytes[i + 2] % 64)
           ELSE 64 * (64 * (64 * lead.bits + (bytes[i + 1] % 64)) + (bytes[i + 2] % 64)) + (bytes[i + 3] % 64)
<1> DEFINE one == 64 * lead.bits + (bytes[i + 1] % 64)
           two == 64 * one + (bytes[i + 2] % 64)
           three == 64 * two + (bytes[i + 3] % 64)
           g == [k \in 0..lead.more |-> IF k = 0 THEN lead.bits ELSE IF k = 1 THEN one ELSE IF k = 2 THEN two ELSE three]
           F == CHOOSE f : f = [k \in 0..lead.more |-> IF k = 0 THEN lead.bits ELSE 64 * f[k - 1] + (bytes[i + k] % 64)]
<1>1. \E f : f = [k \in 0..lead.more |-> IF k = 0 THEN lead.bits ELSE 64 * f[k - 1] + (bytes[i + k] % 64)]
  <2> DEFINE Right(k) == IF k = 0 THEN lead.bits ELSE 64 * g[k - 1] + (bytes[i + k] % 64)
  <2>1. ASSUME NEW k \in 0..lead.more PROVE g[k] = Right(k)
    <3> HIDE DEF one, two, three
    <3>1. CASE k = 0
      BY <3>1
    <3>2. CASE k = 1
      <4>1. g[0] = lead.bits
        BY <3>2
      <4> QED BY <3>2, <4>1 DEF one
    <3>3. CASE k = 2
      <4>1. g[1] = one
        BY <3>3
      <4> QED BY <3>3, <4>1 DEF two
    <3>4. CASE k = 3
      <4>1. g[2] = two
        BY <3>4
      <4> QED BY <3>4, <4>1 DEF three
    <3> QED BY <3>1, <3>2, <3>3, <3>4
  <2> HIDE DEF one, two, three
  <2>2. g = [k \in 0..lead.more |-> Right(k)]
    BY <2>1, ZenonT(60)
  <2> QED BY <2>2
<1>2. F = [k \in 0..lead.more |-> IF k = 0 THEN lead.bits ELSE 64 * F[k - 1] + (bytes[i + k] % 64)]
  BY <1>1
<1>3. CodepointOf(bytes, i, lead) = F[lead.more]
  BY DEF CodepointOf
<1> HIDE DEF F
<1>4. \A k \in 0..lead.more : F[k] = IF k = 0 THEN lead.bits ELSE 64 * F[k - 1] + (bytes[i + k] % 64)
  BY <1>2
<1>5. F[0] = lead.bits
  BY <1>4
<1>6. lead.more >= 1 => F[1] = one
  BY <1>4, <1>5
<1>7. lead.more >= 2 => F[2] = two
  BY <1>4, <1>6
<1>8. lead.more >= 3 => F[3] = three
  BY <1>4, <1>7
<1> QED BY <1>3, <1>5, <1>6, <1>7, <1>8

-----------------------------------------------------------------------------
(* The ranges the bytes to come must be in.                                *)

\* The range of the second byte.
Second(b, surrogates) ==
  IF b = 224 THEN 160..191
  ELSE IF b = 237 THEN 128..(IF surrogates THEN 191 ELSE 159)
  ELSE IF b = 240 THEN 144..191
  ELSE IF b = 244 THEN 128..143
  ELSE Later

\* What the standard's table says behind a first byte.
LEMMA FirstTable ==
  ASSUME NEW b \in Byte, NEW s \in BOOLEAN
  PROVE  /\ b \in OfOne => Expected(<<>>, b, s) = <<>>
         /\ b \in ProperTwo => Expected(<<>>, b, s) = <<Later>>
         /\ b \in OfThree => Expected(<<>>, b, s) = <<Second(b, s), Later>>
         /\ b \in ProperFour => Expected(<<>>, b, s) = <<Second(b, s), Later, Later>>
         /\ b \in Never => Expected(<<>>, b, s) = TooLate
<1> DEFINE rows == {row \in Rows(s) : b \in row.first}
           row == CHOOSE row \in rows : TRUE
           r1 == [first |-> 0..127, rest |-> <<>>]
           r2 == [first |-> 194..223, rest |-> <<Later>>]
           r3 == [first |-> {224}, rest |-> <<160..191, Later>>]
           r4 == [first |-> 225..236, rest |-> <<Later, Later>>]
           r5 == [first |-> {237}, rest |-> <<128..(IF s THEN 191 ELSE 159), Later>>]
           r6 == [first |-> 238..239, rest |-> <<Later, Later>>]
           r7 == [first |-> {240}, rest |-> <<144..191, Later, Later>>]
           r8 == [first |-> 241..243, rest |-> <<Later, Later, Later>>]
           r9 == [first |-> {244}, rest |-> <<128..143, Later, Later>>]
<1>1. b \in Int /\ 0 <= b /\ b <= 255
  BY DEF Byte
<1>2. Expected(<<>>, b, s) = IF rows = {} THEN TooLate ELSE row.rest
  BY DEF Expected
<1>3. ASSUME NEW r, rows = {r} PROVE Expected(<<>>, b, s) = r.rest
  <2>1. row \in rows /\ rows # {}
    BY <1>3
  <2> QED BY <1>2, <1>3, <2>1
<1> HIDE DEF row
<1>4. \A r : r \in rows <=> r \in {r1, r2, r3, r4, r5, r6, r7, r8, r9} /\ b \in r.first
  BY DEF Rows
<1>5. /\ (b \in r1.first <=> b \in OfOne) /\ r1.rest = <<>>
      /\ (b \in r2.first <=> b \in ProperTwo) /\ r2.rest = <<Later>>
      /\ (b \in r3.first <=> b \in {224}) /\ r3.rest = <<160..191, Later>>
      /\ (b \in r4.first <=> b \in 225..236) /\ r4.rest = <<Later, Later>>
      /\ (b \in r5.first <=> b \in {237}) /\ r5.rest = <<128..(IF s THEN 191 ELSE 159), Later>>
      /\ (b \in r6.first <=> b \in 238..239) /\ r6.rest = <<Later, Later>>
      /\ (b \in r7.first <=> b \in {240}) /\ r7.rest = <<144..191, Later, Later>>
      /\ (b \in r8.first <=> b \in 241..243) /\ r8.rest = <<Later, Later, Later>>
      /\ (b \in r9.first <=> b \in {244}) /\ r9.rest = <<128..143, Later, Later>>
  BY DEF OfOne, ProperTwo
<1> HIDE DEF rows, r1, r2, r3, r4, r5, r6, r7, r8, r9
<1>6. CASE b \in OfOne
  <2>1. \A r : r \in rows <=> r = r1
    BY <1>1, <1>4, <1>5, <1>6 DEF OfOne, ProperTwo
  <2>2. rows = {r1}
    BY <2>1
  <2>3. Expected(<<>>, b, s) = <<>>
    <3>1. Expected(<<>>, b, s) = r1.rest
      BY <1>3, <2>2, Zenon
    <3> QED BY <1>5, <3>1, Zenon
  <2> QED BY <1>1, <1>6, <2>3 DEF OfOne, ProperTwo, OfThree, ProperFour, Never
<1>7. CASE b \in ProperTwo
  <2>1. \A r : r \in rows <=> r = r2
    BY <1>1, <1>4, <1>5, <1>7 DEF OfOne, ProperTwo
  <2>2. rows = {r2}
    BY <2>1
  <2>3. Expected(<<>>, b, s) = <<Later>>
    <3>1. Expected(<<>>, b, s) = r2.rest
      BY <1>3, <2>2, Zenon
    <3> QED BY <1>5, <3>1, Zenon
  <2> QED BY <1>1, <1>7, <2>3 DEF OfOne, ProperTwo, OfThree, ProperFour, Never
<1>8. CASE b = 224
  <2>1. \A r : r \in rows <=> r = r3
    BY <1>1, <1>4, <1>5, <1>8 DEF OfOne, ProperTwo
  <2>2. rows = {r3}
    BY <2>1
  <2>3. Expected(<<>>, b, s) = <<160..191, Later>>
    <3>1. Expected(<<>>, b, s) = r3.rest
      BY <1>3, <2>2, Zenon
    <3> QED BY <1>5, <3>1, Zenon
  <2>4. Second(b, s) = 160..191
    BY <1>1, <1>8 DEF Second
  <2>5. Expected(<<>>, b, s) = <<Second(b, s), Later>>
    BY <2>3, <2>4, Zenon
  <2> QED BY <1>1, <1>8, <2>5 DEF OfOne, ProperTwo, OfThree, ProperFour, Never
<1>9. CASE b \in 225..236
  <2>1. \A r : r \in rows <=> r = r4
    BY <1>1, <1>4, <1>5, <1>9 DEF OfOne, ProperTwo
  <2>2. rows = {r4}
    BY <2>1
  <2>3. Expected(<<>>, b, s) = <<Later, Later>>
    <3>1. Expected(<<>>, b, s) = r4.rest
      BY <1>3, <2>2, Zenon
    <3> QED BY <1>5, <3>1, Zenon
  <2>4. Second(b, s) = Later
    BY <1>1, <1>9 DEF Second
  <2>5. Expected(<<>>, b, s) = <<Second(b, s), Later>>
    BY <2>3, <2>4, Zenon
  <2> QED BY <1>1, <1>9, <2>5 DEF OfOne, ProperTwo, OfThree, ProperFour, Never
<1>10. CASE b = 237
  <2>1. \A r : r \in rows <=> r = r5
    BY <1>1, <1>4, <1>5, <1>10 DEF OfOne, ProperTwo
  <2>2. rows = {r5}
    BY <2>1
  <2>3. Expected(<<>>, b, s) = <<128..(IF s THEN 191 ELSE 159), Later>>
    <3>1. Expected(<<>>, b, s) = r5.rest
      BY <1>3, <2>2, Zenon
    <3> QED BY <1>5, <3>1, Zenon
  <2>4. Second(b, s) = 128..(IF s THEN 191 ELSE 159)
    BY <1>1, <1>10 DEF Second
  <2>5. Expected(<<>>, b, s) = <<Second(b, s), Later>>
    BY <2>3, <2>4, Zenon
  <2> QED BY <1>1, <1>10, <2>5 DEF OfOne, ProperTwo, OfThree, ProperFour, Never
<1>11. CASE b \in 238..239
  <2>1. \A r : r \in rows <=> r = r6
    BY <1>1, <1>4, <1>5, <1>11 DEF OfOne, ProperTwo
  <2>2. rows = {r6}
    BY <2>1
  <2>3. Expected(<<>>, b, s) = <<Later, Later>>
    <3>1. Expected(<<>>, b, s) = r6.rest
      BY <1>3, <2>2, Zenon
    <3> QED BY <1>5, <3>1, Zenon
  <2>4. Second(b, s) = Later
    BY <1>1, <1>11 DEF Second
  <2>5. Expected(<<>>, b, s) = <<Second(b, s), Later>>
    BY <2>3, <2>4, Zenon
  <2> QED BY <1>1, <1>11, <2>5 DEF OfOne, ProperTwo, OfThree, ProperFour, Never
<1>12. CASE b = 240
  <2>1. \A r : r \in rows <=> r = r7
    BY <1>1, <1>4, <1>5, <1>12 DEF OfOne, ProperTwo
  <2>2. rows = {r7}
    BY <2>1
  <2>3. Expected(<<>>, b, s) = <<144..191, Later, Later>>
    <3>1. Expected(<<>>, b, s) = r7.rest
      BY <1>3, <2>2, Zenon
    <3> QED BY <1>5, <3>1, Zenon
  <2>4. Second(b, s) = 144..191
    BY <1>1, <1>12 DEF Second
  <2>5. Expected(<<>>, b, s) = <<Second(b, s), Later, Later>>
    BY <2>3, <2>4, Zenon
  <2> QED BY <1>1, <1>12, <2>5 DEF OfOne, ProperTwo, OfThree, ProperFour, Never
<1>13. CASE b \in 241..243
  <2>1. \A r : r \in rows <=> r = r8
    BY <1>1, <1>4, <1>5, <1>13 DEF OfOne, ProperTwo
  <2>2. rows = {r8}
    BY <2>1
  <2>3. Expected(<<>>, b, s) = <<Later, Later, Later>>
    <3>1. Expected(<<>>, b, s) = r8.rest
      BY <1>3, <2>2, Zenon
    <3> QED BY <1>5, <3>1, Zenon
  <2>4. Second(b, s) = Later
    BY <1>1, <1>13 DEF Second
  <2>5. Expected(<<>>, b, s) = <<Second(b, s), Later, Later>>
    BY <2>3, <2>4, Zenon
  <2> QED BY <1>1, <1>13, <2>5 DEF OfOne, ProperTwo, OfThree, ProperFour, Never
<1>14. CASE b = 244
  <2>1. \A r : r \in rows <=> r = r9
    BY <1>1, <1>4, <1>5, <1>14 DEF OfOne, ProperTwo
  <2>2. rows = {r9}
    BY <2>1
  <2>3. Expected(<<>>, b, s) = <<128..143, Later, Later>>
    <3>1. Expected(<<>>, b, s) = r9.rest
      BY <1>3, <2>2, Zenon
    <3> QED BY <1>5, <3>1, Zenon
  <2>4. Second(b, s) = 128..143
    BY <1>1, <1>14 DEF Second
  <2>5. Expected(<<>>, b, s) = <<Second(b, s), Later, Later>>
    BY <2>3, <2>4, Zenon
  <2> QED BY <1>1, <1>14, <2>5 DEF OfOne, ProperTwo, OfThree, ProperFour, Never
<1>15. CASE b \in Never
  <2>1. \A r : r \notin rows
    BY <1>1, <1>4, <1>5, <1>15 DEF OfOne, ProperTwo, Never
  <2>2. rows = {}
    BY <2>1
  <2> QED BY <1>1, <1>2, <1>15, <2>2 DEF OfOne, ProperTwo, OfThree, ProperFour, Never
<1> QED BY <1>1, <1>6, <1>7, <1>8, <1>9, <1>10, <1>11, <1>12, <1>13, <1>14, <1>15 DEF OfOne, ProperTwo, OfThree, ProperFour, Never

\* Nothing is well formed behind a byte that begins nothing.
LEMMA FirstNone ==
  ASSUME NEW b \in Useless, NEW s \in BOOLEAN
  PROVE  Expected(<<>>, b, s) = TooLate
<1>1. b \in Byte /\ b \in Never
  BY DEF Byte, Useless, Never
<1> QED BY <1>1, FirstTable, Zenon

\* Two bytes begin with a byte of its own range.
LEMMA FirstTwo ==
  ASSUME NEW b \in OfTwo, NEW s \in BOOLEAN
  PROVE  /\ b \in ProperTwo => Expected(<<>>, b, s) = <<Later>>
         /\ b \notin ProperTwo => Expected(<<>>, b, s) = TooLate
<1>1. b \in Byte /\ (b \in ProperTwo \/ b \in Never)
  BY DEF Byte, OfTwo, ProperTwo, Never
<1>2. b \in Never => Expected(<<>>, b, s) = TooLate
  BY <1>1, FirstTable, Zenon
<1>3. b \in ProperTwo => Expected(<<>>, b, s) = <<Later>>
  BY <1>1, FirstTable, Zenon
<1> QED BY <1>1, <1>2, <1>3, Zenon

\* So do three.
LEMMA FirstThree ==
  ASSUME NEW b \in OfThree, NEW s \in BOOLEAN
  PROVE  Expected(<<>>, b, s) = <<Second(b, s), Later>>
<1>1. b \in Byte
  BY DEF Byte, OfThree
<1> QED BY <1>1, FirstTable, Zenon

\* So do four.
LEMMA FirstFour ==
  ASSUME NEW b \in OfFour, NEW s \in BOOLEAN
  PROVE  /\ b \in ProperFour => Expected(<<>>, b, s) = <<Second(b, s), Later, Later>>
         /\ b \notin ProperFour => Expected(<<>>, b, s) = TooLate
<1>1. b \in Byte /\ (b \in ProperFour \/ b \in Never)
  BY DEF Byte, OfFour, ProperFour, Never
<1>2. b \in Never => Expected(<<>>, b, s) = TooLate
  BY <1>1, FirstTable, Zenon
<1>3. b \in ProperFour => Expected(<<>>, b, s) = <<Second(b, s), Later, Later>>
  BY <1>1, FirstTable, Zenon
<1> QED BY <1>1, <1>2, <1>3, Zenon

\* So does one.
LEMMA FirstOne ==
  ASSUME NEW b \in OfOne, NEW s \in BOOLEAN
  PROVE  Expected(<<>>, b, s) = <<>>
<1>1. b \in Byte
  BY DEF Byte, OfOne
<1> QED BY <1>1, FirstTable, Zenon

\* A byte that is awaited leads on.
LEMMA OnOne ==
  ASSUME NEW c, NEW s, NEW S
  PROVE  Expected(<<S>>, c, s) = IF c \in S THEN <<>> ELSE TooLate
<1>1. <<S>> # <<>> /\ <<S>>[1] = S /\ Tail(<<S>>) = <<>>
  OBVIOUS
<1> QED BY <1>1 DEF Expected

\* It does where two are awaited.
LEMMA OnTwo ==
  ASSUME NEW c, NEW s, NEW S, NEW T
  PROVE  Expected(<<S, T>>, c, s) = IF c \in S THEN <<T>> ELSE TooLate
<1>1. <<S, T>> # <<>> /\ <<S, T>>[1] = S /\ Tail(<<S, T>>) = <<T>>
  OBVIOUS
<1> QED BY <1>1 DEF Expected

\* It does where three are awaited.
LEMMA OnThree ==
  ASSUME NEW c, NEW s, NEW S, NEW T, NEW U
  PROVE  Expected(<<S, T, U>>, c, s) = IF c \in S THEN <<T, U>> ELSE TooLate
<1>1. <<S, T, U>> # <<>> /\ <<S, T, U>>[1] = S /\ Tail(<<S, T, U>>) = <<T, U>>
  OBVIOUS
<1> QED BY <1>1 DEF Expected

\* Any other byte leads nowhere, for ever.
LEMMA OnLate ==
  ASSUME NEW c, NEW s
  PROVE  Expected(TooLate, c, s) = TooLate
<1>1. TooLate # <<>> /\ TooLate[1] = {}
  BY DEF TooLate
<1> QED BY <1>1 DEF Expected
-----------------------------------------------------------------------------
(* Reading a text from the left.                                           *)

IsReading(f, bytes, s, n) == f = [i \in 0..n |-> IF i = 0 THEN <<>> ELSE Expected(f[i - 1], bytes[i], s)]

\* What is awaited after each byte of a text.
Follows(f, bytes, s, n) == f[0] = <<>> /\ \A i \in 1..n : f[i] = Expected(f[i - 1], bytes[i], s)

\* What the equation of a reading says of each byte.
LEMMA ReadingFollows ==
  ASSUME NEW f, NEW bytes, NEW s, NEW n \in Nat, IsReading(f, bytes, s, n)
  PROVE  Follows(f, bytes, s, n)
<1>1. \A i \in 0..n : f[i] = IF i = 0 THEN <<>> ELSE Expected(f[i - 1], bytes[i], s)
  BY DEF IsReading
<1>2. 0 \in 0..n /\ \A i \in 1..n : i \in 0..n /\ i # 0
  OBVIOUS
<1> QED BY <1>1, <1>2 DEF Follows

\* A text may be of any length.
LEMMA ReadingExists ==
  ASSUME NEW bytes, NEW s
  PROVE  \A n \in Nat : \E f : IsReading(f, bytes, s, n)
<1> DEFINE T == {n \in Nat : \E f : IsReading(f, bytes, s, n)}
<1>1. 0 \in T
  <2> DEFINE f == [i \in 0..0 |-> <<>>]
  <2>1. IsReading(f, bytes, s, 0)
    BY DEF IsReading
  <2> HIDE DEF f
  <2> QED BY <2>1
<1>2. ASSUME NEW n \in Nat, n \in T PROVE n + 1 \in T
  <2>1. PICK f : IsReading(f, bytes, s, n)
    BY <1>2
  <2>2. f[0] = <<>> /\ \A i \in 1..n : f[i] = Expected(f[i - 1], bytes[i], s)
    BY <2>1, ReadingFollows DEF Follows
  <2> DEFINE last == Expected(f[n], bytes[n + 1], s)
             g == [i \in 0..(n + 1) |-> IF i <= n THEN f[i] ELSE last]
             Right(i) == IF i = 0 THEN <<>> ELSE Expected(g[i - 1], bytes[i], s)
  <2>3. ASSUME NEW i \in 0..(n + 1) PROVE g[i] = Right(i)
    <3>1. CASE i = 0
      BY <2>2, <3>1
    <3>2. CASE i \in 1..n
      <4>1. g[i] = f[i] /\ g[i - 1] = f[i - 1]
        BY <3>2
      <4> QED BY <2>2, <3>2, <4>1
    <3>3. CASE i = n + 1
      BY <3>3
    <3> QED BY <3>1, <3>2, <3>3
  <2>4. g = [i \in 0..(n + 1) |-> Right(i)]
    BY <2>3
  <2>5. IsReading(g, bytes, s, n + 1)
    BY <2>4 DEF IsReading
  <2> HIDE DEF g
  <2> QED BY <2>5
<1> HIDE DEF T
<1>3. Nat \subseteq T
  BY <1>1, <1>2, UpFromZero
<1> QED BY <1>3 DEF T

\* What a text awaits is what its reading awaits behind the last byte.
LEMMA AwaitedReads ==
  ASSUME NEW bytes, NEW s, Len(bytes) \in Nat
  PROVE  \E f : Follows(f, bytes, s, Len(bytes)) /\ Awaited(bytes, s) = f[Len(bytes)]
<1> DEFINE F == CHOOSE f : f = [i \in 0..Len(bytes) |-> IF i = 0 THEN <<>> ELSE Expected(f[i - 1], bytes[i], s)]
<1>1. \E f : f = [i \in 0..Len(bytes) |-> IF i = 0 THEN <<>> ELSE Expected(f[i - 1], bytes[i], s)]
  <2>1. \E f : IsReading(f, bytes, s, Len(bytes))
    BY ReadingExists
  <2> QED BY <2>1 DEF IsReading
<1>2. F = [i \in 0..Len(bytes) |-> IF i = 0 THEN <<>> ELSE Expected(F[i - 1], bytes[i], s)]
  BY <1>1
<1>3. Awaited(bytes, s) = F[Len(bytes)]
  BY DEF Awaited
<1> HIDE DEF F
<1>4. IsReading(F, bytes, s, Len(bytes))
  BY <1>2 DEF IsReading
<1> QED BY <1>3, <1>4, ReadingFollows

\* Two readings of texts that begin alike agree there.
LEMMA ReadingsAgree ==
  ASSUME NEW f, NEW g, NEW b, NEW c, NEW s, NEW m \in Nat, NEW n \in Nat,
         Follows(f, b, s, m), Follows(g, c, s, n), m <= n, \A i \in 1..m : b[i] = c[i]
  PROVE  \A i \in 0..m : f[i] = g[i]
<1> DEFINE T == {i \in Nat : i <= m => f[i] = g[i]}
<1>1. 0 \in T
  BY DEF Follows
<1>2. ASSUME NEW i \in Nat, i \in T PROVE i + 1 \in T
  <2> SUFFICES ASSUME i + 1 <= m PROVE f[i + 1] = g[i + 1]
    OBVIOUS
  <2>1. i + 1 \in 1..m /\ i + 1 \in 1..n /\ (i + 1) - 1 = i /\ f[i] = g[i]
    BY <1>2
  <2>2. f[i + 1] = Expected(f[i], b[i + 1], s) /\ g[i + 1] = Expected(g[i], c[i + 1], s)
    BY <2>1 DEF Follows
  <2> QED BY <2>1, <2>2
<1> HIDE DEF T
<1>3. Nat \subseteq T
  BY <1>1, <1>2, UpFromZero
<1> QED BY <1>3 DEF T

\* One reading serves all beginnings of a text.
LEMMA OneReading ==
  ASSUME NEW bytes \in Seq(Byte), NEW s
  PROVE  \E f : /\ Follows(f, bytes, s, Len(bytes))
                /\ Awaited(bytes, s) = f[Len(bytes)]
                /\ \A n \in 0..Len(bytes) : Awaited(SubSeq(bytes, 1, n), s) = f[n]
<1>1. Len(bytes) \in Nat
  OBVIOUS
<1>2. PICK f : Follows(f, bytes, s, Len(bytes)) /\ Awaited(bytes, s) = f[Len(bytes)]
  BY <1>1, AwaitedReads
<1>3. ASSUME NEW n \in 0..Len(bytes) PROVE Awaited(SubSeq(bytes, 1, n), s) = f[n]
  <2> DEFINE begin == SubSeq(bytes, 1, n)
  <2>1. Len(begin) = n /\ \A i \in 1..n : begin[i] = bytes[i]
    BY <1>1
  <2> HIDE DEF begin
  <2>2. n \in Nat /\ n <= Len(bytes) /\ n \in 0..n
    BY <1>1
  <2>3. PICK g : Follows(g, begin, s, n) /\ Awaited(begin, s) = g[n]
    BY <2>1, <2>2, AwaitedReads
  <2>4. \A i \in 0..n : g[i] = f[i]
    BY <1>1, <1>2, <2>1, <2>2, <2>3, ReadingsAgree
  <2> QED BY <2>2, <2>3, <2>4 DEF begin
<1> QED BY <1>2, <1>3

\* What is too late stays so.
LEMMA LateStays ==
  ASSUME NEW f, NEW bytes, NEW s, NEW n \in Nat, Follows(f, bytes, s, n), NEW j \in 0..n, f[j] = TooLate
  PROVE  \A k \in j..n : f[k] # <<>>
<1> DEFINE T == {d \in Nat : j + d <= n => f[j + d] = TooLate}
<1>1. 0 \in T
  OBVIOUS
<1>2. ASSUME NEW d \in Nat, d \in T PROVE d + 1 \in T
  <2> SUFFICES ASSUME j + (d + 1) <= n PROVE f[j + (d + 1)] = TooLate
    OBVIOUS
  <2>1. j + (d + 1) \in 1..n /\ (j + (d + 1)) - 1 = j + d /\ f[j + d] = TooLate
    BY <1>2
  <2>2. f[j + (d + 1)] = Expected(TooLate, bytes[j + (d + 1)], s)
    BY <2>1 DEF Follows
  <2> QED BY <2>2, OnLate
<1> HIDE DEF T
<1>3. Nat \subseteq T
  BY <1>1, <1>2, UpFromZero
<1>4. ASSUME NEW k \in j..n PROVE f[k] = TooLate
  <2>1. k - j \in Nat /\ j + (k - j) = k /\ k <= n
    OBVIOUS
  <2> QED BY <1>3, <2>1 DEF T
<1>5. TooLate # <<>>
  BY DEF TooLate
<1> QED BY <1>4, <1>5
-----------------------------------------------------------------------------
(* The code points of two, three and four bytes.                           *)

Two(b, c) == 64 * (b - 192) + (c - 128)
Three(b, c, d) == 64 * (64 * (b - 224) + (c - 128)) + (d - 128)
Four(b, c, d, e) == 64 * (64 * (64 * (b - 240) + (c - 128)) + (d - 128)) + (e - 128)

\* One byte is written as it is.
LEMMA EncodeOne ==
  ASSUME NEW b \in OfOne
  PROVE  EncodeCodepoint(b) = <<b>> /\ ~IsSurrogate(b)
<1>1. b \in Int /\ 0 <= b /\ b <= 127
  BY DEF OfOne
<1>2. EncodeCodepoint(b) = <<b>>
  <2>1. b < 128 /\ ~(128 <= b) /\ ~(2048 <= b) /\ ~(65536 <= b)
    BY <1>1, SMT
  <2> QED BY <2>1, SMT DEF EncodeCodepoint
<1> QED BY <1>1, <1>2, SMT DEF IsSurrogate

\* Two bytes stay below the last code point.
LEMMA TwoBits ==
  ASSUME NEW b \in OfTwo, NEW c \in Later
  PROVE  Two(b, c) \in Int /\ Two(b, c) <= LastCodepoint
BY SMT DEF Two, Later, LastCodepoint, OfTwo

\* So do three.
LEMMA ThreeBits ==
  ASSUME NEW b \in OfThree, NEW c \in Later, NEW d \in Later
  PROVE  Three(b, c, d) \in Int /\ Three(b, c, d) <= LastCodepoint
BY SMT DEF Three, Later, LastCodepoint, OfThree

\* Two bytes are one too many for a code point below 128.
LEMMA TwoRange ==
  ASSUME NEW b \in OfTwo, NEW c \in Later
  PROVE  /\ 128 <= Two(b, c) <=> b \in ProperTwo
         /\ ~IsSurrogate(Two(b, c))
         /\ 128 <= Two(b, c) => EncodeCodepoint(Two(b, c)) = <<b, c>>
<1>1. b \in Int /\ 192 <= b /\ b <= 223 /\ c \in Int /\ 128 <= c /\ c <= 191
  BY DEF Later, OfTwo
<1>2. (128 <= Two(b, c) <=> b \in ProperTwo) /\ Two(b, c) \in Nat /\ Two(b, c) <= 2047
  BY <1>1 DEF Two, ProperTwo
<1>3. Two(b, c) \div 64 = b - 192 /\ (Two(b, c) \div 1) % 64 = c - 128
  BY <1>1 DEF Two
<1>4. ASSUME 128 <= Two(b, c) PROVE EncodeCodepoint(Two(b, c)) = <<b, c>>
  <2>1. Two(b, c) \in Int /\ ~(Two(b, c) < 128) /\ Two(b, c) < 2048
    BY <1>2, <1>4
  <2>2. EncodeCodepoint(Two(b, c)) = <<192 + (b - 192), 128 + (c - 128)>>
    <3>1. EncodeCodepoint(Two(b, c)) = <<192 + Two(b, c) \div 64, 128 + ((Two(b, c) \div 1) % 64)>>
      BY <2>1 DEF EncodeCodepoint
    <3> QED BY <1>3, <3>1
  <2>3. 192 + (b - 192) = b /\ 128 + (c - 128) = c
    BY <1>1
  <2> QED BY <2>2, <2>3
<1> QED BY <1>2, <1>4 DEF IsSurrogate

\* Of the sequences of three bytes the standard leaves out the overlong ones
\* and, but for the permissive decoder, the surrogate halves.
LEMMA ThreeRange ==
  ASSUME NEW b \in OfThree, NEW c \in Later, NEW d \in Later, NEW s \in BOOLEAN
  PROVE  /\ (2048 <= Three(b, c, d) /\ (s \/ ~IsSurrogate(Three(b, c, d)))) <=> c \in Second(b, s)
         /\ 2048 <= Three(b, c, d) => EncodeCodepoint(Three(b, c, d)) = <<b, c, d>>
<1>1. /\ b \in Int /\ 224 <= b /\ b <= 239 /\ c \in Int /\ 128 <= c /\ c <= 191
      /\ d \in Int /\ 128 <= d /\ d <= 191
  BY DEF Later, OfThree
<1>2. Three(b, c, d) \in Nat /\ Three(b, c, d) <= 65535
  BY <1>1 DEF Three
<1>3. 2048 <= Three(b, c, d) <=> b # 224 \/ 160 <= c
  BY <1>1 DEF Three
<1>4. IsSurrogate(Three(b, c, d)) <=> b = 237 /\ 160 <= c
  BY <1>1 DEF Three, IsSurrogate
<1>5. c \in Second(b, s) <=> (b = 224 => 160 <= c) /\ (b = 237 => s \/ c <= 159)
  <2>1. CASE b = 224
    BY <1>1, <2>1 DEF Second
  <2>2. CASE b = 237
    BY <1>1, <2>2 DEF Second
  <2>3. CASE b # 224 /\ b # 237
    BY <1>1, <2>3 DEF Second
  <2> QED BY <2>1, <2>2, <2>3
<1>6. /\ Three(b, c, d) \div 4096 = b - 224
      /\ (Three(b, c, d) \div 64) % 64 = c - 128
      /\ (Three(b, c, d) \div 1) % 64 = d - 128
  BY <1>1 DEF Three
<1>7. ASSUME 2048 <= Three(b, c, d) PROVE EncodeCodepoint(Three(b, c, d)) = <<b, c, d>>
  <2>1. Three(b, c, d) \in Int /\ ~(Three(b, c, d) < 128) /\ ~(Three(b, c, d) < 2048) /\ Three(b, c, d) < 65536
    BY <1>2, <1>7
  <2>2. EncodeCodepoint(Three(b, c, d)) = <<224 + (b - 224), 128 + (c - 128), 128 + (d - 128)>>
    <3>1. EncodeCodepoint(Three(b, c, d)) =
            <<224 + Three(b, c, d) \div 4096, 128 + ((Three(b, c, d) \div 64) % 64), 128 + ((Three(b, c, d) \div 1) % 64)>>
      BY <2>1 DEF EncodeCodepoint
    <3> QED BY <1>6, <3>1
  <2>3. 224 + (b - 224) = b /\ 128 + (c - 128) = c /\ 128 + (d - 128) = d
    BY <1>1
  <2> QED BY <2>2, <2>3
<1>8. (2048 <= Three(b, c, d) /\ (s \/ ~IsSurrogate(Three(b, c, d)))) <=> c \in Second(b, s)
  BY <1>1, <1>3, <1>4, <1>5
<1> QED BY <1>2, <1>7, <1>8

\* Of the sequences of four bytes it leaves out the overlong ones and those
\* beyond the last code point.
LEMMA FourRange ==
  ASSUME NEW b \in OfFour, NEW c \in Later, NEW d \in Later, NEW e \in Later, NEW s \in BOOLEAN
  PROVE  /\ (65536 <= Four(b, c, d, e) /\ Four(b, c, d, e) <= LastCodepoint) <=> b \in ProperFour /\ c \in Second(b, s)
         /\ Four(b, c, d, e) \in Nat
         /\ 65536 <= Four(b, c, d, e) => /\ ~IsSurrogate(Four(b, c, d, e))
                                         /\ EncodeCodepoint(Four(b, c, d, e)) = <<b, c, d, e>>
<1>1. /\ b \in Int /\ 240 <= b /\ b <= 247 /\ c \in Int /\ 128 <= c /\ c <= 191
      /\ d \in Int /\ 128 <= d /\ d <= 191 /\ e \in Int /\ 128 <= e /\ e <= 191
  BY DEF Later, OfFour
<1>2. Four(b, c, d, e) \in Nat
  BY <1>1 DEF Four
<1>3. 65536 <= Four(b, c, d, e) <=> b # 240 \/ 144 <= c
  BY <1>1 DEF Four
<1>4. Four(b, c, d, e) <= LastCodepoint <=> b <= 243 \/ (b = 244 /\ c <= 143)
  BY <1>1 DEF Four, LastCodepoint
<1>5. b <= 244 => (c \in Second(b, s) <=> (b = 240 => 144 <= c) /\ (b = 244 => c <= 143))
  <2>1. CASE b = 240
    BY <1>1, <2>1 DEF Second
  <2>2. CASE b = 244
    BY <1>1, <2>2 DEF Second
  <2>3. CASE b # 240 /\ b # 244
    BY <1>1, <2>3 DEF Second
  <2> QED BY <2>1, <2>2, <2>3
<1>6. /\ Four(b, c, d, e) \div 262144 = b - 240
      /\ (Four(b, c, d, e) \div 4096) % 64 = c - 128
      /\ (Four(b, c, d, e) \div 64) % 64 = d - 128
      /\ (Four(b, c, d, e) \div 1) % 64 = e - 128
  BY <1>1 DEF Four
<1>7. ASSUME 65536 <= Four(b, c, d, e) PROVE EncodeCodepoint(Four(b, c, d, e)) = <<b, c, d, e>>
  <2>1. /\ Four(b, c, d, e) \in Int /\ ~(Four(b, c, d, e) < 128) /\ ~(Four(b, c, d, e) < 2048)
        /\ ~(Four(b, c, d, e) < 65536)
    BY <1>2, <1>7
  <2>2. EncodeCodepoint(Four(b, c, d, e)) = <<240 + (b - 240), 128 + (c - 128), 128 + (d - 128), 128 + (e - 128)>>
    <3>1. EncodeCodepoint(Four(b, c, d, e)) =
            <<240 + Four(b, c, d, e) \div 262144, 128 + ((Four(b, c, d, e) \div 4096) % 64),
              128 + ((Four(b, c, d, e) \div 64) % 64), 128 + ((Four(b, c, d, e) \div 1) % 64)>>
      BY <2>1 DEF EncodeCodepoint
    <3> QED BY <1>6, <3>1
  <2>3. 240 + (b - 240) = b /\ 128 + (c - 128) = c /\ 128 + (d - 128) = d /\ 128 + (e - 128) = e
    BY <1>1
  <2> QED BY <2>2, <2>3
<1>8. (65536 <= Four(b, c, d, e) /\ Four(b, c, d, e) <= LastCodepoint) <=> b \in ProperFour /\ c \in Second(b, s)
  BY <1>1, <1>3, <1>4, <1>5 DEF ProperFour
<1>9. 65536 <= Four(b, c, d, e) => ~IsSurrogate(Four(b, c, d, e))
  BY <1>2 DEF IsSurrogate
<1> QED BY <1>2, <1>7, <1>8, <1>9
-----------------------------------------------------------------------------
(* What is decoded at a place of a text, by its first byte.                *)

\* What the conditions of the decoder are for a known first byte.
LEMMA DecodedBy ==
  ASSUME NEW bytes, NEW i, NEW lead, Lead(bytes[i]) = lead, lead.more \in 0..3
  PROVE  DecodeOnePermissive(bytes, i) =
           IF /\ i + lead.more <= Len(bytes)
              /\ \A k \in 1..lead.more : IsContinuation(bytes[i + k])
              /\ lead.least <= CodepointOf(bytes, i, lead)
              /\ CodepointOf(bytes, i, lead) <= LastCodepoint
           THEN [codepoint |-> CodepointOf(bytes, i, lead), length |-> lead.more + 1]
           ELSE NotDecoded
<1>1. lead.more >= 0
  OBVIOUS
<1> QED BY <1>1 DEF DecodeOnePermissive

\* All the bytes that must follow do.
LEMMA DecodedWhole ==
  ASSUME NEW bytes, NEW i, NEW lead, Lead(bytes[i]) = lead, lead.more \in 0..3,
         i + lead.more <= Len(bytes), \A k \in 1..lead.more : IsContinuation(bytes[i + k]),
         NEW c, CodepointOf(bytes, i, lead) = c
  PROVE  DecodeOnePermissive(bytes, i) =
           IF lead.least <= c /\ c <= LastCodepoint THEN [codepoint |-> c, length |-> lead.more + 1] ELSE NotDecoded
BY DecodedBy, SMT

\* Not all of them do.
LEMMA DecodedCut ==
  ASSUME NEW bytes, NEW i, NEW lead, Lead(bytes[i]) = lead, lead.more \in 0..3,
         ~(i + lead.more <= Len(bytes) /\ \A k \in 1..lead.more : IsContinuation(bytes[i + k]))
  PROVE  DecodeOnePermissive(bytes, i) = NotDecoded
BY DecodedBy, SMT

\* One byte.
LEMMA DecodedOne ==
  ASSUME NEW bytes \in Seq(Byte), NEW i \in 1..Len(bytes), bytes[i] \in OfOne
  PROVE  DecodeOnePermissive(bytes, i) = [codepoint |-> bytes[i], length |-> 1]
<1> DEFINE b == bytes[i]
           lead == [more |-> 0, bits |-> b, least |-> 0]
<1>0. b \in Byte
  OBVIOUS
<1>1. b \in Byte /\ b \in Int /\ 0 <= b /\ b <= 127
  <2>1. \A x \in OfOne : x \in Int /\ 0 <= x /\ x <= 127
    BY DEF OfOne
  <2> QED BY <1>0, <2>1, Zenon
<1>2. Lead(b) = lead
  BY <1>1, LeadTable, SMT
<1>3. lead.more = 0 /\ lead.bits = b /\ lead.least = 0
  OBVIOUS
<1> HIDE DEF lead
<1>4. CodepointOf(bytes, i, lead) = b
  BY <1>3, CodepointIs
<1>5. b <= LastCodepoint
  BY <1>1, SMT DEF LastCodepoint
<1>6. i + lead.more <= Len(bytes) /\ (\A k \in 1..lead.more : IsContinuation(bytes[i + k]))
  BY <1>3
<1>7. lead.least <= CodepointOf(bytes, i, lead) /\ CodepointOf(bytes, i, lead) <= LastCodepoint
  BY <1>1, <1>3, <1>4, <1>5
<1>8. DecodeOnePermissive(bytes, i) = [codepoint |-> CodepointOf(bytes, i, lead), length |-> lead.more + 1]
  BY <1>2, <1>3, <1>6, <1>7, DecodedBy, SMT
<1> QED BY <1>3, <1>4, <1>8, SMT

\* A byte that begins nothing.
LEMMA DecodedNone ==
  ASSUME NEW bytes \in Seq(Byte), NEW i \in 1..Len(bytes), bytes[i] \in Useless
  PROVE  DecodeOnePermissive(bytes, i) = NotDecoded
<1>1. bytes[i] \in Byte
  OBVIOUS
<1>2. Lead(bytes[i]) = [more |-> -1]
  BY <1>1, LeadTable, SMT DEF Useless
<1>3. ~(Lead(bytes[i]).more >= 0)
  BY <1>2
<1> QED BY <1>3 DEF DecodeOnePermissive

\* Two bytes.
LEMMA DecodedTwo ==
  ASSUME NEW bytes \in Seq(Byte), NEW i \in 1..Len(bytes), bytes[i] \in OfTwo
  PROVE  DecodeOnePermissive(bytes, i) =
           IF i + 1 <= Len(bytes) /\ bytes[i + 1] \in Later /\ 128 <= Two(bytes[i], bytes[i + 1])
           THEN [codepoint |-> Two(bytes[i], bytes[i + 1]), length |-> 2]
           ELSE NotDecoded
<1> DEFINE b == bytes[i]
           c == bytes[i + 1]
           lead == [more |-> 1, bits |-> b - 192, least |-> 128]
<1>1. b \in Byte /\ b \in Int /\ Len(bytes) \in Nat
  <2>1. b \in Byte /\ Len(bytes) \in Nat
    OBVIOUS
  <2>2. \A x \in Byte : x \in Int
    BY DEF Byte
  <2> QED BY <2>1, <2>2, Zenon
<1>2. Lead(b) = lead
  BY <1>1, LeadTable, SMT
<1>3. lead.more = 1 /\ lead.bits = b - 192 /\ lead.least = 128
  OBVIOUS
<1> HIDE DEF lead
<1>4. CodepointOf(bytes, i, lead) = 64 * (b - 192) + (c % 64)
  BY <1>3, CodepointIs
<1>5. (\A k \in 1..lead.more : IsContinuation(bytes[i + k])) <=> IsContinuation(c)
  <2>1. 1..lead.more = {1}
    BY <1>3
  <2> QED BY <2>1
<1>6. CASE i + 1 <= Len(bytes) /\ c \in Later
  <2>1. c \in Byte
    BY <1>1, <1>6
  <2>2. IsContinuation(c) /\ c % 64 = c - 128
    BY <1>6, <2>1, LaterByte
  <2>3. CodepointOf(bytes, i, lead) = Two(b, c)
    BY <1>4, <2>2 DEF Two
  <2>4. Two(b, c) \in Int /\ Two(b, c) <= LastCodepoint
    <3>1. b \in OfTwo /\ c \in Later
      BY <1>6
    <3> QED BY <3>1, TwoBits
  <2>5. DecodeOnePermissive(bytes, i) =
          IF lead.least <= Two(b, c) /\ Two(b, c) <= LastCodepoint
          THEN [codepoint |-> Two(b, c), length |-> lead.more + 1] ELSE NotDecoded
    <3>1. i + lead.more <= Len(bytes) /\ lead.more \in 0..3
      BY <1>3, <1>6
    <3>2. \A k \in 1..lead.more : IsContinuation(bytes[i + k])
      BY <1>5, <2>2
    <3> QED BY <1>2, <2>3, <3>1, <3>2, DecodedWhole, Zenon
  <2>6. lead.least = 128 /\ lead.more + 1 = 2
    BY <1>3
  <2> QED BY <1>6, <2>4, <2>5, <2>6, SMT
<1>7. CASE ~(i + 1 <= Len(bytes) /\ c \in Later)
  <2>1. i + 1 <= Len(bytes) => ~IsContinuation(c)
    <3>1. i + 1 <= Len(bytes) => c \in Byte
      BY <1>1
    <3> QED BY <1>7, <3>1, LaterByte
  <2>2. ~(i + lead.more <= Len(bytes) /\ \A k \in 1..lead.more : IsContinuation(bytes[i + k]))
    BY <1>3, <1>5, <2>1
  <2>3. DecodeOnePermissive(bytes, i) = NotDecoded
    <3>1. lead.more \in 0..3
      BY <1>3
    <3> QED BY <1>2, <2>2, <3>1, DecodedCut
  <2> QED BY <1>7, <2>3, SMT
<1> QED BY <1>6, <1>7, SMT

\* Three bytes.
LEMMA DecodedThree ==
  ASSUME NEW bytes \in Seq(Byte), NEW i \in 1..Len(bytes), bytes[i] \in OfThree
  PROVE  DecodeOnePermissive(bytes, i) =
           IF /\ i + 2 <= Len(bytes) /\ bytes[i + 1] \in Later /\ bytes[i + 2] \in Later
              /\ 2048 <= Three(bytes[i], bytes[i + 1], bytes[i + 2])
           THEN [codepoint |-> Three(bytes[i], bytes[i + 1], bytes[i + 2]), length |-> 3]
           ELSE NotDecoded
<1> DEFINE b == bytes[i]
           c == bytes[i + 1]
           d == bytes[i + 2]
           lead == [more |-> 2, bits |-> b - 224, least |-> 2048]
<1>1. b \in Byte /\ b \in Int /\ Len(bytes) \in Nat
  <2>1. b \in Byte /\ Len(bytes) \in Nat
    OBVIOUS
  <2>2. \A x \in Byte : x \in Int
    BY DEF Byte
  <2> QED BY <2>1, <2>2, Zenon
<1>2. Lead(b) = lead
  BY <1>1, LeadTable, SMT
<1>3. lead.more = 2 /\ lead.bits = b - 224 /\ lead.least = 2048
  OBVIOUS
<1> HIDE DEF lead
<1>4. CodepointOf(bytes, i, lead) = 64 * (64 * (b - 224) + (c % 64)) + (d % 64)
  BY <1>3, CodepointIs
<1>5. (\A k \in 1..lead.more : IsContinuation(bytes[i + k])) <=> IsContinuation(c) /\ IsContinuation(d)
  <2>1. 1..lead.more = {1, 2}
    BY <1>3
  <2> QED BY <2>1
<1>6. CASE i + 2 <= Len(bytes) /\ c \in Later /\ d \in Later
  <2>1. c \in Byte /\ d \in Byte
    BY <1>1, <1>6
  <2>2. IsContinuation(c) /\ c % 64 = c - 128 /\ IsContinuation(d) /\ d % 64 = d - 128
    BY <1>6, <2>1, LaterByte
  <2>3. CodepointOf(bytes, i, lead) = Three(b, c, d)
    BY <1>4, <2>2 DEF Three
  <2>4. Three(b, c, d) \in Int /\ Three(b, c, d) <= LastCodepoint
    <3>1. b \in OfThree /\ c \in Later /\ d \in Later
      BY <1>6
    <3> QED BY <3>1, ThreeBits
  <2>5. DecodeOnePermissive(bytes, i) =
          IF lead.least <= Three(b, c, d) /\ Three(b, c, d) <= LastCodepoint
          THEN [codepoint |-> Three(b, c, d), length |-> lead.more + 1] ELSE NotDecoded
    <3>1. i + lead.more <= Len(bytes) /\ lead.more \in 0..3
      BY <1>3, <1>6
    <3>2. \A k \in 1..lead.more : IsContinuation(bytes[i + k])
      BY <1>5, <2>2
    <3> QED BY <1>2, <2>3, <3>1, <3>2, DecodedWhole, Zenon
  <2>6. lead.least = 2048 /\ lead.more + 1 = 3
    BY <1>3, SMT
  <2> QED BY <1>6, <2>4, <2>5, <2>6, SMT
<1>7. CASE ~(i + 2 <= Len(bytes) /\ c \in Later /\ d \in Later)
  <2>1. i + 2 <= Len(bytes) => ~(IsContinuation(c) /\ IsContinuation(d))
    <3>1. i + 2 <= Len(bytes) => c \in Byte /\ d \in Byte
      BY <1>1
    <3> QED BY <1>7, <3>1, LaterByte
  <2>2. ~(i + lead.more <= Len(bytes) /\ \A k \in 1..lead.more : IsContinuation(bytes[i + k]))
    BY <1>3, <1>5, <2>1
  <2>3. DecodeOnePermissive(bytes, i) = NotDecoded
    <3>1. lead.more \in 0..3
      BY <1>3
    <3> QED BY <1>2, <2>2, <3>1, DecodedCut
  <2> QED BY <1>7, <2>3, SMT
<1> QED BY <1>6, <1>7, SMT

\* Four bytes.
LEMMA DecodedFour ==
  ASSUME NEW bytes \in Seq(Byte), NEW i \in 1..Len(bytes), bytes[i] \in OfFour
  PROVE  DecodeOnePermissive(bytes, i) =
           IF /\ i + 3 <= Len(bytes) /\ bytes[i + 1] \in Later /\ bytes[i + 2] \in Later /\ bytes[i + 3] \in Later
              /\ 65536 <= Four(bytes[i], bytes[i + 1], bytes[i + 2], bytes[i + 3])
              /\ Four(bytes[i], bytes[i + 1], bytes[i + 2], bytes[i + 3]) <= LastCodepoint
           THEN [codepoint |-> Four(bytes[i], bytes[i + 1], bytes[i + 2], bytes[i + 3]), length |-> 4]
           ELSE NotDecoded
<1> DEFINE b == bytes[i]
           c == bytes[i + 1]
           d == bytes[i + 2]
           e == bytes[i + 3]
           lead == [more |-> 3, bits |-> b - 240, least |-> 65536]
<1>1. b \in Byte /\ b \in Int /\ Len(bytes) \in Nat
  <2>1. b \in Byte /\ Len(bytes) \in Nat
    OBVIOUS
  <2>2. \A x \in Byte : x \in Int
    BY DEF Byte
  <2> QED BY <2>1, <2>2, Zenon
<1>2. Lead(b) = lead
  BY <1>1, LeadTable, SMT
<1>3. lead.more = 3 /\ lead.bits = b - 240 /\ lead.least = 65536
  OBVIOUS
<1> HIDE DEF lead
<1>4. CodepointOf(bytes, i, lead) = 64 * (64 * (64 * (b - 240) + (c % 64)) + (d % 64)) + (e % 64)
  BY <1>3, CodepointIs, SMTT(60)
<1>5. (\A k \in 1..lead.more : IsContinuation(bytes[i + k])) <=>
        IsContinuation(c) /\ IsContinuation(d) /\ IsContinuation(e)
  <2>1. 1..lead.more = {1, 2, 3}
    BY <1>3
  <2> QED BY <2>1
<1>6. CASE i + 3 <= Len(bytes) /\ c \in Later /\ d \in Later /\ e \in Later
  <2>1. c \in Byte /\ d \in Byte /\ e \in Byte
    BY <1>1, <1>6
  <2>2. /\ IsContinuation(c) /\ c % 64 = c - 128 /\ IsContinuation(d) /\ d % 64 = d - 128
        /\ IsContinuation(e) /\ e % 64 = e - 128
    BY <1>6, <2>1, LaterByte
  <2>3. CodepointOf(bytes, i, lead) = Four(b, c, d, e)
    BY <1>4, <2>2 DEF Four
  <2>4. DecodeOnePermissive(bytes, i) =
          IF lead.least <= Four(b, c, d, e) /\ Four(b, c, d, e) <= LastCodepoint
          THEN [codepoint |-> Four(b, c, d, e), length |-> lead.more + 1] ELSE NotDecoded
    <3>1. i + lead.more <= Len(bytes) /\ lead.more \in 0..3
      BY <1>3, <1>6
    <3>2. \A k \in 1..lead.more : IsContinuation(bytes[i + k])
      BY <1>5, <2>2
    <3> QED BY <1>2, <2>3, <3>1, <3>2, DecodedWhole, Zenon
  <2>5. lead.least = 65536 /\ lead.more + 1 = 4
    BY <1>3, SMT
  <2> QED BY <1>6, <2>4, <2>5, SMT
<1>7. CASE ~(i + 3 <= Len(bytes) /\ c \in Later /\ d \in Later /\ e \in Later)
  <2>1. i + 3 <= Len(bytes) => ~(IsContinuation(c) /\ IsContinuation(d) /\ IsContinuation(e))
    <3>1. i + 3 <= Len(bytes) => c \in Byte /\ d \in Byte /\ e \in Byte
      BY <1>1
    <3> QED BY <1>7, <3>1, LaterByte
  <2>2. ~(i + lead.more <= Len(bytes) /\ \A k \in 1..lead.more : IsContinuation(bytes[i + k]))
    BY <1>3, <1>5, <2>1
  <2>3. DecodeOnePermissive(bytes, i) = NotDecoded
    <3>1. lead.more \in 0..3
      BY <1>3
    <3> QED BY <1>2, <2>2, <3>1, DecodedCut
  <2> QED BY <1>7, <2>3, SMT
<1> QED BY <1>6, <1>7, SMT

-----------------------------------------------------------------------------
(* A code point is read where the standard's table leads back to nothing   *)
(* awaited.                                                                *)

\* A range awaited: the next byte is in it, or nothing is well formed again.
LEMMA AwaitsOne ==
  ASSUME NEW f, NEW bytes, NEW s, NEW n \in Nat, Follows(f, bytes, s, n), NEW j \in 0..n, NEW S, f[j] = <<S>>
  PROVE  IF j + 1 <= n /\ bytes[j + 1] \in S THEN f[j + 1] = <<>> ELSE \A k \in j..n : f[k] # <<>>
<1>1. f[j] # <<>>
  OBVIOUS
<1>2. ASSUME j + 1 <= n PROVE f[j + 1] = IF bytes[j + 1] \in S THEN <<>> ELSE TooLate
  <2>1. j + 1 \in 1..n /\ (j + 1) - 1 = j
    BY <1>2
  <2>2. f[j + 1] = Expected(<<S>>, bytes[j + 1], s)
    BY <2>1 DEF Follows
  <2>3. Expected(<<S>>, bytes[j + 1], s) = IF bytes[j + 1] \in S THEN <<>> ELSE TooLate
    BY OnOne
  <2> QED BY <2>2, <2>3, Zenon
<1>3. CASE j + 1 <= n /\ bytes[j + 1] \in S
  BY <1>2, <1>3
<1>4. CASE ~(j + 1 <= n)
  <2>1. \A k \in j..n : k = j
    BY <1>4
  <2> QED BY <1>1, <1>4, <2>1
<1>5. CASE j + 1 <= n /\ bytes[j + 1] \notin S
  <2>1. f[j + 1] = TooLate /\ j + 1 \in 0..n
    BY <1>2, <1>5
  <2>2. \A k \in (j + 1)..n : f[k] # <<>>
    BY <2>1, LateStays
  <2>3. \A k \in j..n : k = j \/ k \in (j + 1)..n
    OBVIOUS
  <2> QED BY <1>1, <1>5, <2>2, <2>3
<1> QED BY <1>3, <1>4, <1>5

\* Two ranges awaited.
LEMMA AwaitsTwo ==
  ASSUME NEW f, NEW bytes, NEW s, NEW n \in Nat, Follows(f, bytes, s, n), NEW j \in 0..n,
         NEW S, NEW T, f[j] = <<S, T>>
  PROVE  IF j + 2 <= n /\ bytes[j + 1] \in S /\ bytes[j + 2] \in T THEN f[j + 2] = <<>>
         ELSE \A k \in j..n : f[k] # <<>>
<1>1. f[j] # <<>>
  OBVIOUS
<1>2. ASSUME j + 1 <= n PROVE f[j + 1] = IF bytes[j + 1] \in S THEN <<T>> ELSE TooLate
  <2>1. j + 1 \in 1..n /\ (j + 1) - 1 = j
    BY <1>2
  <2>2. f[j + 1] = Expected(<<S, T>>, bytes[j + 1], s)
    BY <2>1 DEF Follows
  <2>3. Expected(<<S, T>>, bytes[j + 1], s) = IF bytes[j + 1] \in S THEN <<T>> ELSE TooLate
    BY OnTwo
  <2> QED BY <2>2, <2>3, Zenon
<1>3. \A k \in j..n : k = j \/ k \in (j + 1)..n
  OBVIOUS
<1>4. CASE j + 1 <= n /\ bytes[j + 1] \in S
  <2>1. f[j + 1] = <<T>> /\ j + 1 \in 0..n
    BY <1>2, <1>4
  <2>2. IF (j + 1) + 1 <= n /\ bytes[(j + 1) + 1] \in T THEN f[(j + 1) + 1] = <<>>
        ELSE \A k \in (j + 1)..n : f[k] # <<>>
    BY <2>1, AwaitsOne
  <2>3. (j + 1) + 1 = j + 2
    OBVIOUS
  <2> QED BY <1>1, <1>3, <1>4, <2>2, <2>3
<1>5. CASE ~(j + 1 <= n)
  <2>1. (\A k \in j..n : k = j) /\ ~(j + 2 <= n)
    BY <1>5
  <2>2. \A k \in j..n : f[k] # <<>>
    BY <1>1, <2>1
  <2> QED BY <2>1, <2>2
<1>6. CASE j + 1 <= n /\ bytes[j + 1] \notin S
  <2>1. f[j + 1] = TooLate /\ j + 1 \in 0..n
    BY <1>2, <1>6
  <2>2. \A k \in (j + 1)..n : f[k] # <<>>
    BY <2>1, LateStays
  <2> QED BY <1>1, <1>3, <1>6, <2>2
<1> QED BY <1>4, <1>5, <1>6

\* Three ranges awaited.
LEMMA AwaitsThree ==
  ASSUME NEW f, NEW bytes, NEW s, NEW n \in Nat, Follows(f, bytes, s, n), NEW j \in 0..n,
         NEW S, NEW T, NEW U, f[j] = <<S, T, U>>
  PROVE  IF j + 3 <= n /\ bytes[j + 1] \in S /\ bytes[j + 2] \in T /\ bytes[j + 3] \in U THEN f[j + 3] = <<>>
         ELSE \A k \in j..n : f[k] # <<>>
<1>1. f[j] # <<>>
  OBVIOUS
<1>2. ASSUME j + 1 <= n PROVE f[j + 1] = IF bytes[j + 1] \in S THEN <<T, U>> ELSE TooLate
  <2>1. j + 1 \in 1..n /\ (j + 1) - 1 = j
    BY <1>2
  <2>2. f[j + 1] = Expected(<<S, T, U>>, bytes[j + 1], s)
    BY <2>1 DEF Follows
  <2>3. Expected(<<S, T, U>>, bytes[j + 1], s) = IF bytes[j + 1] \in S THEN <<T, U>> ELSE TooLate
    BY OnThree
  <2> QED BY <2>2, <2>3, Zenon
<1>3. \A k \in j..n : k = j \/ k \in (j + 1)..n
  OBVIOUS
<1>4. CASE j + 1 <= n /\ bytes[j + 1] \in S
  <2>1. f[j + 1] = <<T, U>> /\ j + 1 \in 0..n
    BY <1>2, <1>4
  <2>2. IF (j + 1) + 2 <= n /\ bytes[(j + 1) + 1] \in T /\ bytes[(j + 1) + 2] \in U THEN f[(j + 1) + 2] = <<>>
        ELSE \A k \in (j + 1)..n : f[k] # <<>>
    BY <2>1, AwaitsTwo
  <2>3. (j + 1) + 1 = j + 2 /\ (j + 1) + 2 = j + 3
    OBVIOUS
  <2> QED BY <1>1, <1>3, <1>4, <2>2, <2>3
<1>5. CASE ~(j + 1 <= n)
  <2>1. (\A k \in j..n : k = j) /\ ~(j + 3 <= n)
    BY <1>5
  <2>2. \A k \in j..n : f[k] # <<>>
    BY <1>1, <2>1
  <2> QED BY <2>1, <2>2
<1>6. CASE j + 1 <= n /\ bytes[j + 1] \notin S
  <2>1. f[j + 1] = TooLate /\ j + 1 \in 0..n
    BY <1>2, <1>6
  <2>2. \A k \in (j + 1)..n : f[k] # <<>>
    BY <2>1, LateStays
  <2> QED BY <1>1, <1>3, <1>6, <2>2
<1> QED BY <1>4, <1>5, <1>6

\* The bytes of a code point in its text.
LEMMA Bytes ==
  ASSUME NEW bytes \in Seq(Byte), NEW i \in 1..Len(bytes), NEW t \in Seq(Byte),
         i + Len(t) - 1 <= Len(bytes), \A k \in 1..Len(t) : t[k] = bytes[i + k - 1]
  PROVE  SubSeq(bytes, i, i + Len(t) - 1) = t
<1> DEFINE n == i + Len(t) - 1
           u == SubSeq(bytes, i, n)
<1>1. Len(bytes) \in Nat /\ i \in Int /\ 1 <= i /\ Len(t) \in Nat /\ n \in Int /\ n <= Len(bytes) /\ n - i + 1 = Len(t)
  OBVIOUS
<1> HIDE DEF n
<1>2. \A k \in i..n : bytes[k] \in Byte
  BY <1>1
<1>3. /\ u \in Seq(Byte)
      /\ Len(u) = IF i <= n THEN n - i + 1 ELSE 0
      /\ \A k \in 1..(n - i + 1) : u[k] = bytes[i + k - 1]
  BY <1>1, <1>2, SubSeqProperties
<1>4. Len(u) = Len(t)
  BY <1>1, <1>3
<1>5. \A k \in 1..Len(u) : u[k] = t[k]
  BY <1>1, <1>3, <1>4
<1>6. u = t
  BY <1>3, <1>4, <1>5, SeqEqual
<1> QED BY <1>6 DEF n
-----------------------------------------------------------------------------
(* Where a code point begins, the decoder and the table agree.             *)

\* The decoder reads a code point there exactly when the table does, of as
\* many bytes; the encoder writes it as them.
Fits(f, bytes, s, i) ==
  LET one == DecodeOnePermissive(bytes, i)
  IN  IF one # NotDecoded /\ (s \/ ~IsSurrogate(one.codepoint))
      THEN /\ one.length \in 1..4 /\ i + one.length - 1 <= Len(bytes)
           /\ f[i + one.length - 1] = <<>>
           /\ EncodeCodepoint(one.codepoint) = SubSeq(bytes, i, i + one.length - 1)
      ELSE \A k \in i..Len(bytes) : f[k] # <<>>

\* A code point begins with the byte b.
Starts(f, bytes, s, i, b) ==
  /\ bytes \in Seq(Byte) /\ Follows(f, bytes, s, Len(bytes))
  /\ i \in 1..Len(bytes) /\ f[i - 1] = <<>> /\ b = bytes[i]

\* What is awaited behind it.
LEMMA Started ==
  ASSUME NEW f, NEW bytes, NEW s, NEW i, NEW b, Starts(f, bytes, s, i, b)
  PROVE  /\ Len(bytes) \in Nat /\ i \in 1..Len(bytes) /\ i \in 0..Len(bytes) /\ Follows(f, bytes, s, Len(bytes))
         /\ bytes[i] = b /\ b \in Byte /\ \A j \in 1..Len(bytes) : bytes[j] \in Byte
         /\ f[i] = Expected(<<>>, b, s)
<1>1. Len(bytes) \in Nat /\ i \in 1..Len(bytes) /\ i \in 0..Len(bytes) /\ Follows(f, bytes, s, Len(bytes)) /\ bytes[i] = b
  BY DEF Starts
<1>2. \A j \in 1..Len(bytes) : bytes[j] \in Byte
  BY DEF Starts
<1>3. f[i] = Expected(<<>>, b, s)
  <2>1. f[i - 1] = <<>>
    BY DEF Starts
  <2>2. f[i] = Expected(f[i - 1], bytes[i], s)
    BY <1>1 DEF Follows
  <2> QED BY <1>1, <2>1, <2>2
<1> QED BY <1>1, <1>2, <1>3

\* A code point is read.
LEMMA FitsRead ==
  ASSUME NEW f, NEW bytes, NEW s \in BOOLEAN, NEW i, NEW b, Starts(f, bytes, s, i, b), NEW c, NEW n \in 1..4,
         DecodeOnePermissive(bytes, i) = [codepoint |-> c, length |-> n], s \/ ~IsSurrogate(c),
         i + n - 1 <= Len(bytes), f[i + n - 1] = <<>>,
         NEW t \in Seq(Byte), EncodeCodepoint(c) = t, Len(t) = n, \A k \in 1..n : t[k] = bytes[i + k - 1]
  PROVE  Fits(f, bytes, s, i)
<1> DEFINE one == DecodeOnePermissive(bytes, i)
<1>1. one.codepoint = c /\ one.length = n
  OBVIOUS
<1>2. one # NotDecoded
  <2>1. NotDecoded.length = 0
    BY DEF NotDecoded
  <2>2. n # 0
    OBVIOUS
  <2> QED BY <1>1, <2>1, <2>2
<1>3. SubSeq(bytes, i, i + Len(t) - 1) = t
  BY Bytes DEF Starts
<1> HIDE DEF one
<1>4. SubSeq(bytes, i, i + n - 1) = EncodeCodepoint(c)
  BY <1>3
<1>5. one.length \in 1..4 /\ i + one.length - 1 <= Len(bytes) /\ f[i + one.length - 1] = <<>>
  BY <1>1
<1>6. EncodeCodepoint(one.codepoint) = SubSeq(bytes, i, i + one.length - 1)
  BY <1>1, <1>4
<1>7. s \/ ~IsSurrogate(one.codepoint)
  BY <1>1
<1> QED BY <1>2, <1>5, <1>6, <1>7 DEF Fits, one

\* No code point is read, or a surrogate half where none may be.
LEMMA FitsNot ==
  ASSUME NEW f, NEW bytes, NEW s \in BOOLEAN, NEW i,
         \/ DecodeOnePermissive(bytes, i) = NotDecoded
         \/ ~s /\ IsSurrogate(DecodeOnePermissive(bytes, i).codepoint),
         \A k \in i..Len(bytes) : f[k] # <<>>
  PROVE  Fits(f, bytes, s, i)
BY DEF Fits

\* A byte of its own.
LEMMA FitsOne ==
  ASSUME NEW f, NEW bytes, NEW s \in BOOLEAN, NEW i, NEW b \in OfOne, Starts(f, bytes, s, i, b)
  PROVE  Fits(f, bytes, s, i)
<1> DEFINE t == <<b>>
<1>1. Len(bytes) \in Nat /\ i \in 1..Len(bytes) /\ bytes[i] = b /\ b \in Byte /\ f[i] = Expected(<<>>, b, s)
  BY Started
<1>2. Expected(<<>>, b, s) = <<>>
  BY FirstOne
<1>3. EncodeCodepoint(b) = t /\ ~IsSurrogate(b)
  BY EncodeOne
<1>4. DecodeOnePermissive(bytes, i) = [codepoint |-> b, length |-> 1]
  <2>1. bytes \in Seq(Byte) /\ i \in 1..Len(bytes) /\ b = bytes[i]
    BY DEF Starts
  <2> QED BY <2>1, DecodedOne, Zenon
<1>5. t \in Seq(Byte) /\ Len(t) = 1 /\ t[1] = b
  BY <1>1
<1>6. \A k \in 1..1 : t[k] = bytes[i + k - 1]
  <2>1. i + 1 - 1 = i /\ \A k \in 1..1 : k = 1
    BY <1>1
  <2> QED BY <1>1, <1>5, <2>1, Zenon
<1>7. i + 1 - 1 = i /\ i <= Len(bytes) /\ 1 \in 1..4
  BY <1>1
<1> HIDE DEF t
<1> QED BY <1>1, <1>2, <1>3, <1>4, <1>5, <1>6, <1>7, FitsRead

\* A byte that begins nothing.
LEMMA FitsNone ==
  ASSUME NEW f, NEW bytes, NEW s \in BOOLEAN, NEW i, NEW b \in Useless, Starts(f, bytes, s, i, b)
  PROVE  Fits(f, bytes, s, i)
<1>1. f[i] = Expected(<<>>, b, s)
  BY Started
<1>2. Expected(<<>>, b, s) = TooLate
  BY FirstNone
<1>3. \A k \in i..Len(bytes) : f[k] # <<>>
  BY <1>1, <1>2, Started, LateStays
<1>4. DecodeOnePermissive(bytes, i) = NotDecoded
  <2>1. bytes \in Seq(Byte) /\ i \in 1..Len(bytes) /\ b = bytes[i]
    BY DEF Starts
  <2> QED BY <2>1, DecodedNone, Zenon
<1> QED BY <1>3, <1>4, FitsNot

\* Two bytes.
LEMMA FitsTwo ==
  ASSUME NEW f, NEW bytes, NEW s \in BOOLEAN, NEW i, NEW b \in OfTwo, Starts(f, bytes, s, i, b)
  PROVE  Fits(f, bytes, s, i)
<1> DEFINE c == bytes[i + 1]
           t == <<b, c>>
           two == Two(b, c)
           n == Len(bytes)
<1>1. n \in Nat /\ i \in 1..n /\ i \in 0..n /\ Follows(f, bytes, s, n) /\ b \in Byte /\ bytes[i] = b
  BY Started
<1>2. (b \in ProperTwo => f[i] = <<Later>>) /\ (b \notin ProperTwo => f[i] = TooLate)
  <2>1. f[i] = Expected(<<>>, b, s)
    BY Started
  <2>2. b \in ProperTwo => f[i] = <<Later>>
    BY <2>1, FirstTwo, Zenon
  <2>3. b \notin ProperTwo => f[i] = TooLate
    BY <2>1, FirstTwo, Zenon
  <2> QED BY <2>2, <2>3, Zenon
<1>3. DecodeOnePermissive(bytes, i) =
        IF i + 1 <= n /\ c \in Later /\ 128 <= two THEN [codepoint |-> two, length |-> 2] ELSE NotDecoded
  <2>1. bytes \in Seq(Byte) /\ i \in 1..n /\ b = bytes[i]
    BY DEF Starts
  <2> QED BY <2>1, DecodedTwo, Zenon
<1>4. c \in Later => /\ 128 <= two <=> b \in ProperTwo
                     /\ ~IsSurrogate(two)
                     /\ 128 <= two => EncodeCodepoint(two) = t
  BY TwoRange
<1>5. b \in ProperTwo => IF i + 1 <= n /\ c \in Later THEN f[i + 1] = <<>> ELSE \A k \in i..n : f[k] # <<>>
  <2> SUFFICES ASSUME b \in ProperTwo
               PROVE  IF i + 1 <= n /\ c \in Later THEN f[i + 1] = <<>> ELSE \A k \in i..n : f[k] # <<>>
    OBVIOUS
  <2>1. f[i] = <<Later>>
    BY <1>2
  <2> HIDE DEF n
  <2> QED BY <1>1, <2>1, AwaitsOne, Zenon
<1> HIDE DEF n, two
<1>6. CASE i + 1 <= n /\ c \in Later /\ b \in ProperTwo
  <2>1. c \in Byte
    <3>1. i + 1 \in 1..n
      BY <1>1, <1>6
    <3> QED BY <3>1, Started DEF n
  <2>2. t \in Seq(Byte) /\ Len(t) = 2 /\ t[1] = b /\ t[2] = c
    BY <1>1, <2>1
  <2>3. i + 2 - 1 = i + 1 /\ i + 1 - 1 = i /\ 2 \in 1..4
    BY <1>1
  <2>4. f[i + 1] = <<>> /\ ~IsSurrogate(two) /\ EncodeCodepoint(two) = t
    BY <1>4, <1>5, <1>6
  <2>5. DecodeOnePermissive(bytes, i) = [codepoint |-> two, length |-> 2]
    BY <1>3, <1>4, <1>6
  <2> HIDE DEF c, t
  <2>6. \A k \in 1..2 : t[k] = bytes[i + k - 1]
    <3>1. \A k \in 1..2 : k = 1 \/ k = 2
      OBVIOUS
    <3> QED BY <1>1, <2>2, <2>3, <3>1 DEF c
  <2> QED BY <1>6, <2>2, <2>3, <2>4, <2>5, <2>6, FitsRead DEF n
<1>7. CASE ~(i + 1 <= n /\ c \in Later /\ b \in ProperTwo)
  <2>1. DecodeOnePermissive(bytes, i) = NotDecoded
    BY <1>3, <1>4, <1>7
  <2>2. \A k \in i..n : f[k] # <<>>
    <3>1. CASE b \in ProperTwo
      BY <1>5, <1>7, <3>1
    <3>2. CASE b \notin ProperTwo
      <4>1. f[i] = TooLate
        BY <1>2, <3>2
      <4> QED BY <1>1, <4>1, LateStays
    <3> QED BY <3>1, <3>2
  <2> QED BY <2>1, <2>2, FitsNot DEF n
<1> QED BY <1>6, <1>7

\* Three bytes.
LEMMA FitsThree ==
  ASSUME NEW f, NEW bytes, NEW s \in BOOLEAN, NEW i, NEW b \in OfThree, Starts(f, bytes, s, i, b)
  PROVE  Fits(f, bytes, s, i)
<1> DEFINE c == bytes[i + 1]
           d == bytes[i + 2]
           t == <<b, c, d>>
           three == Three(b, c, d)
           n == Len(bytes)
           one == [codepoint |-> three, length |-> 3]
           Right == i + 2 <= n /\ c \in Second(b, s) /\ d \in Later
<1>1. n \in Nat /\ i \in 1..n /\ i \in 0..n /\ Follows(f, bytes, s, n) /\ b \in Byte /\ bytes[i] = b
  BY Started
<1>2. f[i] = <<Second(b, s), Later>>
  <2>1. f[i] = Expected(<<>>, b, s)
    BY Started
  <2> QED BY <2>1, FirstThree, Zenon
<1>3. DecodeOnePermissive(bytes, i) =
        IF i + 2 <= n /\ c \in Later /\ d \in Later /\ 2048 <= three THEN one ELSE NotDecoded
  <2>1. bytes \in Seq(Byte) /\ i \in 1..n /\ b = bytes[i]
    BY DEF Starts
  <2>2. DecodeOnePermissive(bytes, i) =
          IF i + 2 <= n /\ c \in Later /\ d \in Later /\ 2048 <= Three(bytes[i], c, d)
          THEN [codepoint |-> Three(bytes[i], c, d), length |-> 3] ELSE NotDecoded
    BY <2>1, DecodedThree, SMT
  <2> QED BY <2>1, <2>2, SMT
<1>4. c \in Later /\ d \in Later =>
        /\ (2048 <= three /\ (s \/ ~IsSurrogate(three))) <=> c \in Second(b, s)
        /\ 2048 <= three => EncodeCodepoint(three) = t
  BY ThreeRange
<1>5. IF Right THEN f[i + 2] = <<>> ELSE \A k \in i..n : f[k] # <<>>
  <2> HIDE DEF n
  <2> QED BY <1>1, <1>2, AwaitsTwo
<1>6. Second(b, s) \subseteq Later
  BY DEF Second, Later
<1>7. one.codepoint = three
  OBVIOUS
<1> HIDE DEF n, three, one
<1>8. CASE Right
  <2>1. c \in Byte /\ d \in Byte
    <3>1. i + 1 \in 1..n /\ i + 2 \in 1..n
      BY <1>1, <1>8
    <3> QED BY <3>1, Started DEF n
  <2>2. t \in Seq(Byte) /\ Len(t) = 3 /\ t[1] = b /\ t[2] = c /\ t[3] = d
    BY <1>1, <2>1
  <2>3. i + 3 - 1 = i + 2 /\ i + 2 - 1 = i + 1 /\ i + 1 - 1 = i /\ 3 \in 1..4
    BY <1>1
  <2>4. f[i + 2] = <<>> /\ (s \/ ~IsSurrogate(three)) /\ EncodeCodepoint(three) = t /\ 2048 <= three
    BY <1>4, <1>5, <1>6, <1>8
  <2>5. DecodeOnePermissive(bytes, i) = [codepoint |-> three, length |-> 3]
    BY <1>3, <1>6, <1>8, <2>4, SMT DEF one
  <2> HIDE DEF c, d, t
  <2>6. \A k \in 1..3 : t[k] = bytes[i + k - 1]
    <3>1. \A k \in 1..3 : k = 1 \/ k = 2 \/ k = 3
      OBVIOUS
    <3> QED BY <1>1, <2>2, <2>3, <3>1 DEF c, d
  <2>7. i + 2 <= Len(bytes)
    BY <1>8 DEF n
  <2> QED BY <2>2, <2>3, <2>4, <2>5, <2>6, <2>7, FitsRead, SMT
<1>9. CASE ~Right
  <2>1. \A k \in i..n : f[k] # <<>>
    BY <1>5, <1>9
  <2>2. \/ DecodeOnePermissive(bytes, i) = NotDecoded
        \/ ~s /\ IsSurrogate(DecodeOnePermissive(bytes, i).codepoint)
    <3>1. CASE i + 2 <= n /\ c \in Later /\ d \in Later /\ 2048 <= three
      BY <1>3, <1>4, <1>7, <1>9, <3>1, SMT
    <3>2. CASE ~(i + 2 <= n /\ c \in Later /\ d \in Later /\ 2048 <= three)
      BY <1>3, <3>2, SMT
    <3> QED BY <3>1, <3>2, SMT
  <2> QED BY <2>1, <2>2, FitsNot DEF n
<1> QED BY <1>8, <1>9

\* Four bytes.
LEMMA FitsFour ==
  ASSUME NEW f, NEW bytes, NEW s \in BOOLEAN, NEW i, NEW b \in OfFour, Starts(f, bytes, s, i, b)
  PROVE  Fits(f, bytes, s, i)
<1> DEFINE c == bytes[i + 1]
           d == bytes[i + 2]
           e == bytes[i + 3]
           t == <<b, c, d, e>>
           four == Four(b, c, d, e)
           n == Len(bytes)
           one == [codepoint |-> four, length |-> 4]
           Right == i + 3 <= n /\ c \in Second(b, s) /\ d \in Later /\ e \in Later
           InRange == 65536 <= four /\ four <= LastCodepoint
<1>1. n \in Nat /\ i \in 1..n /\ i \in 0..n /\ Follows(f, bytes, s, n) /\ b \in Byte /\ bytes[i] = b
  BY Started
<1>2. (b \in ProperFour => f[i] = <<Second(b, s), Later, Later>>) /\ (b \notin ProperFour => f[i] = TooLate)
  <2>1. f[i] = Expected(<<>>, b, s)
    BY Started
  <2> HIDE DEF c, d, e, t, four, n, one, Right, InRange
  <2>2. b \in ProperFour => f[i] = <<Second(b, s), Later, Later>>
    <3>1. b \in ProperFour => Expected(<<>>, b, s) = <<Second(b, s), Later, Later>>
      BY FirstFour
    <3> QED BY <2>1, <3>1, Zenon
  <2>3. b \notin ProperFour => f[i] = TooLate
    <3>1. b \notin ProperFour => Expected(<<>>, b, s) = TooLate
      BY FirstFour
    <3> QED BY <2>1, <3>1, Zenon
  <2> QED BY <2>2, <2>3, Zenon
<1>3. DecodeOnePermissive(bytes, i) =
        IF i + 3 <= n /\ c \in Later /\ d \in Later /\ e \in Later /\ InRange THEN one ELSE NotDecoded
  <2>1. bytes \in Seq(Byte) /\ i \in 1..n /\ b = bytes[i]
    BY DEF Starts
  <2>2. DecodeOnePermissive(bytes, i) =
          IF /\ i + 3 <= n /\ c \in Later /\ d \in Later /\ e \in Later
             /\ 65536 <= Four(bytes[i], c, d, e) /\ Four(bytes[i], c, d, e) <= LastCodepoint
          THEN [codepoint |-> Four(bytes[i], c, d, e), length |-> 4] ELSE NotDecoded
    BY <2>1, DecodedFour, SMT
  <2> QED BY <2>1, <2>2, SMT
<1>4. c \in Later /\ d \in Later /\ e \in Later =>
        /\ InRange <=> b \in ProperFour /\ c \in Second(b, s)
        /\ InRange => ~IsSurrogate(four) /\ EncodeCodepoint(four) = t
  BY FourRange, SMT
<1>5. b \in ProperFour => IF Right THEN f[i + 3] = <<>> ELSE \A k \in i..n : f[k] # <<>>
  <2> SUFFICES ASSUME b \in ProperFour PROVE IF Right THEN f[i + 3] = <<>> ELSE \A k \in i..n : f[k] # <<>>
    OBVIOUS
  <2>1. f[i] = <<Second(b, s), Later, Later>>
    BY <1>2
  <2> HIDE DEF n
  <2> QED BY <1>1, <2>1, AwaitsThree
<1>6. b \in ProperFour => Second(b, s) \subseteq Later
  BY DEF Second, Later
<1> HIDE DEF n, four, one, InRange
<1>7. CASE Right /\ b \in ProperFour
  <2>1. c \in Byte /\ d \in Byte /\ e \in Byte
    <3>1. i + 1 \in 1..n /\ i + 2 \in 1..n /\ i + 3 \in 1..n
      BY <1>1, <1>7
    <3> QED BY <3>1, Started DEF n
  <2>2. t \in Seq(Byte) /\ Len(t) = 4 /\ t[1] = b /\ t[2] = c /\ t[3] = d /\ t[4] = e
    BY <1>1, <2>1
  <2>3. i + 4 - 1 = i + 3 /\ i + 3 - 1 = i + 2 /\ i + 2 - 1 = i + 1 /\ i + 1 - 1 = i /\ 4 \in 1..4
    BY <1>1
  <2>4. f[i + 3] = <<>> /\ ~IsSurrogate(four) /\ EncodeCodepoint(four) = t /\ InRange
    BY <1>4, <1>5, <1>6, <1>7
  <2>5. DecodeOnePermissive(bytes, i) = [codepoint |-> four, length |-> 4]
    BY <1>3, <1>6, <1>7, <2>4, SMT DEF one
  <2> HIDE DEF c, d, e, t
  <2>6. \A k \in 1..4 : t[k] = bytes[i + k - 1]
    <3>1. \A k \in 1..4 : k = 1 \/ k = 2 \/ k = 3 \/ k = 4
      OBVIOUS
    <3> QED BY <1>1, <2>2, <2>3, <3>1 DEF c, d, e
  <2>7. i + 3 <= Len(bytes)
    BY <1>7 DEF n
  <2> QED BY <2>2, <2>3, <2>4, <2>5, <2>6, <2>7, FitsRead, SMT
<1>8. CASE ~(Right /\ b \in ProperFour)
  <2>1. DecodeOnePermissive(bytes, i) = NotDecoded
    BY <1>3, <1>4, <1>8, SMT
  <2>2. \A k \in i..n : f[k] # <<>>
    <3>1. CASE b \in ProperFour
      BY <1>5, <1>8, <3>1
    <3>2. CASE b \notin ProperFour
      <4>1. f[i] = TooLate
        BY <1>2, <3>2
      <4> QED BY <1>1, <4>1, LateStays
    <3> QED BY <3>1, <3>2
  <2> QED BY <2>1, <2>2, FitsNot DEF n
<1> QED BY <1>7, <1>8

\* Whatever the first byte.
LEMMA FitsAll ==
  ASSUME NEW f, NEW bytes \in Seq(Byte), NEW s \in BOOLEAN, Follows(f, bytes, s, Len(bytes)),
         NEW i \in 1..Len(bytes), f[i - 1] = <<>>
  PROVE  Fits(f, bytes, s, i)
<1>1. PICK b : b = bytes[i]
  OBVIOUS
<1>2. Starts(f, bytes, s, i, b)
  BY <1>1 DEF Starts
<1>3. b \in Byte
  BY <1>2, Started
<1>4. \A x \in Byte : x \in OfOne \/ x \in Useless \/ x \in OfTwo \/ x \in OfThree \/ x \in OfFour
  BY DEF Byte, OfOne, OfTwo, OfThree, OfFour, Useless
<1>5. b \in OfOne \/ b \in Useless \/ b \in OfTwo \/ b \in OfThree \/ b \in OfFour
  BY <1>3, <1>4, Zenon
<1>6. ASSUME b \in OfOne PROVE Fits(f, bytes, s, i)
  BY <1>2, <1>6, FitsOne, Zenon
<1>7. ASSUME b \in Useless PROVE Fits(f, bytes, s, i)
  BY <1>2, <1>7, FitsNone, Zenon
<1>8. ASSUME b \in OfTwo PROVE Fits(f, bytes, s, i)
  BY <1>2, <1>8, FitsTwo, Zenon
<1>9. ASSUME b \in OfThree PROVE Fits(f, bytes, s, i)
  BY <1>2, <1>9, FitsThree, Zenon
<1>10. ASSUME b \in OfFour PROVE Fits(f, bytes, s, i)
  BY <1>2, <1>10, FitsFour, Zenon
<1> QED BY <1>5, <1>6, <1>7, <1>8, <1>9, <1>10, Zenon
-----------------------------------------------------------------------------
(* The whole text.                                                         *)

\* A code point that is decoded has one to four bytes, all of them there.
LEMMA DecodedLength ==
  ASSUME NEW bytes \in Seq(Byte), NEW i \in 1..Len(bytes), DecodeOnePermissive(bytes, i) # NotDecoded
  PROVE  /\ DecodeOnePermissive(bytes, i).length \in 1..4
         /\ i + DecodeOnePermissive(bytes, i).length <= Len(bytes) + 1
<1> DEFINE lead == Lead(bytes[i])
           more == lead.more
<1>1. more \in -1..3
  <2>1. bytes[i] \in Byte
    OBVIOUS
  <2>2. \A b \in Byte : Lead(b).more \in -1..3
    <3>1. ASSUME NEW b \in Byte PROVE Lead(b).more \in -1..3
      <4>1. b \in OfOne \/ b \in Useless \/ b \in OfTwo \/ b \in OfThree \/ b \in OfFour
        BY DEF Byte, OfOne, OfTwo, OfThree, OfFour, Useless
      <4>3. CASE b \in OfOne
        <5>1. Lead(b) = [more |-> 0, bits |-> b, least |-> 0]
          BY <4>3, LeadTable, SMT
        <5> QED BY <5>1
      <4>4. CASE b \in Useless
        <5>1. Lead(b) = [more |-> -1]
          BY <4>4, LeadTable, SMT
        <5> QED BY <5>1
      <4>5. CASE b \in OfTwo
        <5>1. Lead(b) = [more |-> 1, bits |-> b - 192, least |-> 128]
          BY <4>5, LeadTable, SMT
        <5> QED BY <5>1
      <4>6. CASE b \in OfThree
        <5>1. Lead(b) = [more |-> 2, bits |-> b - 224, least |-> 2048]
          BY <4>6, LeadTable, SMT
        <5> QED BY <5>1
      <4>7. CASE b \in OfFour
        <5>1. Lead(b) = [more |-> 3, bits |-> b - 240, least |-> 65536]
          BY <4>7, LeadTable, SMT
        <5> QED BY <5>1
      <4> QED BY <4>1, <4>3, <4>4, <4>5, <4>6, <4>7
    <3> QED BY <3>1
  <2> QED BY <2>1, <2>2, Zenon
<1>2. /\ DecodeOnePermissive(bytes, i) = [codepoint |-> CodepointOf(bytes, i, lead), length |-> more + 1]
      /\ more >= 0 /\ i + more <= Len(bytes)
  BY SMT DEF DecodeOnePermissive
<1> HIDE DEF lead
<1>3. DecodeOnePermissive(bytes, i).length = more + 1
  BY <1>2
<1> HIDE DEF more
<1>4. Len(bytes) \in Nat /\ i \in Int
  OBVIOUS
<1>5. more \in Int /\ 0 <= more /\ more <= 3
  BY <1>1, <1>2
<1> QED BY <1>2, <1>3, <1>4, <1>5

\* Whether the text is well formed from a place on, by what follows.
Onward(g, bytes, i) ==
  LET one == DecodeOnePermissive(bytes, i)
  IN  \/ i > Len(bytes)
      \/ one # NotDecoded /\ ~IsSurrogate(one.codepoint) /\ g[i + one.length]

\* Only the places behind matter.
LEMMA OnwardBehind ==
  ASSUME NEW bytes \in Seq(Byte), NEW i \in 1..(Len(bytes) + 1), NEW g, NEW h,
         \A j \in (i + 1)..(Len(bytes) + 1) : g[j] = h[j]
  PROVE  Onward(g, bytes, i) = Onward(h, bytes, i)
<1> DEFINE one == DecodeOnePermissive(bytes, i)
<1>1. CASE i > Len(bytes)
  BY <1>1 DEF Onward
<1>2. CASE ~(i > Len(bytes)) /\ one = NotDecoded
  BY <1>2 DEF Onward
<1>3. CASE ~(i > Len(bytes)) /\ one # NotDecoded
  <2>1. i \in 1..Len(bytes) /\ Len(bytes) \in Nat
    BY <1>3
  <2>2. one.length \in 1..4 /\ i + one.length <= Len(bytes) + 1
    BY <1>3, <2>1, DecodedLength
  <2> DEFINE m == i + one.length
  <2>3. m \in (i + 1)..(Len(bytes) + 1)
    BY <2>1, <2>2
  <2>4. g[m] = h[m]
    BY <2>3
  <2> QED BY <2>4 DEF Onward
<1> QED BY <1>1, <1>2, <1>3

\* So there is a function that says it of every place.
LEMMA OnwardExists ==
  ASSUME NEW bytes \in Seq(Byte)
  PROVE  \E g : g = [i \in 1..(Len(bytes) + 1) |-> Onward(g, bytes, i)]
<1> DEFINE n == Len(bytes)
           From(k, g) == \A i \in (n + 1 - k)..(n + 1) : g[i] = Onward(g, bytes, i)
           T == {k \in Nat : k <= n => \E g : From(k, g)}
<1>1. n \in Nat
  OBVIOUS
<1> HIDE DEF n
<1>2. 0 \in T
  <2> DEFINE g == [i \in {n + 1} |-> TRUE]
  <2>1. ASSUME NEW i \in (n + 1 - 0)..(n + 1) PROVE g[i] = Onward(g, bytes, i)
    <3>1. i = n + 1 /\ n + 1 > n
      BY <1>1
    <3>2. g[i] = TRUE
      BY <3>1
    <3> HIDE DEF g
    <3>3. Onward(g, bytes, i) = TRUE
      BY <3>1 DEF Onward, n
    <3> QED BY <3>2, <3>3
  <2> HIDE DEF g
  <2> QED BY <2>1
<1>3. ASSUME NEW k \in Nat, k \in T PROVE k + 1 \in T
  <2> SUFFICES ASSUME k + 1 <= n PROVE \E h : From(k + 1, h)
    OBVIOUS
  <2>1. PICK g : From(k, g)
    BY <1>1, <1>3
  <2> DEFINE first == n + 1 - (k + 1)
             h == [i \in first..(n + 1) |-> IF i = first THEN Onward(g, bytes, first) ELSE g[i]]
  <2>2. first \in 1..n /\ first + 1 = n + 1 - k
    BY <1>1
  <2> HIDE DEF first
  <2>3. h[first] = Onward(g, bytes, first) /\ \A i \in (first + 1)..(n + 1) : h[i] = g[i]
    BY <1>1, <2>2
  <2>4. \A i \in (first + 1)..(n + 1) : g[i] = Onward(g, bytes, i)
    BY <2>1, <2>2
  <2> HIDE DEF h
  <2>5. ASSUME NEW i \in first..(n + 1) PROVE h[i] = Onward(h, bytes, i)
    <3>1. i \in 1..(Len(bytes) + 1) /\ \A j \in (i + 1)..(Len(bytes) + 1) : j \in (first + 1)..(n + 1)
      BY <1>1, <2>2 DEF n
    <3>2. \A j \in (i + 1)..(Len(bytes) + 1) : h[j] = g[j]
      BY <2>3, <3>1
    <3>3. Onward(h, bytes, i) = Onward(g, bytes, i)
      BY <3>1, <3>2, OnwardBehind
    <3>4. CASE i = first
      BY <2>3, <3>3, <3>4
    <3>5. CASE i # first
      <4>1. i \in (first + 1)..(n + 1)
        BY <1>1, <2>2, <3>5
      <4> QED BY <2>3, <2>4, <3>3, <4>1
    <3> QED BY <3>4, <3>5
  <2>6. From(k + 1, h)
    BY <2>5 DEF first
  <2> QED BY <2>6
<1> HIDE DEF T
<1>4. Nat \subseteq T
  BY <1>2, <1>3, UpFromZero
<1>5. n \in T
  BY <1>1, <1>4
<1>6. PICK g : From(n, g)
  BY <1>1, <1>5 DEF T
<1> DEFINE w == [i \in 1..(n + 1) |-> g[i]]
<1>7. \A i \in 1..(n + 1) : g[i] = Onward(g, bytes, i)
  <2>1. n + 1 - n = 1
    BY <1>1
  <2> QED BY <1>6, <2>1
<1>8. ASSUME NEW i \in 1..(n + 1) PROVE w[i] = Onward(w, bytes, i)
  <2>1. \A j \in (i + 1)..(n + 1) : w[j] = g[j]
    BY <1>1
  <2>2. w[i] = g[i]
    OBVIOUS
  <2> HIDE DEF w
  <2>3. Onward(w, bytes, i) = Onward(g, bytes, i)
    BY <2>1, OnwardBehind DEF n
  <2> QED BY <1>7, <2>2, <2>3
<1>9. w = [i \in 1..(n + 1) |-> Onward(w, bytes, i)]
  BY <1>8
<1> HIDE DEF w
<1> QED BY <1>9 DEF n

\* From a place where a code point may begin, the rest is well formed exactly
\* when the table awaits nothing at the end.
LEMMA OnwardReads ==
  ASSUME NEW bytes \in Seq(Byte), NEW f, Follows(f, bytes, FALSE, Len(bytes)),
         NEW g, \A i \in 1..(Len(bytes) + 1) : g[i] = Onward(g, bytes, i)
  PROVE  \A i \in 1..(Len(bytes) + 1) : f[i - 1] = <<>> => (g[i] <=> f[Len(bytes)] = <<>>)
<1> DEFINE n == Len(bytes)
           Reads(i) == f[i - 1] = <<>> => (g[i] <=> f[n] = <<>>)
           T == {k \in Nat : \A i \in 1..(n + 1) : n + 1 - i <= k => Reads(i)}
<1>1. n \in Nat
  OBVIOUS
<1> HIDE DEF n
<1>2. ASSUME NEW i \in 1..(n + 1), \A j \in (i + 1)..(n + 1) : Reads(j) PROVE Reads(i)
  <2> SUFFICES ASSUME f[i - 1] = <<>> PROVE g[i] <=> f[n] = <<>>
    OBVIOUS
  <2>1. g[i] = Onward(g, bytes, i)
    BY DEF n
  <2>2. CASE i = n + 1
    <3>1. i - 1 = n /\ i > n
      BY <1>1, <2>2
    <3>2. f[n] = <<>>
      BY <3>1
    <3>3. Onward(g, bytes, i)
      BY <3>1 DEF Onward, n
    <3> QED BY <2>1, <3>2, <3>3
  <2>3. CASE i # n + 1
    <3> DEFINE one == DecodeOnePermissive(bytes, i)
               m == i + one.length
    <3>1. i \in 1..n /\ n \in i..n /\ ~(i > n)
      BY <1>1, <2>3
    <3>2. Fits(f, bytes, FALSE, i)
      BY <3>1, FitsAll DEF n
    <3>3. CASE one # NotDecoded /\ ~IsSurrogate(one.codepoint)
      <4>1. one.length \in 1..4 /\ i + one.length - 1 <= n /\ f[i + one.length - 1] = <<>>
        BY <3>2, <3>3 DEF Fits, n
      <4>2. m \in (i + 1)..(n + 1) /\ m - 1 = i + one.length - 1
        BY <1>1, <3>1, <4>1
      <4>3. Reads(m)
        BY <1>2, <4>2
      <4>4. g[m] <=> f[n] = <<>>
        BY <4>1, <4>2, <4>3
      <4>5. Onward(g, bytes, i) <=> g[m]
        BY <3>1, <3>3 DEF Onward, n
      <4> QED BY <2>1, <4>4, <4>5
    <3>4. CASE ~(one # NotDecoded /\ ~IsSurrogate(one.codepoint))
      <4>1. f[n] # <<>>
        BY <3>1, <3>2, <3>4 DEF Fits, n
      <4>2. ~Onward(g, bytes, i)
        BY <3>1, <3>4 DEF Onward, n
      <4> QED BY <2>1, <4>1, <4>2
    <3> QED BY <3>3, <3>4
  <2> QED BY <2>2, <2>3
<1> HIDE DEF Reads
<1>3. 0 \in T
  <2>1. ASSUME NEW i \in 1..(n + 1), n + 1 - i <= 0 PROVE Reads(i)
    <3>1. i = n + 1 /\ \A j \in (i + 1)..(n + 1) : FALSE
      BY <1>1, <2>1
    <3> QED BY <1>2, <3>1
  <2> QED BY <2>1
<1>4. ASSUME NEW k \in Nat, k \in T PROVE k + 1 \in T
  <2>1. ASSUME NEW i \in 1..(n + 1), n + 1 - i <= k + 1 PROVE Reads(i)
    <3>1. ASSUME NEW j \in (i + 1)..(n + 1) PROVE Reads(j)
      <4>1. j \in 1..(n + 1) /\ n + 1 - j <= k
        BY <1>1, <2>1
      <4> QED BY <1>4, <4>1
    <3> QED BY <1>2, <3>1
  <2> QED BY <2>1
<1> HIDE DEF T
<1>5. Nat \subseteq T
  BY <1>3, <1>4, UpFromZero
<1>6. ASSUME NEW i \in 1..(n + 1) PROVE Reads(i)
  <2>1. n + 1 - i \in Nat /\ n + 1 - i <= n + 1 - i
    BY <1>1
  <2>2. n + 1 - i \in T
    BY <1>5, <2>1
  <2> QED BY <2>1, <2>2 DEF T
<1> QED BY <1>6 DEF Reads, n

\* The strict decoder accepts a text exactly when the Unicode Standard does.
LEMMA StrictExact ==
  ASSUME NEW bytes \in Seq(Byte)
  PROVE  IsWellFormed(bytes) = (Awaited(bytes, FALSE) = <<>>)
<1> DEFINE g == CHOOSE g : g = [i \in 1..(Len(bytes) + 1) |-> Onward(g, bytes, i)]
<1>1. g = [i \in 1..(Len(bytes) + 1) |-> Onward(g, bytes, i)]
  BY OnwardExists
<1>2. IsWellFormed(bytes) = g[1]
  BY DEF IsWellFormed, Onward
<1> HIDE DEF g
<1>3. \A i \in 1..(Len(bytes) + 1) : g[i] = Onward(g, bytes, i)
  BY <1>1
<1>4. PICK f : Follows(f, bytes, FALSE, Len(bytes)) /\ Awaited(bytes, FALSE) = f[Len(bytes)]
  BY OneReading
<1>5. f[1 - 1] = <<>> /\ 1 \in 1..(Len(bytes) + 1)
  <2>1. 1 - 1 = 0 /\ 1 \in 1..(Len(bytes) + 1)
    OBVIOUS
  <2> QED BY <1>4, <2>1 DEF Follows
<1>6. g[1] <=> f[Len(bytes)] = <<>>
  BY <1>3, <1>4, <1>5, OnwardReads
<1>7. g[1] \in BOOLEAN
  <2>1. g[1] = Onward(g, bytes, 1)
    BY <1>3, <1>5
  <2> QED BY <2>1 DEF Onward
<1> QED BY <1>2, <1>4, <1>6, <1>7

\* The permissive decoder reads a code point exactly when the standard with
\* the surrogate halves does, and the encoder writes it as it was read.
LEMMA PermissiveExact ==
  ASSUME NEW bytes \in Seq(Byte), bytes # <<>>
  PROVE  LET one == DecodeOnePermissive(bytes, 1)
         IN  IF one = NotDecoded THEN \A n \in DOMAIN bytes : Awaited(SubSeq(bytes, 1, n), TRUE) # <<>>
             ELSE /\ Awaited(SubSeq(bytes, 1, one.length), TRUE) = <<>>
                  /\ EncodeCodepoint(one.codepoint) = SubSeq(bytes, 1, one.length)
<1> DEFINE one == DecodeOnePermissive(bytes, 1)
<1>1. PICK f : /\ Follows(f, bytes, TRUE, Len(bytes))
               /\ Awaited(bytes, TRUE) = f[Len(bytes)]
               /\ \A n \in 0..Len(bytes) : Awaited(SubSeq(bytes, 1, n), TRUE) = f[n]
  BY OneReading
<1>2. 1 \in 1..Len(bytes) /\ Len(bytes) \in Nat /\ DOMAIN bytes = 1..Len(bytes) /\ 1 - 1 = 0
  OBVIOUS
<1>3. f[1 - 1] = <<>>
  BY <1>1, <1>2 DEF Follows
<1>4. Fits(f, bytes, TRUE, 1)
  BY <1>1, <1>2, <1>3, FitsAll
<1>5. CASE one = NotDecoded
  <2>1. \A n \in 1..Len(bytes) : f[n] # <<>> /\ n \in 0..Len(bytes)
    BY <1>4, <1>5 DEF Fits
  <2>2. \A n \in DOMAIN bytes : Awaited(SubSeq(bytes, 1, n), TRUE) # <<>>
    BY <1>1, <1>2, <2>1
  <2> QED BY <1>5, <2>2
<1>6. CASE one # NotDecoded
  <2>1. /\ one.length \in 1..4 /\ 1 + one.length - 1 <= Len(bytes)
        /\ f[1 + one.length - 1] = <<>>
        /\ EncodeCodepoint(one.codepoint) = SubSeq(bytes, 1, 1 + one.length - 1)
    BY <1>4, <1>6 DEF Fits
  <2>2. 1 + one.length - 1 = one.length /\ one.length \in 0..Len(bytes)
    BY <1>2, <2>1
  <2>3. f[one.length] = <<>> /\ EncodeCodepoint(one.codepoint) = SubSeq(bytes, 1, one.length)
    BY <2>1, <2>2
  <2>4. Awaited(SubSeq(bytes, 1, one.length), TRUE) = <<>>
    BY <1>1, <2>2, <2>3
  <2> QED BY <1>6, <2>3, <2>4
<1> QED BY <1>5, <1>6

\* Utf8Exact: whatever has been typed, if it is bytes, is decoded as the
\* Unicode Standard says and encoded as it was.
THEOREM Utf8ExactHolds == TextOfBytes => Utf8Exact
<1> SUFFICES ASSUME alphabet = "Bytes", text \in Seq(Byte)
             PROVE  /\ IsWellFormed(text) = (Awaited(text, FALSE) = <<>>)
                    /\ text # <<>> =>
                         LET one == DecodeOnePermissive(text, 1)
                         IN  IF one = NotDecoded THEN \A n \in DOMAIN text : Awaited(SubSeq(text, 1, n), TRUE) # <<>>
                             ELSE /\ Awaited(SubSeq(text, 1, one.length), TRUE) = <<>>
                                  /\ EncodeCodepoint(one.codepoint) = SubSeq(text, 1, one.length)
  BY DEF TextOfBytes, Utf8Exact
<1>1. IsWellFormed(text) = (Awaited(text, FALSE) = <<>>)
  BY StrictExact
<1>2. ASSUME text # <<>>
      PROVE  LET one == DecodeOnePermissive(text, 1)
             IN  IF one = NotDecoded THEN \A n \in DOMAIN text : Awaited(SubSeq(text, 1, n), TRUE) # <<>>
                 ELSE /\ Awaited(SubSeq(text, 1, one.length), TRUE) = <<>>
                      /\ EncodeCodepoint(one.codepoint) = SubSeq(text, 1, one.length)
  BY <1>2, PermissiveExact
<1> QED BY <1>1, <1>2
=============================================================================
