------------------------- MODULE RequestDataProofs -------------------------
(***************************************************************************)
(* Base64::Encode stays within the text it has reserved, for every payload *)
(* and every width of the accumulator; the white list is exact, for every  *)
(* list and every length of an address; and the cookie comes back, for     *)
(* every payload and every jar of well-formed cookies.                     *)
(***************************************************************************)
EXTENDS RequestData, TLAPS

\* The text has room for all the bits, and at most 16 to spare.
LEMMA Room ==
    ASSUME NEW n \in Nat
    PROVE  /\ EncodedSize(n) \in Nat
           /\ 6 * EncodedSize(n) >= 8 * n
           /\ 6 * EncodedSize(n) <= 8 * n + 16
  BY DEF EncodedSize

\* The length of a text of which only the positions are known.
LEMMA LengthOfFunction ==
    ASSUME NEW n \in Nat, NEW s, s = [i \in 1..n |-> s[i]]
    PROVE  Len(s) = n
  <1> DEFINE chars == {s[i] : i \in 1..n}
  <1>1. [i \in 1..n |-> s[i]] \in Seq(chars) /\ Len([i \in 1..n |-> s[i]]) = n
    OBVIOUS
  <1> QED
    BY <1>1

\* The text keeps the length that was reserved for it.
Reserved == retval = [i \in 1..EncodedSize(Len(bindata)) |-> retval[i]]

\* Bits written and bits collected are the bits taken; the tail is written
\* when nothing is left to take.
Balance ==
    /\ bindata \in Seq(0..255) /\ taken \in 0..Len(bindata)
    /\ Reserved
    /\ outpos \in Nat /\ bits_collected \in 0..13
    /\ encoder \in {"loop", "returned"}
    /\ encoder = "loop" => 6 * outpos + bits_collected = 8 * taken
    /\ encoder = "returned" =>
          /\ bits_collected < 6
          /\ 8 * Len(bindata) <= 6 * outpos
          /\ 6 * outpos <= 8 * Len(bindata) + 5

LEMMA BalanceInBounds == Balance => EncodeInBounds
  <1> SUFFICES ASSUME Balance PROVE EncodeInBounds
    OBVIOUS
  <1>1. Len(bindata) \in Nat /\ taken <= Len(bindata) /\ taken \in Nat
    BY DEF Balance
  <1>2. Len(retval) = EncodedSize(Len(bindata))
    BY <1>1, Room, LengthOfFunction DEF Balance, Reserved
  <1>3. /\ Len(retval) \in Nat
        /\ 6 * Len(retval) >= 8 * Len(bindata)
        /\ 6 * Len(retval) <= 8 * Len(bindata) + 16
    BY <1>1, <1>2, Room
  <1>4. outpos \in Nat /\ bits_collected \in Nat
    BY DEF Balance
  <1>5. CASE encoder = "loop"
    <2>1. 6 * outpos + bits_collected = 8 * taken
      BY <1>5 DEF Balance
    <2>2. 6 * outpos + bits_collected <= 6 * Len(retval)
      BY <1>1, <1>3, <1>4, <2>1
    <2>3. outpos <= Len(retval) /\ (bits_collected > 0 => outpos < Len(retval))
      BY <1>3, <1>4, <2>2
    <2> QED
      BY <1>4, <1>5, <2>3 DEF EncodeInBounds
  <1>6. CASE encoder = "returned"
    <2>1. /\ bits_collected < 6
          /\ 8 * Len(bindata) <= 6 * outpos
          /\ 6 * outpos <= 8 * Len(bindata) + 5
      BY <1>6 DEF Balance
    <2>2. outpos <= Len(retval) /\ Len(retval) - outpos \in 0..2
      BY <1>1, <1>3, <1>4, <2>1
    <2> QED
      BY <1>6, <2>1, <2>2 DEF EncodeInBounds
  <1> QED
    BY <1>5, <1>6 DEF Balance

LEMMA BalanceInit == RequestInit => Balance
  <1> SUFFICES ASSUME NEW bytes \in Seq(0..255), EncodeInit(bytes) PROVE Balance
    BY RequestAssumption DEF RequestInit
  <1> QED
    BY DEF EncodeInit, Balance, Reserved

\* Putting a character leaves the positions of the text alone.
LEMMA BalanceStep == Balance /\ [RequestNext]_rdvars => Balance'
  <1> SUFFICES ASSUME Balance, [RequestNext]_rdvars PROVE Balance'
    OBVIOUS
  <1>1. CASE TakeByte
    <2>1. Reserved'
      BY <1>1 DEF TakeByte, Balance, Reserved
    <2>2. /\ encoder = "loop" /\ bits_collected < 6 /\ taken < Len(bindata)
          /\ bits_collected' = bits_collected + 8 /\ taken' = taken + 1
          /\ UNCHANGED <<bindata, outpos, encoder>>
      BY <1>1 DEF TakeByte
    <2> QED
      BY <2>1, <2>2 DEF Balance
  <1>2. CASE PutSextet
    <2>1. Reserved'
      BY <1>2, Zenon DEF PutSextet, Put, Balance, Reserved
    <2>2. /\ encoder = "loop" /\ bits_collected >= 6
          /\ bits_collected' = bits_collected - 6 /\ outpos' = outpos + 1
          /\ UNCHANGED <<bindata, taken, encoder>>
      BY <1>2 DEF PutSextet, Put
    <2> QED
      BY <2>1, <2>2 DEF Balance
  <1>3. CASE PutTail
    <2>1. Reserved'
      BY <1>3, Zenon DEF PutTail, Put, Balance, Reserved
    <2>2. /\ encoder = "loop" /\ bits_collected < 6 /\ taken = Len(bindata)
          /\ encoder' = "returned"
          /\ outpos' = IF bits_collected > 0 THEN outpos + 1 ELSE outpos
          /\ UNCHANGED <<bindata, taken, bits_collected>>
      BY <1>3 DEF PutTail, Put
    <2> QED
      BY <2>1, <2>2 DEF Balance
  <1>4. CASE UNCHANGED encoding
    BY <1>4 DEF encoding, Balance, Reserved
  <1>5. DecodeCookie => UNCHANGED encoding
    BY DEF DecodeCookie, DecodeCall, Decode, DecodeChar, DecodeReturn
  <1>6. Load \/ Request \/ CheckCookie \/ Parse \/ UNCHANGED rdvars => UNCHANGED encoding
    BY DEF Load, Request, CheckCookie, Parse, rdvars, b64vars
  <1> QED
    BY <1>1, <1>2, <1>3, <1>4, <1>5, <1>6 DEF RequestNext, SetCookie, Encode

(* Encode writes only into the text it has reserved, its assertions        *)
(* (base64.cpp:49 and 54) hold and at most two "=" are left at the end,    *)
(* for every payload.                                                      *)
THEOREM EncodeSafe == RequestSpec => []EncodeInBounds
  <1>1. RequestSpec => []Balance
    BY BalanceInit, BalanceStep, PTL DEF RequestSpec
  <1> QED
    BY <1>1, BalanceInBounds, PTL
-----------------------------------------------------------------------------
(* What Encode writes.  The bytes, followed by zeros, are cut into groups of *)
(* six bits; of the accumulator, whose high bits are lost, the last twelve  *)
(* bits are all that matter for the next group.                             *)
\* The bytes that are encoded, followed by zeros, and the k-th group of six
\* of their bits.
Byte(i) == IF i \in 1..Len(bindata) THEN bindata[i] ELSE 0
SextetOf(q, r) ==
    IF r = 0 THEN Byte(3 * q + 1) \div 4
    ELSE IF r = 1 THEN (Byte(3 * q + 1) % 4) * 16 + Byte(3 * q + 2) \div 16
    ELSE IF r = 2 THEN (Byte(3 * q + 2) % 16) * 4 + Byte(3 * q + 3) \div 64
    ELSE Byte(3 * q + 3) % 64
Sextet(k) == SextetOf((k - 1) \div 4, (k - 1) % 4)

LEMMA ElementOf ==
    ASSUME NEW S, NEW s \in Seq(S), NEW i \in 1..Len(s)
    PROVE  s[i] \in S
  OBVIOUS

LEMMA ByteRange ==
    ASSUME bindata \in Seq(0..255), NEW i \in Int
    PROVE  Byte(i) \in 0..255
  <1>1. i \in 1..Len(bindata) => bindata[i] \in 0..255
    BY ElementOf, Zenon
  <1> QED
    BY <1>1 DEF Byte

LEMMA SextetAt ==
    ASSUME NEW q \in Nat
    PROVE  /\ Sextet(4 * q + 1) = SextetOf(q, 0) /\ Sextet(4 * q + 2) = SextetOf(q, 1)
           /\ Sextet(4 * q + 3) = SextetOf(q, 2) /\ Sextet(4 * q + 4) = SextetOf(q, 3)
  <1>1. /\ (4 * q + 1 - 1) \div 4 = q /\ (4 * q + 2 - 1) \div 4 = q
        /\ (4 * q + 3 - 1) \div 4 = q /\ (4 * q + 4 - 1) \div 4 = q
    OBVIOUS
  <1>2. /\ (4 * q + 1 - 1) % 4 = 0 /\ (4 * q + 2 - 1) % 4 = 1
        /\ (4 * q + 3 - 1) % 4 = 2 /\ (4 * q + 4 - 1) % 4 = 3
    OBVIOUS
  <1> QED
    BY <1>1, <1>2 DEF Sextet

LEMMA SextetRange ==
    ASSUME bindata \in Seq(0..255), NEW k \in Nat, k > 0
    PROVE  Sextet(k) \in 0..63
  <1>1. PICK q \in Nat : q = (k - 1) \div 4
    OBVIOUS
  <1>2. PICK r \in 0..3 : r = (k - 1) % 4
    OBVIOUS
  <1>0. 3 * q + 1 \in Int /\ 3 * q + 2 \in Int /\ 3 * q + 3 \in Int
    OBVIOUS
  <1>3. PICK x \in 0..255, y \in 0..255, z \in 0..255 :
           x = Byte(3 * q + 1) /\ y = Byte(3 * q + 2) /\ z = Byte(3 * q + 3)
    BY <1>0, ByteRange, Zenon
  <1>4. /\ x \div 4 \in 0..63 /\ (x % 4) * 16 + y \div 16 \in 0..63
        /\ (y % 16) * 4 + z \div 64 \in 0..63 /\ z % 64 \in 0..63
    OBVIOUS
  <1>5. SextetOf(q, r) \in 0..63
    BY <1>3, <1>4, Zenon DEF SextetOf
  <1> QED
    BY <1>1, <1>2, <1>5, Zenon DEF Sextet

LEMMA TableInverse ==
    ASSUME NEW n \in 0..63
    PROVE  /\ b64_table(n) \in NameChars
           /\ reverse_table(b64_table(n)) = n /\ ~Skipped(b64_table(n))
  BY DEF b64_table, reverse_table, Skipped, Pad, NameChars, Spaces, Semicolon, Equals

\* The last twelve bits of a word are four of x and all of y, or all of x and
\* of y.
EndsInBytes(a, x, y) == a % 4096 = (x % 16) * 256 + y
EndsInSextets(a, x, y) == a % 4096 = x * 64 + y

\* Of the accumulator the last byte matters, and four bits of the one before.
LastBytes == EndsInBytes(accumulator, Byte(taken - 1), Byte(taken))

\* What is in the text so far.
Written ==
    /\ Balance
    /\ accumulator \in Nat
    /\ LastBytes
    /\ \A k \in 1..outpos : retval[k] = b64_table(Sextet(k))
    /\ \A k \in 1..EncodedSize(Len(bindata)) : k > outpos => retval[k] = Pad

LEMMA SeqOfFunction ==
    ASSUME NEW S, NEW n \in Nat, NEW s, s = [i \in 1..n |-> s[i]], \A i \in 1..n : s[i] \in S
    PROVE  s \in Seq(S) /\ Len(s) = n
  <1>1. [i \in 1..n |-> s[i]] \in Seq(S)
    OBVIOUS
  <1>2. s \in Seq(S)
    BY <1>1, Zenon
  <1> QED
    BY <1>2, LengthOfFunction, Zenon

\* What the text is made of.
LEMMA TextChars ==
    ASSUME Written, encoder = "returned"
    PROVE  /\ retval \in Seq(1..127) /\ Len(retval) \in Nat /\ outpos \in 0..Len(retval)
           /\ Len(retval) = EncodedSize(Len(bindata))
           /\ \A k \in 1..outpos : retval[k] = b64_table(Sextet(k)) /\ Sextet(k) \in 0..63
           /\ \A k \in outpos + 1..Len(retval) : retval[k] = Pad
           /\ Len(retval) - outpos \in 0..2
  <1>1. Len(bindata) \in Nat /\ outpos \in Nat /\ bindata \in Seq(0..255)
    BY DEF Written, Balance
  <1>2. PICK size \in Nat : size = EncodedSize(Len(bindata))
    BY <1>1, Room
  <1>3. Len(retval) = size /\ retval = [i \in 1..size |-> retval[i]]
    BY <1>2, LengthOfFunction DEF Written, Balance, Reserved
  <1>4. outpos <= size /\ size - outpos \in 0..2
    BY <1>1, <1>3, BalanceInBounds DEF Written, EncodeInBounds
  <1>5. \A k \in 1..outpos : Sextet(k) \in 0..63
    BY <1>1, SextetRange
  <1>6. \A k \in 1..outpos : retval[k] = b64_table(Sextet(k))
    BY Zenon DEF Written
  <1>7. \A k \in outpos + 1..size : retval[k] = Pad
    BY <1>1, <1>2 DEF Written
  <1>8. \A n \in 0..63 : b64_table(n) \in 1..127
    BY DEF b64_table
  <1>9. Pad \in 1..127
    BY DEF Pad
  <1>10. \A k \in 1..size : retval[k] \in 1..127
    <2> TAKE k \in 1..size
    <2>1. k \in 1..outpos \/ k \in outpos + 1..size
      BY <1>1, <1>2
    <2>2. CASE k \in 1..outpos
      BY <1>5, <1>6, <1>8, <2>2, Zenon
    <2>3. CASE k \in outpos + 1..size
      BY <1>7, <1>9, <2>3, Zenon
    <2> QED
      BY <2>1, <2>2, <2>3, Zenon
  <1>11. retval \in Seq(1..127)
    BY <1>3, <1>10, SeqOfFunction, Zenon
  <1>12. outpos \in 0..Len(retval) /\ Len(retval) - outpos \in 0..2 /\ Len(retval) \in Nat
    BY <1>1, <1>3, <1>4
  <1> QED
    BY <1>2, <1>3, <1>5, <1>6, <1>7, <1>11, <1>12, Zenon

-----------------------------------------------------------------------------
(* Positions in a text.  Span, SpanBack and ValueEnd choose a position that  *)
(* exists and is the only one.                                              *)
LEMMA SameSequence ==
    ASSUME NEW S, NEW a \in Seq(S), NEW b \in Seq(S), NEW n, Len(a) = n, Len(b) = n,
           \A i \in 1..n : a[i] = b[i]
    PROVE  a = b
  <1>1. /\ DOMAIN a = 1..n /\ DOMAIN b = 1..n
        /\ a = [i \in DOMAIN a |-> a[i]] /\ b = [i \in DOMAIN b |-> b[i]]
    OBVIOUS
  <1> QED
    BY <1>1, Zenon

LEMMA Positioned ==
    ASSUME NEW S, NEW s \in Seq(S)
    PROVE  DOMAIN s = 1..Len(s)
  OBVIOUS

LEMMA DropFacts ==
    ASSUME NEW S, NEW s \in Seq(S), NEW p \in 0..Len(s)
    PROVE  /\ Drop(s, p) \in Seq(S) /\ Len(Drop(s, p)) = Len(s) - p
           /\ \A i \in 1..Len(s) - p : Drop(s, p)[i] = s[p + i]
  BY DEF Drop

Dropped(S, s, p, d) ==
    d \in Seq(S) /\ Len(d) = Len(s) - p /\ \A i \in 1..Len(s) - p : d[i] = s[p + i]

LEMMA DropIs ==
    ASSUME NEW S, NEW s \in Seq(S), NEW p \in 0..Len(s)
    PROVE  Dropped(S, s, p, Drop(s, p))
  BY DropFacts, Zenon DEF Dropped

LEMMA DropDrop ==
    ASSUME NEW S, NEW s \in Seq(S), NEW p \in 0..Len(s), NEW n \in 0..Len(s) - p
    PROVE  Drop(Drop(s, p), n) = Drop(s, p + n)
  <1>1. PICK d : d = Drop(s, p)
    OBVIOUS
  <1>2. /\ d \in Seq(S) /\ Len(d) = Len(s) - p
        /\ \A i \in 1..Len(s) - p : d[i] = s[p + i]
    BY <1>1, DropFacts
  <1>3. n \in 0..Len(d) /\ p + n \in 0..Len(s) /\ Len(s) \in Nat
    BY <1>2
  <1>4. /\ Drop(d, n) \in Seq(S) /\ Len(Drop(d, n)) = Len(d) - n
        /\ \A i \in 1..Len(d) - n : Drop(d, n)[i] = d[n + i]
    <2>1. Dropped(S, d, n, Drop(d, n))
      BY <1>2, <1>3, DropIs, Zenon
    <2> QED
      BY <2>1, Zenon DEF Dropped
  <1>8. PICK m \in 0..Len(s) : m = p + n
    BY <1>3
  <1>5. /\ Drop(s, m) \in Seq(S) /\ Len(Drop(s, m)) = Len(s) - m
        /\ \A i \in 1..Len(s) - m : Drop(s, m)[i] = s[m + i]
    BY DropFacts, Zenon
  <1>6. Len(Drop(d, n)) = Len(Drop(s, m)) /\ Len(d) - n = Len(s) - m
    BY <1>2, <1>3, <1>4, <1>5, <1>8
  <1>7. ASSUME NEW i \in 1..Len(s) - m PROVE Drop(d, n)[i] = Drop(s, m)[i]
    <2>1. n + i \in 1..Len(s) - p /\ p + (n + i) = m + i
      BY <1>3, <1>8
    <2>2. Drop(d, n)[i] = d[n + i]
      BY <1>4, <1>6
    <2> QED
      BY <1>2, <1>5, <2>1, <2>2
  <1>9. Drop(d, n) = Drop(s, m)
    <2>1. PICK a, b : a = Drop(d, n) /\ b = Drop(s, m)
      OBVIOUS
    <2>2. a \in Seq(S) /\ b \in Seq(S) /\ Len(a) = Len(s) - m /\ Len(b) = Len(s) - m
      BY <1>4, <1>5, <1>6, <2>1, Zenon
    <2>3. \A i \in 1..Len(s) - m : a[i] = b[i]
      BY <1>7, <2>1, Zenon
    <2> QED
      BY <2>1, <2>2, <2>3, SameSequence, Zenon
  <1> QED
    BY <1>1, <1>8, <1>9, Zenon

\* There is exactly one length that Span may choose.
LEMMA SpanIs ==
    ASSUME NEW S, NEW s \in Seq(S), NEW chars, NEW n \in 0..Len(s),
           \A i \in 1..n : s[i] \in chars, n < Len(s) => s[n + 1] \notin chars
    PROVE  Span(s, chars) = n
  <1> DEFINE P(m) == (\A i \in 1..m : s[i] \in chars) /\ (m < Len(s) => s[m + 1] \notin chars)
  <1>1. Len(s) \in Nat
    OBVIOUS
  <1>2. \A m \in 0..Len(s) : P(m) => m = n
    BY <1>1
  <1>3. Span(s, chars) = CHOOSE m \in 0..Len(s) : P(m)
    BY DEF Span
  <1>4. P(n)
    OBVIOUS
  <1> QED
    BY <1>2, <1>3, <1>4

\* From one position of a text, the characters of a set go up to another.
Run(s, chars, p, e) ==
    /\ e \in p..Len(s) /\ \A i \in p + 1..e : s[i] \in chars
    /\ e < Len(s) => s[e + 1] \notin chars

LEMMA SkipTo ==
    ASSUME NEW S, NEW s \in Seq(S), NEW chars, NEW p \in 0..Len(s), NEW e, Run(s, chars, p, e)
    PROVE  /\ Span(Drop(s, p), chars) = e - p
           /\ Drop(Drop(s, p), Span(Drop(s, p), chars)) = Drop(s, e)
  <1>1. PICK d : d = Drop(s, p)
    OBVIOUS
  <1>2. /\ d \in Seq(S) /\ Len(d) = Len(s) - p
        /\ \A i \in 1..Len(s) - p : d[i] = s[p + i]
    BY <1>1, DropFacts
  <1>3. /\ Len(s) \in Nat /\ e \in Nat /\ p \in Nat /\ p <= e /\ e <= Len(s) /\ p + (e - p) = e
        /\ e - p \in 0..Len(d) /\ e - p \in 0..Len(s) - p
    BY <1>2 DEF Run
  <1>4. ASSUME NEW i \in 1..e - p PROVE d[i] \in chars
    <2>1. i \in 1..Len(s) - p /\ p + i \in p + 1..e
      BY <1>3
    <2> QED
      BY <1>2, <2>1 DEF Run
  <1>5. ASSUME e - p < Len(d) PROVE d[e - p + 1] \notin chars
    <2>1. e < Len(s) /\ e - p + 1 \in 1..Len(s) - p /\ p + (e - p + 1) = e + 1
      BY <1>2, <1>3, <1>5
    <2> QED
      BY <1>2, <2>1 DEF Run
  <1>6. Span(d, chars) = e - p
    <2>1. PICK n \in 0..Len(d) : n = e - p
      BY <1>3
    <2>2. (\A i \in 1..n : d[i] \in chars) /\ (n < Len(d) => d[n + 1] \notin chars)
      BY <1>4, <1>5, <2>1, Zenon
    <2>3. Span(d, chars) = n
      BY <1>2, <2>2, SpanIs, Zenon
    <2> QED
      BY <2>1, <2>3, Zenon
  <1>7. Drop(d, e - p) = Drop(s, e)
    <2>1. PICK n \in 0..Len(s) - p : n = e - p
      BY <1>3
    <2>2. Drop(Drop(s, p), n) = Drop(s, p + n)
      BY DropDrop, Zenon
    <2> QED
      BY <1>1, <1>3, <2>1, <2>2
  <1> QED
    BY <1>1, <1>6, <1>7, Zenon

LEMMA SpanBackIs ==
    ASSUME NEW S, NEW s \in Seq(S), NEW chars, NEW n \in 0..Len(s),
           \A i \in Len(s) - n + 1..Len(s) : s[i] \in chars, n < Len(s) => s[Len(s) - n] \notin chars
    PROVE  SpanBack(s, chars) = n
  <1> DEFINE P(m) == /\ \A i \in Len(s) - m + 1..Len(s) : s[i] \in chars
                     /\ m < Len(s) => s[Len(s) - m] \notin chars
  <1>1. Len(s) \in Nat
    OBVIOUS
  <1>2. \A m \in 0..Len(s) : P(m) => m = n
    <2> TAKE m \in 0..Len(s)
    <2> SUFFICES ASSUME P(m), m # n PROVE FALSE
      OBVIOUS
    <2>1. CASE m < n
      <3>1. Len(s) - m \in Len(s) - n + 1..Len(s) /\ m < Len(s)
        BY <1>1, <2>1
      <3> QED
        BY <3>1
    <2>2. CASE n < m
      <3>1. Len(s) - n \in Len(s) - m + 1..Len(s) /\ n < Len(s)
        BY <1>1, <2>2
      <3> QED
        BY <3>1
    <2> QED
      BY <1>1, <2>1, <2>2
  <1>3. SpanBack(s, chars) = CHOOSE m \in 0..Len(s) : P(m)
    BY DEF SpanBack
  <1>4. P(n)
    OBVIOUS
  <1> QED
    BY <1>2, <1>3, <1>4

LEMMA ValueEndIs ==
    ASSUME NEW S, NEW s \in Seq(S), NEW n \in 0..Len(s),
           \A i \in 1..n : ~EndsAt(s, i), n < Len(s) => EndsAt(s, n + 1)
    PROVE  ValueEnd(s) = n
  <1> DEFINE P(m) == (\A i \in 1..m : ~EndsAt(s, i)) /\ (m < Len(s) => EndsAt(s, m + 1))
  <1>1. Len(s) \in Nat
    OBVIOUS
  <1>2. \A m \in 0..Len(s) : P(m) => m = n
    BY <1>1
  <1>3. ValueEnd(s) = CHOOSE m \in 0..Len(s) : P(m)
    BY DEF ValueEnd
  <1>4. P(n)
    OBVIOUS
  <1> QED
    BY <1>2, <1>3, <1>4

\* Where the name, the "=", the value and the rest are in a jar.
Laid(jar, b, a) ==
    /\ Len(jar) = Len(b) + Len(Deflect) + 1 + Len(retval) + Len(a)
    /\ \A i \in 1..Len(b) : jar[i] = b[i]
    /\ \A i \in 1..Len(Deflect) : jar[Len(b) + i] = Deflect[i]
    /\ jar[Len(b) + Len(Deflect) + 1] = Equals
    /\ \A i \in 1..Len(retval) : jar[Len(b) + Len(Deflect) + 1 + i] = retval[i]
    /\ \A i \in 1..Len(a) : jar[Len(b) + Len(Deflect) + 1 + Len(retval) + i] = a[i]

-----------------------------------------------------------------------------
(* The jar.  Wherever consume is, it has not passed the cookie of banjax, and *)
(* the cookies that are still ahead of that one have other names.           *)
\* A cookie of another name is ahead in b: its name goes up to j, then there
\* are spaces up to k, and it ends at q.
Ahead(b, p, j, k, q) ==
    /\ j \in p..k /\ k \in p..q - 1 /\ q \in p + 1..Len(b)
    /\ b[q] = Semicolon /\ \A i \in p + 1..q - 1 : b[i] # Semicolon
    /\ \A i \in p + 1..j : b[i] \in NameChars
    /\ \A i \in j + 1..k : b[i] \in Spaces
    /\ k + 1 = q \/ b[k + 1] = Equals

\* Where consume may be in a jar: at a cookie ...
AtCookie(b, p) == p \in 0..Len(b) /\ (p = 0 \/ b[p] = Semicolon)
\* ... at its first character that is not a space ...
AtName(b, p) ==
    \/ p = Len(b)
    \/ /\ p \in 0..Len(b)
       /\ \E j, k, q \in Nat : /\ Ahead(b, p, j, k, q) /\ SubSeq(b, p + 1, j) # Deflect
                               /\ p = j => j = k
\* ... behind its name ...
AfterName(b, p) ==
    \/ name = Deflect /\ p = Len(b) + Len(Deflect)
    \/ name # Deflect /\ p \in 0..Len(b) /\ \E k, q \in Nat : Ahead(b, p, p, k, q)
\* ... or at its value.
AtValue(b, p) ==
    \/ name = Deflect /\ p = Len(b) + Len(Deflect) + 1
    \/ /\ name # Deflect /\ p \in 0..Len(b)
       /\ \E q \in p + 1..Len(b) : b[q] = Semicolon /\ \A i \in p + 1..q - 1 : b[i] # Semicolon

ParsingAt(b, p) ==
    \/ parser = "consume" /\ AtCookie(b, p)
    \/ parser = "name" /\ AtName(b, p)
    \/ parser = "after name" /\ AfterName(b, p)
    \/ parser = "value" /\ AtValue(b, p)

\* The search never passes the cookie.
Search(jar, b) ==
    \/ parser = "found" /\ found = retval
    \/ \E p \in 0..Len(jar) : cookie_s = Drop(jar, p) /\ ParsingAt(b, p)
Parsing ==
    \E b \in Before(entries), a \in After : Search(b \o Deflect \o <<Equals>> \o retval \o a, b)

InJar(jar, b, a) ==
    OtherCookies(b) /\ EndsValue(a) /\ jar \in Seq(1..127) /\ Laid(jar, b, a)

LEMMA CharFacts ==
    /\ \A c \in NameChars : c \in 1..127 /\ c \notin Spaces /\ c # Semicolon /\ c # Equals /\ c # NUL
    /\ \A c \in Spaces : c \in 1..127 /\ c \notin NameChars /\ c # Semicolon /\ c # Equals /\ c # NUL
    /\ Semicolon \notin Spaces /\ Semicolon \notin NameChars /\ Semicolon # Equals /\ Semicolon # NUL
    /\ Equals \notin Spaces /\ Equals \notin NameChars /\ Equals # NUL /\ Equals \in 1..127
  BY DEF NameChars, Spaces, Semicolon, Equals, NUL

\* The lengths of a jar and its parts.
LEMMA JarLengths ==
    ASSUME NEW jar, NEW b, NEW a, InJar(jar, b, a)
    PROVE  /\ Len(b) \in Nat /\ Len(Deflect) \in Nat /\ Len(Deflect) > 0 /\ Len(a) \in Nat /\ Len(jar) \in Nat
           /\ Deflect \in Seq(NameChars) /\ jar \in Seq(1..127)
           /\ Len(jar) = Len(b) + Len(Deflect) + 1 + Len(retval) + Len(a)
  <1>1. b \in Seq(Plain) /\ a \in Seq(1..127) /\ jar \in Seq(1..127)
    BY DEF InJar, OtherCookies, EndsValue
  <1>2. Deflect \in Seq(NameChars) /\ Deflect # << >>
    BY RequestAssumption
  <1>3. Len(jar) = Len(b) + Len(Deflect) + 1 + Len(retval) + Len(a)
    BY DEF InJar, Laid
  <1> QED
    BY <1>1, <1>2, <1>3

\* The characters of a value, and the first of them.
LEMMA ValueChars ==
    ASSUME Written, encoder = "returned"
    PROVE  /\ \A i \in 1..Len(retval) : retval[i] \in NameChars \/ retval[i] = Equals
           /\ Len(retval) > 0 => retval[1] \in NameChars
  <1>1. /\ Len(retval) \in Nat /\ outpos \in 0..Len(retval) /\ Len(retval) = EncodedSize(Len(bindata))
        /\ \A k \in 1..outpos : retval[k] = b64_table(Sextet(k)) /\ Sextet(k) \in 0..63
        /\ \A k \in outpos + 1..Len(retval) : retval[k] = Pad
    BY TextChars, Zenon
  <1>2. \A k \in 1..outpos : retval[k] \in NameChars
    BY <1>1, TableInverse, Zenon
  <1>3. Pad = Equals
    BY DEF Pad, Equals
  <1>4. \A i \in 1..Len(retval) : i \in 1..outpos \/ i \in outpos + 1..Len(retval)
    BY <1>1
  <1>5. \A i \in 1..Len(retval) : retval[i] \in NameChars \/ retval[i] = Equals
    BY <1>1, <1>2, <1>3, <1>4, Zenon
  <1>6. ASSUME Len(retval) > 0 PROVE 1 \in 1..outpos
    <2>1. 8 * Len(bindata) <= 6 * outpos /\ Len(bindata) \in Nat /\ outpos \in Nat
      BY DEF Written, Balance
    <2>2. Len(bindata) # 0
      BY <1>1, <1>6 DEF EncodedSize
    <2> QED
      BY <2>1, <2>2
  <1> QED
    BY <1>2, <1>5, <1>6, Zenon

IsBehind(jar, a, p) ==
    /\ p \in 1..Len(jar) /\ Len(retval) \in Nat
    /\ Len(jar) = p + Len(retval) + Len(a)
    /\ \A i \in 1..Len(retval) : jar[p + i] = retval[i]
    /\ \A i \in 1..Len(a) : jar[p + Len(retval) + i] = a[i]
    /\ p < Len(jar) => jar[p + 1] # Equals

\* What comes behind the "=".
LEMMA BehindDeflect ==
    ASSUME NEW jar, NEW b, NEW a, InJar(jar, b, a), Written, encoder = "returned",
           NEW p, p = Len(b) + Len(Deflect) + 1
    PROVE  IsBehind(jar, a, p)
  <1>1. Len(retval) \in Nat
    BY TextChars
  <1>2. /\ Len(b) \in Nat /\ Len(Deflect) \in Nat /\ Len(a) \in Nat /\ a \in Seq(1..127)
        /\ Len(jar) = Len(b) + Len(Deflect) + 1 + Len(retval) + Len(a)
    BY JarLengths DEF InJar, EndsValue
  <1>3. p \in 1..Len(jar) /\ Len(jar) = p + Len(retval) + Len(a) /\ p \in Nat
    BY <1>1, <1>2
  <1>4. /\ \A i \in 1..Len(retval) : jar[p + i] = retval[i]
        /\ \A i \in 1..Len(a) : jar[p + Len(retval) + i] = a[i]
    BY Zenon DEF InJar, Laid
  <1>5. ASSUME p < Len(jar) PROVE jar[p + 1] # Equals
    <2>1. CASE Len(retval) > 0
      <3>1. 1 \in 1..Len(retval)
        BY <1>1, <2>1
      <3> QED
        BY <1>4, <2>1, <3>1, ValueChars, CharFacts, Zenon
    <2>2. CASE Len(retval) = 0
      <3>1. 1 \in 1..Len(a) /\ p + Len(retval) + 1 = p + 1
        BY <1>2, <1>3, <1>5, <2>2
      <3>2. jar[p + 1] = a[1]
        BY <1>4, <3>1, Zenon
      <3>3. PICK n \in 0..Len(a) :
               /\ \A i \in 1..n : a[i] \in Spaces \ {13}
               /\ \/ n = Len(a)
                  \/ n < Len(a) /\ a[n + 1] = Semicolon
                  \/ n + 2 = Len(a) /\ is_eol_at(a, n + 1)
        BY DEF InJar, EndsValue
      <3>4. CASE n = 0
        <4>1. n # Len(a) /\ n + 1 = 1
          BY <3>1, <3>4
        <4>2. CASE a[1] = Semicolon
          BY <3>2, <4>2, CharFacts, Zenon
        <4>3. CASE is_eol_at(a, 1)
          <5>1. a[1] = 13
            BY <1>2, <3>1, <4>3 DEF is_eol_at, At
          <5> QED
            BY <3>2, <5>1 DEF Equals
        <4> QED
          BY <3>3, <4>1, <4>2, <4>3, Zenon
      <3>5. CASE n # 0
        <4>1. 1 \in 1..n
          BY <1>2, <3>5
        <4> QED
          BY <3>2, <3>3, <4>1, CharFacts, Zenon
      <3> QED
        BY <3>4, <3>5
    <2> QED
      BY <1>1, <2>1, <2>2
  <1> QED
    BY <1>1, <1>3, <1>4, <1>5, Zenon DEF IsBehind

\* Where the value ends, in the jar.
ValueTo(jar, u, e) ==
    /\ e \in u..Len(jar) /\ \A i \in u + 1..e : jar[i] # Semicolon /\ jar[i] # 13
    /\ e < Len(jar) => \/ jar[e + 1] = Semicolon
                       \/ e + 2 <= Len(jar) /\ jar[e + 1] = 13 /\ jar[e + 2] = 10

LEMMA ValueEndAt ==
    ASSUME NEW jar \in Seq(1..127), NEW u \in 0..Len(jar), NEW e, ValueTo(jar, u, e)
    PROVE  ValueEnd(Drop(jar, u)) = e - u
  <1>1. PICK d : d = Drop(jar, u)
    OBVIOUS
  <1>2. /\ d \in Seq(1..127) /\ Len(d) = Len(jar) - u
        /\ \A i \in 1..Len(jar) - u : d[i] = jar[u + i]
    BY <1>1, DropFacts
  <1>3. /\ Len(jar) \in Nat /\ u \in Nat /\ e \in Nat /\ u <= e /\ e <= Len(jar)
    BY DEF ValueTo
  <1>4. PICK n \in 0..Len(d) : n = e - u
    BY <1>2, <1>3
  <1>5. DOMAIN d = 1..Len(d) /\ Len(d) \in Nat /\ \A i \in 1..Len(d) : d[i] # NUL
    <2>1. \A i \in 1..Len(d) : d[i] \in 1..127
      BY <1>2, ElementOf, Zenon
    <2>2. DOMAIN d = 1..Len(d) /\ Len(d) \in Nat
      BY <1>2
    <2>3. \A c \in 1..127 : c # NUL
      BY DEF NUL
    <2> QED
      BY <2>1, <2>2, <2>3, Zenon
  <1>6. ASSUME NEW i \in 1..n PROVE ~EndsAt(d, i)
    <2>1. i \in 1..Len(jar) - u /\ u + i \in u + 1..e /\ i \in 1..Len(d)
      BY <1>2, <1>3, <1>4
    <2>2. d[i] # Semicolon /\ d[i] # 13 /\ d[i] # NUL
      BY <1>2, <1>5, <2>1, Zenon DEF ValueTo
    <2>3. At(d, i) = d[i]
      BY <1>5, <2>1, Zenon DEF At
    <2> QED
      BY <2>2, <2>3, Zenon DEF EndsAt, is_eol_at
  <1>7. ASSUME n < Len(d) PROVE EndsAt(d, n + 1)
    <2>1. n + 1 \in 1..Len(jar) - u /\ u + (n + 1) = e + 1 /\ n + 1 \in 1..Len(d) /\ e < Len(jar)
      BY <1>2, <1>3, <1>4, <1>7
    <2>2. d[n + 1] = jar[e + 1] /\ At(d, n + 1) = d[n + 1]
      BY <1>2, <1>5, <2>1, Zenon DEF At
    <2>3. CASE jar[e + 1] = Semicolon
      BY <2>2, <2>3, Zenon DEF EndsAt
    <2>4. CASE e + 2 <= Len(jar) /\ jar[e + 1] = 13 /\ jar[e + 2] = 10
      <3>1. /\ n + 1 + 1 \in 1..Len(jar) - u /\ u + (n + 1 + 1) = e + 2 /\ n + 1 + 1 \in 1..Len(d)
        BY <1>2, <1>3, <1>4, <2>4
      <3>2. d[n + 1 + 1] = jar[e + 2] /\ At(d, n + 1 + 1) = d[n + 1 + 1]
        BY <1>2, <1>5, <3>1, Zenon DEF At
      <3> QED
        BY <2>2, <2>4, <3>2, Zenon DEF EndsAt, is_eol_at
    <2> QED
      BY <2>1, <2>3, <2>4, Zenon DEF ValueTo
  <1>8. ValueEnd(d) = n
    BY <1>2, <1>6, <1>7, ValueEndIs, Zenon
  <1> QED
    BY <1>1, <1>4, <1>8, Zenon

LEMMA TrimTo ==
    ASSUME NEW S, NEW s \in Seq(S), NEW p \in 0..Len(s), NEW e, Run(s, Spaces, p, e)
    PROVE  trim_space_prefix(Drop(s, p)) = Drop(s, e)
  BY SkipTo DEF trim_space_prefix

\* What is trimmed off behind a value.
Padded(v, r, R, n) ==
    /\ Len(v) = R + n /\ Len(r) = R /\ \A i \in 1..R : v[i] = r[i]
    /\ \A i \in 1..n : v[R + i] \in Spaces
    /\ R > 0 => v[R] \notin Spaces

LEMMA TrimmedValue ==
    ASSUME NEW v \in Seq(1..127), NEW r \in Seq(1..127), NEW R \in Nat, NEW n \in Nat, Padded(v, r, R, n)
    PROVE  trim_space_suffix(v) = r
  <1>0. /\ Len(v) = R + n /\ Len(r) = R /\ \A i \in 1..R : v[i] = r[i]
        /\ \A i \in 1..n : v[R + i] \in Spaces
        /\ R > 0 => v[R] \notin Spaces
    BY DEF Padded
  <1>1. n \in 0..Len(v) /\ Len(v) - n = R
    BY <1>0
  <1>2. ASSUME NEW i \in Len(v) - n + 1..Len(v) PROVE v[i] \in Spaces
    <2>1. i - R \in 1..n /\ R + (i - R) = i
      BY <1>0
    <2> QED
      BY <1>0, <2>1
  <1>3. n < Len(v) => v[Len(v) - n] \notin Spaces
    BY <1>0
  <1>4. SpanBack(v, Spaces) = n
    BY <1>1, <1>2, <1>3, SpanBackIs, Zenon
  <1>5. trim_space_suffix(v) = SubSeq(v, 1, R)
    BY <1>1, <1>4, Zenon DEF trim_space_suffix
  <1>6. SubSeq(v, 1, R) = [i \in 1..R |-> v[i]]
    BY <1>0
  <1>7. r = [i \in 1..R |-> r[i]]
    BY <1>0
  <1> QED
    BY <1>0, <1>5, <1>6, <1>7

LEMMA Prefix ==
    ASSUME NEW S, NEW d \in Seq(S), NEW m \in Nat, m <= Len(d)
    PROVE  /\ SubSeq(d, 1, m) \in Seq(S) /\ Len(SubSeq(d, 1, m)) = m
           /\ \A i \in 1..m : SubSeq(d, 1, m)[i] = d[i]
  OBVIOUS

\* The value of the cookie is found as it was set.
LEMMA DeflectValueStep ==
    ASSUME NEW jar, NEW b, NEW a, InJar(jar, b, a), Written, encoder = "returned",
           NEW p, p = Len(b) + Len(Deflect) + 1, name = Deflect, cookie_s = Drop(jar, p), ConsumeValue
    PROVE  parser' = "found" /\ found' = retval
  <1>1. /\ p \in 1..Len(jar) /\ Len(retval) \in Nat /\ Len(jar) = p + Len(retval) + Len(a)
        /\ \A i \in 1..Len(retval) : jar[p + i] = retval[i]
        /\ \A i \in 1..Len(a) : jar[p + Len(retval) + i] = a[i]
    <2>1. IsBehind(jar, a, p)
      BY BehindDeflect, Zenon
    <2> QED
      BY <2>1, Zenon DEF IsBehind
  <1>11. \A i \in 1..Len(a) : jar[p + Len(retval) + i] = a[i]
    BY <1>1, Zenon
  <1>2. PICK R \in Nat : R = Len(retval)
    BY <1>1
  <1>3. retval \in Seq(1..127) /\ jar \in Seq(1..127) /\ Len(jar) \in Nat /\ Len(a) \in Nat /\ a \in Seq(1..127)
    BY TextChars, JarLengths DEF InJar, EndsValue
  <1>4. p \in Nat /\ p \in 0..Len(jar) /\ Len(jar) = p + R + Len(a)
    BY <1>1, <1>2
  <1>5. PICK n \in 0..Len(a) :
           /\ \A i \in 1..n : a[i] \in Spaces \ {13}
           /\ \/ n = Len(a)
              \/ n < Len(a) /\ a[n + 1] = Semicolon
              \/ n + 2 = Len(a) /\ is_eol_at(a, n + 1)
    BY DEF InJar, EndsValue
  <1>6. n \in Nat /\ n <= Len(a)
    BY <1>3
  <1>7. n + 2 = Len(a) /\ is_eol_at(a, n + 1) => a[n + 1] = 13 /\ a[n + 2] = 10
    BY <1>3, <1>6 DEF is_eol_at, At
  <1>8. ASSUME NEW u, trim_space_prefix(cookie_s) = Drop(jar, u), NEW m, ValueEnd(Drop(jar, u)) = m,
               trim_space_suffix(SubSeq(Drop(jar, u), 1, m)) = retval
        PROVE  parser' = "found" /\ found' = retval
    BY <1>8, Zenon DEF ConsumeValue, Return
  <1>9. CASE R > 0
    <2>1. 1 \in 1..Len(retval) /\ R \in 1..Len(retval)
      BY <1>2, <1>9
    <2>2. retval[1] \in NameChars
      BY <1>2, <1>9, ValueChars
    <2>3. \A i \in 1..Len(retval) : retval[i] \notin Spaces /\ retval[i] # Semicolon
      BY ValueChars, CharFacts, Zenon
    <2>4. jar[p + 1] \notin Spaces
      BY <1>1, <2>1, <2>3, Zenon
    <2>5. p \in p..Len(jar) /\ \A i \in p + 1..p : FALSE
      BY <1>4
    <2>6. Run(jar, Spaces, p, p)
      BY <2>4, <2>5, Zenon DEF Run
    <2>7. trim_space_prefix(cookie_s) = Drop(jar, p)
      BY <1>3, <1>4, <2>6, TrimTo, Zenon
    <2>8. PICK e \in Nat : e = p + R + n
      BY <1>4, <1>6
    <2>9. e \in p..Len(jar) /\ e - p = R + n
      BY <1>4, <1>6, <2>8
    <2>10. ASSUME NEW i \in p + 1..e PROVE jar[i] # Semicolon /\ jar[i] # 13
      <3>1. CASE i - p \in 1..R
        <4>1. jar[i] = retval[i - p] /\ i - p \in 1..Len(retval)
          <5>1. p + (i - p) = i
            BY <1>4
          <5> QED
            BY <1>1, <1>2, <3>1, <5>1, Zenon
        <4>2. 13 \in Spaces
          BY DEF Spaces
        <4> QED
          BY <2>3, <4>1, <4>2, Zenon
      <3>2. CASE i - p - R \in 1..n
        <4>1. i - p - R \in 1..Len(a) /\ p + Len(retval) + (i - p - R) = i
          BY <1>2, <1>3, <1>4, <1>6, <3>2
        <4>2. jar[i] = a[i - p - R]
          BY <1>1, <4>1, Zenon
        <4> QED
          BY <1>5, <3>2, <4>2, CharFacts
      <3> QED
        BY <1>4, <1>6, <2>8, <3>1, <3>2
    <2>11. ASSUME e < Len(jar)
           PROVE  \/ jar[e + 1] = Semicolon
                  \/ e + 2 <= Len(jar) /\ jar[e + 1] = 13 /\ jar[e + 2] = 10
      <3>1. n < Len(a) /\ n + 1 \in 1..Len(a) /\ p + Len(retval) + (n + 1) = e + 1
        BY <1>2, <1>3, <1>4, <1>6, <2>8, <2>11
      <3>2. jar[e + 1] = a[n + 1]
        <4>1. jar[p + Len(retval) + (n + 1)] = a[n + 1]
          BY <1>11, <3>1, Zenon
        <4> QED
          BY <3>1, <4>1, Zenon
      <3>3. CASE n + 2 = Len(a) /\ is_eol_at(a, n + 1)
        <4>1. n + 2 \in 1..Len(a) /\ p + Len(retval) + (n + 2) = e + 2 /\ e + 2 <= Len(jar)
          BY <1>2, <1>3, <1>4, <1>6, <2>8, <3>3
        <4>2. jar[e + 2] = a[n + 2]
          <5>1. jar[p + Len(retval) + (n + 2)] = a[n + 2]
            BY <1>11, <4>1, Zenon
          <5> QED
            BY <4>1, <5>1, Zenon
        <4> QED
          BY <1>7, <3>2, <3>3, <4>1, <4>2, Zenon
      <3> QED
        BY <1>5, <3>1, <3>2, <3>3
    <2>12. ValueTo(jar, p, e)
      BY <2>9, <2>10, <2>11, Zenon DEF ValueTo
    <2>13. ValueEnd(Drop(jar, p)) = R + n
      <3>1. ValueEnd(Drop(jar, p)) = e - p
        BY <1>3, <1>4, <2>12, ValueEndAt, Zenon
      <3> QED
        BY <2>9, <3>1, Zenon
    <2>14. PICK v : v = SubSeq(Drop(jar, p), 1, R + n)
      OBVIOUS
    <2>15. v \in Seq(1..127) /\ Len(v) = R + n /\ \A i \in 1..R + n : v[i] = jar[p + i]
      <3>1. PICK d : d = Drop(jar, p)
        OBVIOUS
      <3>9. Dropped(1..127, jar, p, d)
        BY <1>3, <1>4, <3>1, DropIs, Zenon
      <3>2. /\ d \in Seq(1..127) /\ Len(d) = Len(jar) - p
            /\ \A i \in 1..Len(jar) - p : d[i] = jar[p + i]
        BY <3>9, Zenon DEF Dropped
      <3>3. PICK m \in Nat : m = R + n
        BY <1>6
      <3>8. Len(d) = Len(jar) - p
        BY <3>2, Zenon
      <3>4. m <= Len(d)
        BY <1>4, <1>6, <3>3, <3>8
      <3>5. v = SubSeq(d, 1, m)
        BY <2>14, <3>1, <3>3, Zenon
      <3>6. v \in Seq(1..127) /\ Len(v) = m /\ \A i \in 1..m : v[i] = d[i]
        BY <3>2, <3>4, <3>5, Prefix, Zenon
      <3>7. \A i \in 1..m : i \in 1..Len(jar) - p
        BY <1>4, <3>3, <3>4, <3>8
      <3> QED
        BY <3>2, <3>3, <3>6, <3>7, Zenon
    <2>16. \A i \in 1..n : v[R + i] \in Spaces
      <3> TAKE i \in 1..n
      <3>1. R + i \in 1..R + n /\ i \in 1..Len(a) /\ p + (R + i) = p + Len(retval) + i
        BY <1>2, <1>3, <1>4, <1>6
      <3> QED
        <4>1. v[R + i] = jar[p + (R + i)]
          BY <2>15, <3>1, Zenon
        <4>2. jar[p + Len(retval) + i] = a[i]
          BY <1>11, <3>1, Zenon
        <4>3. a[i] \in Spaces
          BY <1>5, Zenon
        <4> QED
          BY <3>1, <4>1, <4>2, <4>3, Zenon
    <2>17. \A i \in 1..R : v[i] = retval[i]
      <3>1. \A i \in 1..R : i \in 1..R + n /\ i \in 1..Len(retval)
        BY <1>2, <1>6
      <3> QED
        BY <1>1, <2>15, <3>1, Zenon
    <2>18. v[R] \notin Spaces
      <3>1. R \in 1..R
        BY <1>9
      <3> QED
        BY <2>1, <2>3, <2>17, <3>1, Zenon
    <2>19. trim_space_suffix(v) = retval
      <3>1. Len(retval) = R /\ retval \in Seq(1..127) /\ n \in Nat
        BY <1>2, <1>3, <1>6, Zenon
      <3>2. Padded(v, retval, R, n)
        BY <2>15, <2>16, <2>17, <2>18, <3>1, Zenon DEF Padded
      <3> QED
        BY <2>15, <3>1, <3>2, TrimmedValue, Zenon
    <2> QED
      BY <1>8, <2>7, <2>13, <2>14, <2>19, Zenon
  <1>10. CASE R = 0
    <2>1. PICK e \in p..Len(jar) : Run(jar, Spaces, p, e) /\ (e < Len(jar) => jar[e + 1] = Semicolon)
      <3>1. ASSUME NEW i \in 1..Len(a) PROVE jar[p + i] = a[i]
        <4>1. p + Len(retval) + i = p + i
          BY <1>2, <1>4, <1>10
        <4> QED
          BY <1>1, <4>1, Zenon
      <3>2. ASSUME NEW i \in p + 1..p + n PROVE jar[i] \in Spaces
        <4>1. i - p \in 1..n /\ i - p \in 1..Len(a) /\ p + (i - p) = i
          BY <1>3, <1>4, <1>6
        <4> QED
          BY <1>5, <3>1, <4>1, Zenon
      <3>3. CASE n = Len(a)
        <4>1. p + n = Len(jar) /\ p + n \in p..Len(jar)
          BY <1>3, <1>4, <1>6, <1>10, <3>3
        <4>2. ~(p + n < Len(jar))
          BY <1>3, <4>1
        <4>3. Run(jar, Spaces, p, p + n)
          BY <3>2, <4>1, <4>2, Zenon DEF Run
        <4> QED
          BY <4>1, <4>2, <4>3, Zenon
      <3>4. CASE n < Len(a) /\ a[n + 1] = Semicolon
        <4>1. p + n < Len(jar) /\ p + n \in p..Len(jar) /\ n + 1 \in 1..Len(a) /\ p + (n + 1) = p + n + 1
          BY <1>3, <1>4, <1>6, <1>10, <3>4
        <4>2. jar[p + n + 1] = Semicolon
          BY <3>1, <3>4, <4>1
        <4> QED
          BY <1>3, <1>4, <3>2, <4>1, <4>2, CharFacts DEF Run
      <3>5. CASE n + 2 = Len(a) /\ is_eol_at(a, n + 1)
        <4>1. /\ n + 1 \in 1..Len(a) /\ n + 2 \in 1..Len(a) /\ Len(jar) = p + (n + 2)
              /\ \A i \in p + 1..Len(jar) : i \in p + 1..p + n \/ i = p + (n + 1) \/ i = p + (n + 2)
              /\ Len(jar) \in p..Len(jar)
          <5>1. n + 1 \in 1..Len(a) /\ n + 2 \in 1..Len(a) /\ Len(jar) = p + (n + 2)
            <6>1. n + 2 = Len(a) /\ Len(jar) = p + R + Len(a) /\ R = 0 /\ p \in Nat /\ n \in Nat
              BY <1>4, <1>6, <1>10, <3>5, Zenon
            <6> QED
              BY <6>1
          <5>2. ASSUME NEW i \in p + 1..Len(jar)
                PROVE  i \in p + 1..p + n \/ i = p + (n + 1) \/ i = p + (n + 2)
            <6>1. i \in Int /\ i >= p + 1 /\ i <= p + (n + 2)
              BY <1>3, <1>4, <5>1
            <6> QED
              BY <1>4, <1>6, <6>1
          <5>3. Len(jar) \in p..Len(jar)
            BY <1>3, <1>4
          <5> QED
            BY <5>1, <5>2, <5>3, Zenon
        <4>2. 13 \in Spaces /\ 10 \in Spaces
          BY DEF Spaces
        <4>3. jar[p + (n + 1)] \in Spaces /\ jar[p + (n + 2)] \in Spaces
          BY <1>7, <3>1, <3>5, <4>1, <4>2, Zenon
        <4>4. \A i \in p + 1..Len(jar) : jar[i] \in Spaces
          BY <3>2, <4>1, <4>3, Zenon
        <4>5. ~(Len(jar) < Len(jar))
          BY <1>3
        <4> QED
          BY <4>1, <4>4, <4>5, Zenon DEF Run
      <3> QED
        BY <1>5, <3>3, <3>4, <3>5, Zenon
    <2>2. trim_space_prefix(cookie_s) = Drop(jar, e)
      BY <1>3, <1>4, <2>1, TrimTo, Zenon
    <2>3. e \in Nat /\ e \in 0..Len(jar) /\ e \in e..Len(jar) /\ e - e = 0 /\ \A i \in e + 1..e : FALSE
      BY <1>3, <1>4, <2>1
    <2>4. ValueTo(jar, e, e)
      BY <2>1, <2>3, Zenon DEF ValueTo
    <2>5. ValueEnd(Drop(jar, e)) = 0
      <3>1. ValueEnd(Drop(jar, e)) = e - e
        BY <1>3, <2>3, <2>4, ValueEndAt, ZenonT(40)
      <3> QED
        BY <2>3, <3>1, Zenon
    <2>6. Drop(jar, e) \in Seq(1..127)
      BY <1>3, <2>3, DropFacts
    <2>7. PICK v : v = SubSeq(Drop(jar, e), 1, 0)
      OBVIOUS
    <2>8. v \in Seq(1..127) /\ Len(v) = 0
      BY <2>6, <2>7
    <2>9. trim_space_suffix(v) = retval
      <3>1. /\ Len(v) = R + 0 /\ 0 \in Nat /\ ~(R > 0) /\ Len(retval) = R
            /\ \A i \in 1..0 : FALSE
            /\ \A i \in 1..R : FALSE
        BY <1>2, <1>10, <2>8
      <3>2. /\ \A i \in 1..0 : v[R + i] \in Spaces
            /\ \A i \in 1..R : v[i] = retval[i]
        BY <3>1, Zenon
      <3>3. Padded(v, retval, R, 0)
        BY <3>1, <3>2, Zenon DEF Padded
      <3> QED
        BY <1>3, <2>8, <3>1, <3>3, TrimmedValue, Zenon
    <2> QED
      BY <1>8, <2>2, <2>5, <2>7, <2>9, Zenon
  <1> QED
    BY <1>9, <1>10

LEMMA FirstOfRest ==
    ASSUME NEW S, NEW s \in Seq(S), NEW p \in 0..Len(s), p < Len(s)
    PROVE  Drop(s, p) # << >> /\ Drop(s, p)[1] = s[p + 1] /\ s[p + 1] \in S
  <1>1. PICK d : d = Drop(s, p)
    OBVIOUS
  <1>2. Len(s) \in Nat /\ 1 \in 1..Len(s) - p /\ p + 1 \in 1..Len(s)
    OBVIOUS
  <1>3. d \in Seq(S) /\ Len(d) = Len(s) - p /\ d[1] = s[p + 1]
    BY <1>1, <1>2, DropFacts
  <1>4. d # << >>
    BY <1>2, <1>3
  <1>5. s[p + 1] \in S
    BY <1>2, ElementOf, Zenon
  <1> QED
    BY <1>1, <1>3, <1>4, <1>5

LEMMA DeflectInJar ==
    ASSUME NEW jar, NEW b, NEW a, InJar(jar, b, a)
    PROVE  /\ \A i \in Len(b) + 1..Len(b) + Len(Deflect) :
                  jar[i] = Deflect[i - Len(b)] /\ jar[i] \in NameChars
           /\ jar[Len(b) + Len(Deflect) + 1] = Equals
  <1>1. Len(b) \in Nat /\ Len(Deflect) \in Nat /\ Deflect \in Seq(NameChars)
    BY JarLengths
  <1>2. ASSUME NEW i \in Len(b) + 1..Len(b) + Len(Deflect)
        PROVE  jar[i] = Deflect[i - Len(b)] /\ jar[i] \in NameChars
    <2>1. i - Len(b) \in 1..Len(Deflect) /\ Len(b) + (i - Len(b)) = i
      BY <1>1
    <2>2. Deflect[i - Len(b)] \in NameChars
      BY <1>1, <2>1, ElementOf, Zenon
    <2> QED
      BY <2>1, <2>2 DEF InJar, Laid
  <1> QED
    BY <1>2 DEF InJar, Laid

\* A cookie is reached at its name.
LEMMA CookieAhead ==
    ASSUME NEW jar, NEW b, NEW a, InJar(jar, b, a), Len(retval) \in Nat, NEW p, AtCookie(b, p)
    PROVE  \E e \in 0..Len(b) : Run(jar, Spaces, p, e) /\ AtName(b, e)
  <1>1. /\ p \in 0..Len(b) /\ Len(b) \in Nat /\ Len(jar) \in Nat /\ Len(b) < Len(jar)
        /\ Len(Deflect) \in Nat /\ Len(Deflect) > 0
    BY JarLengths DEF AtCookie
  <1>2. \A i \in 1..Len(b) : jar[i] = b[i]
    BY DEF InJar, Laid
  <1>3. CASE \A n \in p + 1..Len(b) : b[n] \in Spaces
    <2>1. \A n \in p + 1..Len(b) : jar[n] \in Spaces
      BY <1>1, <1>2, <1>3
    <2>2. Len(b) + 1 \in Len(b) + 1..Len(b) + Len(Deflect)
      BY <1>1
    <2>3. jar[Len(b) + 1] \notin Spaces
      BY <2>2, DeflectInJar, CharFacts, Zenon
    <2>4. Run(jar, Spaces, p, Len(b))
      BY <1>1, <2>1, <2>3 DEF Run
    <2> QED
      BY <1>1, <2>4 DEF AtName
  <1>4. ASSUME NEW q \in p + 1..Len(b), OtherCookie(b, p, q)
        PROVE  \E e \in 0..Len(b) : Run(jar, Spaces, p, e) /\ AtName(b, e)
    <2>1. PICK i \in p..q - 1, j \in p..q - 1, k \in p..q - 1 :
          /\ i <= j /\ j <= k
          /\ \A n \in p + 1..i : b[n] \in Spaces
          /\ \A n \in i + 1..j : b[n] \in NameChars
          /\ \A n \in j + 1..k : b[n] \in Spaces
          /\ k + 1 = q \/ b[k + 1] = Equals
          /\ SubSeq(b, i + 1, j) # Deflect
      BY <1>4, Zenon DEF OtherCookie
    <2>2. b[q] = Semicolon /\ \A n \in p + 1..q - 1 : b[n] # Semicolon
      BY <1>4, Zenon DEF OtherCookie
    <2>3. /\ q \in Nat /\ i \in Nat /\ j \in Nat /\ k \in Nat /\ p \in Nat /\ p <= i /\ k < q /\ q <= Len(b)
      BY <1>1
    <2>4. b[k + 1] = Semicolon \/ b[k + 1] = Equals
      BY <2>1, <2>2, Zenon
    <2>5. CASE i < j
      <3>1. \A n \in p + 1..i : jar[n] \in Spaces
        <4>1. i <= Len(b)
          BY <1>1, <2>1, <2>3
        <4>2. \A n \in p + 1..i : n \in 1..Len(b)
          BY <1>1, <2>3, <4>1
        <4> QED
          BY <1>2, <2>1, <4>2, Zenon
      <3>2. i + 1 \in i + 1..j /\ i + 1 \in 1..Len(b) /\ i \in p..Len(jar) /\ i \in 0..Len(b)
        BY <1>1, <2>1, <2>3, <2>5
      <3>3. jar[i + 1] \notin Spaces
        BY <1>2, <2>1, <3>2, CharFacts, Zenon
      <3>4. Run(jar, Spaces, p, i)
        BY <3>1, <3>2, <3>3, Zenon DEF Run
      <3>5. j \in i..k /\ k \in i..q - 1 /\ q \in i + 1..Len(b) /\ i # j
        BY <2>1, <2>3, <2>5
      <3>6. \A n \in i + 1..q - 1 : b[n] # Semicolon
        BY <2>2, <2>3
      <3>7. Ahead(b, i, j, k, q)
        BY <2>1, <2>2, <3>5, <3>6, Zenon DEF Ahead
      <3>8. AtName(b, i)
        BY <2>1, <2>3, <3>2, <3>5, <3>7, Zenon DEF AtName
      <3> QED
        BY <3>2, <3>4, <3>8, Zenon
    <2>6. CASE i = j
      <3>1. \A n \in p + 1..k : b[n] \in Spaces
        BY <2>1, <2>3, <2>6
      <3>2. \A n \in p + 1..k : jar[n] \in Spaces
        <4>1. \A n \in p + 1..k : n \in 1..Len(b)
          BY <1>1, <2>3
        <4> QED
          BY <1>2, <3>1, <4>1, Zenon
      <3>3. k + 1 \in 1..Len(b) /\ k \in p..Len(jar) /\ k \in 0..Len(b)
        BY <1>1, <2>1, <2>3
      <3>4. jar[k + 1] \notin Spaces
        BY <1>2, <2>4, <3>3, CharFacts, Zenon
      <3>5. Run(jar, Spaces, p, k)
        BY <3>2, <3>3, <3>4, Zenon DEF Run
      <3>6. /\ k \in k..k /\ k \in k..q - 1 /\ q \in k + 1..Len(b)
            /\ \A n \in k + 1..q - 1 : b[n] # Semicolon
            /\ \A n \in k + 1..k : b[n] \in NameChars
            /\ \A n \in k + 1..k : b[n] \in Spaces
        BY <2>2, <2>3
      <3>7. Ahead(b, k, k, k, q)
        BY <2>1, <2>2, <3>6, Zenon DEF Ahead
      <3>8. SubSeq(b, k + 1, k) # Deflect
        <4>1. b \in Seq(Plain) /\ Deflect \in Seq(NameChars)
          BY JarLengths DEF InJar, OtherCookies
        <4>2. Len(SubSeq(b, k + 1, k)) = 0
          BY <1>1, <2>3, <4>1
        <4> QED
          BY <1>1, <4>2
      <3>9. AtName(b, k)
        BY <2>3, <3>3, <3>7, <3>8, Zenon DEF AtName
      <3> QED
        BY <3>3, <3>5, <3>9, Zenon
    <2> QED
      BY <2>1, <2>3, <2>5, <2>6
  <1>5. \/ \A n \in p + 1..Len(b) : b[n] \in Spaces
        \/ \E q \in p + 1..Len(b) : OtherCookie(b, p, q)
    BY <1>1, Zenon DEF InJar, OtherCookies, AtCookie
  <1> QED
    BY <1>3, <1>4, <1>5, Zenon

LEMMA ConsumeStep ==
    ASSUME NEW jar, NEW b, NEW a, InJar(jar, b, a), Len(retval) \in Nat,
           NEW p, AtCookie(b, p), cookie_s = Drop(jar, p), Consume
    PROVE  Search(jar, b)'
  <1>1. /\ p \in 0..Len(jar) /\ Len(b) \in Nat /\ Len(jar) \in Nat /\ Len(b) < Len(jar) /\ jar \in Seq(1..127)
    BY JarLengths DEF AtCookie
  <1>2. PICK e \in 0..Len(b) : Run(jar, Spaces, p, e) /\ AtName(b, e)
    BY CookieAhead
  <1>3. cookie_s' = Drop(jar, e)
    BY <1>1, <1>2, SkipTo, Zenon DEF Consume, trim_space_prefix
  <1>4. e \in 0..Len(jar) /\ e < Len(jar)
    BY <1>1
  <1>5. cookie_s' # << >>
    BY <1>1, <1>3, <1>4, FirstOfRest, Zenon
  <1>6. parser' = "name"
    BY <1>5, Zenon DEF Consume, Proceed
  <1>7. ParsingAt(b, e)'
    BY <1>2, <1>6 DEF ParsingAt, AtName
  <1> QED
    BY <1>3, <1>4, <1>7 DEF Search

\* The part of the jar before the cookie is that of b.
LEMMA PartOfJar ==
    ASSUME NEW jar, NEW b, NEW a, InJar(jar, b, a), Len(retval) \in Nat,
           NEW p \in 0..Len(b), NEW j \in p..Len(b)
    PROVE  SubSeq(Drop(jar, p), 1, j - p) = SubSeq(b, p + 1, j)
  <1>1. /\ Len(b) \in Nat /\ Len(jar) \in Nat /\ Len(b) < Len(jar) /\ jar \in Seq(1..127)
        /\ b \in Seq(Plain)
    BY JarLengths DEF InJar, OtherCookies
  <1>2. PICK d : d = Drop(jar, p)
    OBVIOUS
  <1>3. p \in 0..Len(jar) /\ p \in Nat /\ j \in Nat /\ p <= j /\ j <= Len(b)
    BY <1>1
  <1>4. /\ d \in Seq(1..127) /\ Len(d) = Len(jar) - p
        /\ \A i \in 1..Len(jar) - p : d[i] = jar[p + i]
    BY <1>1, <1>2, <1>3, DropFacts
  <1>5. PICK n \in Nat : n = j - p
    BY <1>3
  <1>6. \A i \in 1..n : i \in 1..Len(jar) - p /\ p + i \in 1..Len(b)
    BY <1>1, <1>3, <1>5
  <1>7. \A i \in 1..n : d[i] = b[p + i]
    BY <1>4, <1>6, Zenon DEF InJar, Laid
  <1>8. n <= Len(d) /\ Len(d) \in Nat
    BY <1>1, <1>3, <1>4, <1>5
  <1>9. SubSeq(d, 1, n) = [i \in 1..n |-> d[i]]
    BY <1>4, <1>8
  <1>10. SubSeq(b, p + 1, j) = [i \in 1..n |-> b[p + i]]
    BY <1>1, <1>3, <1>5
  <1> QED
    BY <1>2, <1>5, <1>7, <1>9, <1>10

LEMMA DeflectPart ==
    ASSUME NEW jar, NEW b, NEW a, InJar(jar, b, a), Len(retval) \in Nat
    PROVE  SubSeq(Drop(jar, Len(b)), 1, Len(Deflect)) = Deflect
  <1>1. /\ Len(b) \in Nat /\ Len(jar) \in Nat /\ Len(b) < Len(jar) /\ jar \in Seq(1..127)
        /\ Len(Deflect) \in Nat /\ Len(b) + Len(Deflect) < Len(jar) /\ Deflect \in Seq(NameChars)
    BY JarLengths
  <1>2. PICK d : d = Drop(jar, Len(b))
    OBVIOUS
  <1>3. PICK p \in 0..Len(jar) : p = Len(b)
    BY <1>1
  <1>4. /\ d \in Seq(1..127) /\ Len(d) = Len(jar) - Len(b)
        /\ \A i \in 1..Len(jar) - Len(b) : d[i] = jar[Len(b) + i]
    <2>1. /\ Drop(jar, p) \in Seq(1..127) /\ Len(Drop(jar, p)) = Len(jar) - p
          /\ \A i \in 1..Len(jar) - p : Drop(jar, p)[i] = jar[p + i]
      BY <1>1, DropFacts, Zenon
    <2> QED
      BY <1>2, <1>3, <2>1, Zenon
  <1>5. \A i \in 1..Len(Deflect) : i \in 1..Len(jar) - Len(b)
    BY <1>1
  <1>6. \A i \in 1..Len(Deflect) : d[i] = Deflect[i]
    BY <1>4, <1>5, Zenon DEF InJar, Laid
  <1>7. Len(Deflect) <= Len(d) /\ Len(d) \in Nat
    BY <1>1, <1>4
  <1>8. SubSeq(d, 1, Len(Deflect)) = [i \in 1..Len(Deflect) |-> d[i]]
    BY <1>1, <1>4, <1>7
  <1>9. Deflect = [i \in 1..Len(Deflect) |-> Deflect[i]]
    BY <1>1
  <1> QED
    BY <1>2, <1>6, <1>8, <1>9

LEMMA ConsumeNameStep ==
    ASSUME NEW jar, NEW b, NEW a, InJar(jar, b, a), Len(retval) \in Nat,
           NEW p, AtName(b, p), cookie_s = Drop(jar, p), ConsumeName
    PROVE  Search(jar, b)'
  <1>1. /\ Len(b) \in Nat /\ Len(jar) \in Nat /\ Len(b) < Len(jar) /\ jar \in Seq(1..127)
        /\ Len(Deflect) \in Nat /\ Len(Deflect) > 0 /\ Len(b) + Len(Deflect) < Len(jar)
    BY JarLengths
  <1>2. p \in 0..Len(b) /\ p \in 0..Len(jar) /\ p < Len(jar)
    BY <1>1 DEF AtName
  <1>3. cookie_s[1] = jar[p + 1] /\ jar[p + 1] \in 1..127
    BY <1>1, <1>2, FirstOfRest, Zenon
  <1>4. cookie_s[1] # NUL
    <2>1. \A c \in 1..127 : c # NUL
      BY DEF NUL
    <2> QED
      BY <1>3, <2>1, Zenon
  <1>5. \A i \in 1..Len(b) : jar[i] = b[i]
    BY DEF InJar, Laid
  <1>6. CASE p = Len(b)
    <2>1. Run(jar, NameChars, p, Len(b) + Len(Deflect))
      BY <1>1, <1>6, DeflectInJar, CharFacts DEF Run
    <2>2. /\ Span(cookie_s, NameChars) = Len(b) + Len(Deflect) - p
          /\ Drop(cookie_s, Span(cookie_s, NameChars)) = Drop(jar, Len(b) + Len(Deflect))
      <3>1. PICK e \in Nat : e = Len(b) + Len(Deflect)
        BY <1>1
      <3>2. Run(jar, NameChars, p, e)
        BY <2>1, <3>1, Zenon
      <3>3. /\ Span(cookie_s, NameChars) = e - p
            /\ Drop(cookie_s, Span(cookie_s, NameChars)) = Drop(jar, e)
        BY <1>1, <1>2, <3>2, SkipTo, Zenon
      <3> QED
        BY <1>1, <1>2, <3>1, <3>3
    <2>3. Span(cookie_s, NameChars) = Len(Deflect)
      BY <1>1, <1>6, <2>2
    <2>4. Len(b) + 1 \in Len(b) + 1..Len(b) + Len(Deflect)
      BY <1>1
    <2>5. cookie_s[1] # Semicolon
      BY <1>3, <1>6, <2>4, DeflectInJar, CharFacts, Zenon
    <2>6. /\ name' = SubSeq(cookie_s, 1, Span(cookie_s, NameChars))
          /\ cookie_s' = Drop(cookie_s, Span(cookie_s, NameChars)) /\ parser' = "after name"
      BY <1>4, <2>5, Zenon DEF ConsumeName, Proceed
    <2>7. name' = Deflect
      BY <1>6, <2>3, <2>6, DeflectPart, Zenon
    <2>8. AfterName(b, Len(b) + Len(Deflect))' /\ Len(b) + Len(Deflect) \in 0..Len(jar)
      BY <1>1, <2>7 DEF AfterName
    <2>9. ParsingAt(b, Len(b) + Len(Deflect))'
      BY <2>6, <2>8, Zenon DEF ParsingAt
    <2> QED
      BY <2>2, <2>6, <2>8, <2>9, Zenon DEF Search
  <1>7. ASSUME NEW j \in Nat, NEW k \in Nat, NEW q \in Nat, Ahead(b, p, j, k, q),
               SubSeq(b, p + 1, j) # Deflect, p = j => j = k
        PROVE  Search(jar, b)'
    <2>1. /\ j \in p..k /\ k \in p..q - 1 /\ q \in p + 1..Len(b)
          /\ b[q] = Semicolon /\ \A i \in p + 1..q - 1 : b[i] # Semicolon
          /\ \A i \in p + 1..j : b[i] \in NameChars
          /\ \A i \in j + 1..k : b[i] \in Spaces
          /\ k + 1 = q \/ b[k + 1] = Equals
      BY <1>7, Zenon DEF Ahead
    <2>2. /\ p \in Nat /\ p <= j /\ j <= k /\ k < q /\ q <= Len(b)
          /\ p + 1 \in 1..Len(b) /\ j + 1 \in 1..Len(b) /\ k + 1 \in 1..Len(b) /\ q \in 0..Len(jar)
          /\ j \in p..Len(jar) /\ j \in 0..Len(jar) /\ j \in 0..Len(b) /\ j \in p..Len(b)
      BY <1>1, <1>2, <2>1
    <2>3. b[k + 1] = Semicolon \/ b[k + 1] = Equals
      BY <2>1, Zenon
    <2>4. b[j + 1] \notin NameChars
      <3>1. CASE j = k
        BY <2>3, <3>1, CharFacts, Zenon
      <3>2. CASE j < k
        <4>1. j + 1 \in j + 1..k
          BY <2>2, <3>2
        <4> QED
          BY <2>1, <4>1, CharFacts, Zenon
      <3> QED
        BY <2>2, <3>1, <3>2
    <2>5. \A i \in p + 1..j : i \in 1..Len(b)
      BY <1>1, <2>2
    <2>6. Run(jar, NameChars, p, j)
      BY <1>5, <2>1, <2>2, <2>4, <2>5, Zenon DEF Run
    <2>7. /\ Span(cookie_s, NameChars) = j - p
          /\ Drop(cookie_s, Span(cookie_s, NameChars)) = Drop(jar, j)
      BY <1>1, <1>2, <2>6, SkipTo, Zenon
    <2>8. CASE cookie_s[1] = Semicolon
      <3>1. p = j
        <4>1. p < j => p + 1 \in p + 1..j
          BY <2>2
        <4>2. b[p + 1] = Semicolon
          BY <1>3, <1>5, <2>2, <2>8, Zenon
        <4>3. ~(p < j)
          BY <2>1, <4>1, <4>2, CharFacts, Zenon
        <4> QED
          BY <2>2, <4>3
      <3>2. k = p /\ b[k + 1] = Semicolon
        BY <1>3, <1>5, <1>7, <2>2, <2>8, <3>1, Zenon
      <3>3. q = p + 1
        BY <2>1, <3>2, CharFacts, Zenon
      <3>4. cookie_s' = Drop(cookie_s, 1) /\ Return(<< >>, << >>)
        BY <1>4, <2>8, Zenon DEF ConsumeName
      <3>5. 1 \in 0..Len(jar) - p
        BY <1>1, <1>2
      <3>6. cookie_s' = Drop(jar, q)
        BY <1>1, <1>2, <3>3, <3>4, <3>5, DropDrop, Zenon
      <3>7. << >> # Deflect
        BY RequestAssumption
      <3>8. parser' = "consume"
        BY <3>4, <3>7, Zenon DEF Return
      <3>9. AtCookie(b, q)
        BY <1>1, <2>1, <2>2 DEF AtCookie
      <3>10. ParsingAt(b, q)'
        BY <3>8, <3>9 DEF ParsingAt, AtCookie
      <3> QED
        BY <2>2, <3>6, <3>10, Zenon DEF Search
    <2>9. CASE cookie_s[1] # Semicolon
      <3>1. /\ name' = SubSeq(cookie_s, 1, Span(cookie_s, NameChars))
            /\ cookie_s' = Drop(jar, j) /\ parser' = "after name"
        BY <1>4, <2>7, <2>9, Zenon DEF ConsumeName, Proceed
      <3>2. name' = SubSeq(b, p + 1, j)
        <4>1. SubSeq(Drop(jar, p), 1, j - p) = SubSeq(b, p + 1, j)
          BY <1>2, <2>2, PartOfJar, Zenon
        <4> QED
          BY <2>7, <3>1, <4>1, Zenon
      <3>3. name' # Deflect
        BY <1>7, <3>2, Zenon
      <3>4. /\ j \in j..k /\ k \in j..q - 1 /\ q \in j + 1..Len(b)
            /\ \A i \in j + 1..q - 1 : b[i] # Semicolon
            /\ \A i \in j + 1..j : b[i] \in NameChars
        BY <2>1, <2>2
      <3>5. Ahead(b, j, j, k, q)
        BY <2>1, <3>4, Zenon DEF Ahead
      <3>6. AfterName(b, j)'
        BY <1>7, <2>2, <3>3, <3>5, Zenon DEF AfterName, Ahead
      <3>7. ParsingAt(b, j)'
        BY <3>1, <3>6, Zenon DEF ParsingAt
      <3> QED
        BY <2>2, <3>1, <3>7, Zenon DEF Search
    <2> QED
      BY <2>8, <2>9, Zenon
  <1> QED
    BY <1>6, <1>7, Zenon DEF AtName

LEMMA Concat ==
    ASSUME NEW S, NEW s \in Seq(S), NEW t \in Seq(S), NEW r, r = s \o t
    PROVE  /\ r \in Seq(S) /\ Len(r) = Len(s) + Len(t)
           /\ \A i \in 1..Len(s) : r[i] = s[i]
           /\ \A i \in 1..Len(t) : r[Len(s) + i] = t[i]
  <1>1. /\ s \o t \in Seq(S) /\ Len(s \o t) = Len(s) + Len(t)
        /\ \A i \in 1..Len(s) : (s \o t)[i] = s[i]
        /\ \A i \in 1..Len(t) : (s \o t)[Len(s) + i] = t[i]
    OBVIOUS
  <1> QED
    BY <1>1, Zenon

LEMMA JarLaid ==
    ASSUME NEW C, NEW b \in Seq(C), NEW a \in Seq(C), Deflect \in Seq(C), retval \in Seq(C), Equals \in C
    PROVE  /\ b \o Deflect \o <<Equals>> \o retval \o a \in Seq(C)
           /\ Laid(b \o Deflect \o <<Equals>> \o retval \o a, b, a)
  <1>1. PICK j1 : j1 = b \o Deflect
    OBVIOUS
  <1>2. PICK j2 : j2 = j1 \o <<Equals>>
    OBVIOUS
  <1>3. PICK j3 : j3 = j2 \o retval
    OBVIOUS
  <1>4. PICK j4 : j4 = j3 \o a
    OBVIOUS
  <1>0. Len(b) \in Nat /\ Len(Deflect) \in Nat /\ Len(retval) \in Nat /\ Len(a) \in Nat
    OBVIOUS
  <1>5. /\ j1 \in Seq(C) /\ Len(j1) = Len(b) + Len(Deflect)
        /\ \A i \in 1..Len(b) : j1[i] = b[i]
        /\ \A i \in 1..Len(Deflect) : j1[Len(b) + i] = Deflect[i]
    BY <1>1, Concat
  <1>6. <<Equals>> \in Seq(C) /\ Len(<<Equals>>) = 1 /\ <<Equals>>[1] = Equals
    OBVIOUS
  <1>7. /\ j2 \in Seq(C) /\ Len(j2) = Len(j1) + 1
        /\ \A i \in 1..Len(j1) : j2[i] = j1[i]
        /\ j2[Len(j1) + 1] = Equals
    <2>1. /\ j2 \in Seq(C) /\ Len(j2) = Len(j1) + Len(<<Equals>>)
          /\ \A i \in 1..Len(j1) : j2[i] = j1[i]
          /\ \A i \in 1..Len(<<Equals>>) : j2[Len(j1) + i] = <<Equals>>[i]
      BY <1>2, <1>5, <1>6, Concat
    <2>2. 1 \in 1..Len(<<Equals>>)
      BY <1>6
    <2> QED
      BY <1>6, <2>1, <2>2, Zenon
  <1>8. /\ j3 \in Seq(C) /\ Len(j3) = Len(j2) + Len(retval)
        /\ \A i \in 1..Len(j2) : j3[i] = j2[i]
        /\ \A i \in 1..Len(retval) : j3[Len(j2) + i] = retval[i]
    <2>1. j2 \in Seq(C)
      BY <1>7
    <2> QED
      BY <1>3, <2>1, Concat
  <1>9. /\ j4 \in Seq(C) /\ Len(j4) = Len(j3) + Len(a)
        /\ \A i \in 1..Len(j3) : j4[i] = j3[i]
        /\ \A i \in 1..Len(a) : j4[Len(j3) + i] = a[i]
    <2>1. j3 \in Seq(C)
      BY <1>8
    <2> QED
      BY <1>4, <2>1, Concat
  <1>10. /\ Len(j1) \in Nat /\ Len(j2) \in Nat /\ Len(j3) \in Nat /\ Len(j2) = Len(b) + Len(Deflect) + 1
         /\ Len(j3) = Len(b) + Len(Deflect) + 1 + Len(retval)
         /\ Len(j4) = Len(b) + Len(Deflect) + 1 + Len(retval) + Len(a)
    BY <1>0, <1>5, <1>7, <1>8, <1>9
  <1>11. \A i \in 1..Len(j1) : i \in 1..Len(j2) /\ i \in 1..Len(j3)
    BY <1>0, <1>5, <1>7, <1>8, <1>10
  <1>12. \A i \in 1..Len(j1) : j4[i] = j1[i]
    BY <1>7, <1>8, <1>9, <1>11, Zenon
  <1>13. \A i \in 1..Len(b) : i \in 1..Len(j1)
    BY <1>0, <1>5
  <1>14. \A i \in 1..Len(Deflect) : Len(b) + i \in 1..Len(j1)
    BY <1>0, <1>5
  <1>15. Len(j1) + 1 \in 1..Len(j2) /\ Len(j1) + 1 \in 1..Len(j3)
    BY <1>0, <1>10, <1>7, <1>8
  <1>16. \A i \in 1..Len(retval) : Len(j2) + i \in 1..Len(j3)
    BY <1>0, <1>10, <1>8
  <1>17. j4[Len(j1) + 1] = Equals
    BY <1>7, <1>8, <1>9, <1>15, Zenon
  <1>18. \A i \in 1..Len(b) : j4[i] = b[i]
    BY <1>5, <1>12, <1>13, Zenon
  <1>19. \A i \in 1..Len(Deflect) : j4[Len(b) + i] = Deflect[i]
    BY <1>5, <1>12, <1>14, Zenon
  <1>20. \A i \in 1..Len(retval) : j4[Len(j2) + i] = retval[i]
    BY <1>8, <1>9, <1>16, Zenon
  <1>21. Laid(j4, b, a)
    BY <1>5, <1>9, <1>10, <1>17, <1>18, <1>19, <1>20, Zenon DEF Laid
  <1> QED
    BY <1>1, <1>2, <1>3, <1>4, <1>9, <1>21, Zenon

-----------------------------------------------------------------------------
(* How Encode writes it: what is shifted out of the accumulator is lost. *)
\* The bits that are lost in a shift do not matter for the low ones.
LEMMA LowBits ==
    ASSUME NEW x \in Nat
    PROVE  /\ x % 2^Width \in Nat
           /\ (x % 2^Width) % 4096 = x % 4096
           /\ (x % 2^Width) % 64 = x % 64
  <1>1. PICK w \in Nat : w = 2^Width
    BY WidthAssumption
  <1>2. w > 0 /\ w % 16384 = 0
    BY <1>1, WidthAssumption
  <1>3. PICK k \in Nat : w = 16384 * k
    BY <1>2
  <1>4. PICK q \in Nat : q = x \div w
    BY <1>2
  <1>5. x % w = x - w * q /\ x % w \in Nat
    BY <1>2, <1>4
  <1>6. PICK j \in Nat : j = k * q
    OBVIOUS
  <1>7. w * q = 16384 * j
    BY <1>3, <1>6
  <1> QED
    BY <1>1, <1>5, <1>7

LEMMA ShiftOut ==
    ASSUME NEW x \in Nat
    PROVE  /\ ShiftLeft(x, 4) % 64 = (x % 4) * 16
           /\ ShiftLeft(x, 2) % 64 = (x % 16) * 4
           /\ ShiftRight(x, 6) = x \div 64 /\ ShiftRight(x, 4) = x \div 16
           /\ ShiftRight(x, 2) = x \div 4 /\ ShiftRight(x, 0) = x
  <1>1. 2^6 = 64 /\ 2^4 = 16 /\ 2^2 = 4 /\ 2^0 = 1
    OBVIOUS
  <1>2. (x * 16) % 64 = (x % 4) * 16 /\ (x * 4) % 64 = (x % 16) * 4 /\ x \div 1 = x
    OBVIOUS
  <1>3. x * 16 \in Nat /\ x * 4 \in Nat
    OBVIOUS
  <1> QED
    BY <1>1, <1>2, <1>3, LowBits DEF ShiftLeft, ShiftRight

\* Another byte, another sextet, is shifted in.
LEMMA ByteIn ==
    ASSUME NEW a \in Nat, NEW x \in 0..255, NEW y \in 0..255, NEW z \in 0..255, EndsInBytes(a, x, y)
    PROVE  ShiftLeft(a, 8) + z \in Nat /\ EndsInBytes(ShiftLeft(a, 8) + z, y, z)
  <1>1. 2^8 = 256 /\ (a * 256) % 4096 = (a % 16) * 256 /\ a * 256 \in Nat
    OBVIOUS
  <1>2. PICK b \in Nat : b = ShiftLeft(a, 8) /\ b % 4096 = (a % 16) * 256
    BY <1>1, LowBits DEF ShiftLeft
  <1>3. a % 16 = y % 16
    BY DEF EndsInBytes
  <1>4. PICK r \in 0..15 : r = y % 16
    OBVIOUS
  <1>5. b % 4096 = r * 256
    BY <1>2, <1>3, <1>4
  <1>6. (b + z) % 4096 = r * 256 + z
    BY <1>5
  <1> QED
    BY <1>2, <1>4, <1>6 DEF EndsInBytes

\* Three bytes make four characters: q groups of them are complete.
Grouped(o, t, b, q) ==
    \/ b = 0 /\ o = 4 * q /\ t = 3 * q
    \/ b = 2 /\ o = 4 * q + 1 /\ t = 3 * q + 1
    \/ b = 4 /\ o = 4 * q + 2 /\ t = 3 * q + 2
    \/ b = 6 /\ o = 4 * q + 3 /\ t = 3 * q + 3
    \/ b = 8 /\ o = 4 * q /\ t = 3 * q + 1
    \/ b = 10 /\ o = 4 * q + 1 /\ t = 3 * q + 2
    \/ b = 12 /\ o = 4 * q + 2 /\ t = 3 * q + 3

LEMMA Groups ==
    ASSUME NEW o \in Nat, NEW t \in Nat, NEW b \in 0..13, 6 * o + b = 8 * t
    PROVE  \E q \in Nat : Grouped(o, t, b, q)
  <1>1. PICK q \in Nat : q = o \div 4
    OBVIOUS
  <1>2. o = 4 * q \/ o = 4 * q + 1 \/ o = 4 * q + 2 \/ o = 4 * q + 3
    BY <1>1
  <1> QED
    BY <1>2 DEF Grouped

LEMMA BitsOfWord ==
    ASSUME NEW a \in Nat, NEW x \in 0..255, NEW y \in 0..255, EndsInBytes(a, x, y)
    PROVE  /\ ShiftRight(a, 2) % 64 = y \div 4
           /\ ShiftRight(a, 4) % 64 = (x % 4) * 16 + y \div 16
           /\ ShiftRight(a, 6) % 64 = (x % 16) * 4 + y \div 64
           /\ ShiftLeft(a, 4) % 64 = (y % 4) * 16 /\ ShiftLeft(a, 2) % 64 = (y % 16) * 4
  <1>1. PICK q \in Nat : a = 4096 * q + (x % 16) * 256 + y
    BY DEF EndsInBytes
  <1>2. PICK p \in 0..15, r \in 0..15 : x = 16 * p + r
    OBVIOUS
  <1>3. x % 16 = r /\ a = 4096 * q + 256 * r + y
    BY <1>1, <1>2
  <1>4. (a \div 4) % 64 = y \div 4
    BY <1>3
  <1>5. (a \div 16) % 64 = (x % 4) * 16 + y \div 16
    BY <1>2, <1>3
  <1>6. (a \div 64) % 64 = (x % 16) * 4 + y \div 64
    <2>1. PICK s \in 0..3, t \in 0..63 : y = 64 * s + t
      OBVIOUS
    <2>2. a \div 64 = 64 * q + 4 * r + s /\ y \div 64 = s
      BY <1>3, <2>1
    <2> QED
      BY <1>3, <2>2
  <1>7. a % 64 = y % 64 /\ a % 4 = y % 4 /\ a % 16 = y % 16
    BY <1>3
  <1>8. /\ ShiftRight(a, 6) = a \div 64 /\ ShiftRight(a, 4) = a \div 16
        /\ ShiftRight(a, 2) = a \div 4 /\ ShiftRight(a, 0) = a
    BY ShiftOut, Zenon
  <1>9. ShiftLeft(a, 4) % 64 = (a % 4) * 16 /\ ShiftLeft(a, 2) % 64 = (a % 16) * 4
    BY ShiftOut, Zenon
  <1>10. ShiftRight(a, 2) % 64 = y \div 4 /\ ShiftRight(a, 4) % 64 = (x % 4) * 16 + y \div 16
    BY <1>4, <1>5, <1>8, Zenon
  <1>11. ShiftRight(a, 6) % 64 = (x % 16) * 4 + y \div 64
    BY <1>6, <1>7, <1>8, Zenon
  <1>12. ShiftLeft(a, 4) % 64 = (y % 4) * 16 /\ ShiftLeft(a, 2) % 64 = (y % 16) * 4
    BY <1>7, <1>9, Zenon
  <1> QED
    BY <1>10, <1>11, <1>12, Zenon

\* The six bits that are written next are those of the group.
LEMMA NextSextet ==
    ASSUME Written, encoder = "loop", bits_collected >= 6
    PROVE  ShiftRight(accumulator, bits_collected - 6) % 64 = Sextet(outpos + 1)
  <1>0. accumulator \in Nat
    BY Zenon DEF Written, LastBytes
  <1>1. /\ bindata \in Seq(0..255) /\ outpos \in Nat /\ taken \in Nat /\ accumulator \in Nat
        /\ bits_collected \in 0..13 /\ 6 * outpos + bits_collected = 8 * taken
    BY DEF Written, Balance
  <1>2. PICK q \in Nat : Grouped(outpos, taken, bits_collected, q)
    BY <1>1, Groups, Zenon
  <1>3. taken - 1 \in Int /\ taken \in Int
    BY <1>1
  <1>4. PICK x \in 0..255, y \in 0..255 : x = Byte(taken - 1) /\ y = Byte(taken)
    BY <1>1, <1>3, ByteRange, Zenon
  <1>5. EndsInBytes(accumulator, x, y)
    BY <1>4, Zenon DEF Written, LastBytes
  <1>6. ShiftRight(accumulator, 2) % 64 = y \div 4
    BY <1>0, <1>5, BitsOfWord, Zenon
  <1>13. ShiftRight(accumulator, 0) % 64 = y % 64
    <2>1. ShiftRight(accumulator, 0) = accumulator
      BY <1>0, ShiftOut, Zenon
    <2>2. accumulator % 64 = y % 64
      BY <1>0, <1>5 DEF EndsInBytes
    <2> QED
      BY <2>1, <2>2, Zenon
  <1>12. /\ ShiftRight(accumulator, 4) % 64 = (x % 4) * 16 + y \div 16
         /\ ShiftRight(accumulator, 6) % 64 = (x % 16) * 4 + y \div 64
    BY <1>0, <1>5, BitsOfWord, ZenonT(40)
  <1>7. CASE bits_collected = 6 /\ outpos = 4 * q + 3 /\ taken = 3 * q + 3
    <2>1. bits_collected - 6 = 0 /\ outpos + 1 = 4 * q + 4
      BY <1>7
    <2>2. Sextet(outpos + 1) = y % 64
      BY <1>4, <1>7, <2>1, SextetAt DEF SextetOf
    <2> QED
      BY <1>6, <1>12, <1>13, <2>1, <2>2, Zenon
  <1>8. CASE bits_collected = 8 /\ outpos = 4 * q /\ taken = 3 * q + 1
    <2>1. bits_collected - 6 = 2 /\ outpos + 1 = 4 * q + 1
      BY <1>8
    <2>2. Sextet(outpos + 1) = y \div 4
      BY <1>4, <1>8, <2>1, SextetAt DEF SextetOf
    <2> QED
      BY <1>6, <1>12, <1>13, <2>1, <2>2, Zenon
  <1>9. CASE bits_collected = 10 /\ outpos = 4 * q + 1 /\ taken = 3 * q + 2
    <2>1. bits_collected - 6 = 4 /\ outpos + 1 = 4 * q + 2 /\ taken - 1 = 3 * q + 1
      BY <1>9
    <2>2. Sextet(outpos + 1) = (x % 4) * 16 + y \div 16
      BY <1>4, <1>9, <2>1, SextetAt DEF SextetOf
    <2> QED
      BY <1>6, <1>12, <1>13, <2>1, <2>2, Zenon
  <1>10. CASE bits_collected = 12 /\ outpos = 4 * q + 2 /\ taken = 3 * q + 3
    <2>1. bits_collected - 6 = 6 /\ outpos + 1 = 4 * q + 3 /\ taken - 1 = 3 * q + 2
      BY <1>10
    <2>2. Sextet(outpos + 1) = (x % 16) * 4 + y \div 64
      BY <1>4, <1>10, <2>1, SextetAt DEF SextetOf
    <2> QED
      BY <1>6, <1>12, <1>13, <2>1, <2>2, Zenon
  <1>11. ~(bits_collected \in {0, 2, 4})
    BY <1>1
  <1> QED
    BY <1>2, <1>7, <1>8, <1>9, <1>10, <1>11 DEF Grouped

LEMMA LastSextet ==
    ASSUME Written, encoder = "loop", bits_collected > 0, bits_collected < 6, taken = Len(bindata)
    PROVE  ShiftLeft(accumulator, 6 - bits_collected) % 64 = Sextet(outpos + 1)
  <1>0. accumulator \in Nat
    BY Zenon DEF Written, LastBytes
  <1>1. /\ bindata \in Seq(0..255) /\ outpos \in Nat /\ taken \in Nat /\ accumulator \in Nat
        /\ bits_collected \in 0..13 /\ 6 * outpos + bits_collected = 8 * taken
    BY DEF Written, Balance
  <1>2. PICK q \in Nat : Grouped(outpos, taken, bits_collected, q)
    BY <1>1, Groups, Zenon
  <1>3. taken - 1 \in Int /\ taken \in Int
    BY <1>1
  <1>4. PICK x \in 0..255, y \in 0..255 : x = Byte(taken - 1) /\ y = Byte(taken)
    BY <1>1, <1>3, ByteRange, Zenon
  <1>5. EndsInBytes(accumulator, x, y)
    BY <1>4, Zenon DEF Written, LastBytes
  <1>6. /\ ShiftLeft(accumulator, 4) % 64 = (y % 4) * 16
        /\ ShiftLeft(accumulator, 2) % 64 = (y % 16) * 4
    BY <1>0, <1>5, BitsOfWord, ZenonT(40)
  <1>30. Byte(taken + 1) = 0
    BY <1>1 DEF Byte
  <1>7. CASE bits_collected = 2 /\ outpos = 4 * q + 1 /\ taken = 3 * q + 1
    <2>1. 6 - bits_collected = 4 /\ outpos + 1 = 4 * q + 2 /\ taken + 1 = 3 * q + 2
      BY <1>7
    <2>2. Sextet(outpos + 1) = (y % 4) * 16
      BY <1>30, <1>4, <1>7, <2>1, SextetAt DEF SextetOf
    <2> QED
      BY <1>6, <2>1, <2>2, Zenon
  <1>8. CASE bits_collected = 4 /\ outpos = 4 * q + 2 /\ taken = 3 * q + 2
    <2>1. 6 - bits_collected = 2 /\ outpos + 1 = 4 * q + 3 /\ taken + 1 = 3 * q + 3
      BY <1>8
    <2>2. Sextet(outpos + 1) = (y % 16) * 4
      BY <1>30, <1>4, <1>8, <2>1, SextetAt DEF SextetOf
    <2> QED
      BY <1>6, <2>1, <2>2, Zenon
  <1>9. ~(bits_collected \in {0, 6, 8, 10, 12})
    BY <1>1
  <1> QED
    BY <1>2, <1>7, <1>8, <1>9 DEF Grouped

LEMMA SamePayload ==
    ASSUME bindata' = bindata
    PROVE  /\ \A i : Byte(i)' = Byte(i)
           /\ \A k : Sextet(k)' = Sextet(k)
  <1>1. \A i : Byte(i)' = Byte(i)
    BY Zenon DEF Byte
  <1>2. \A q, r : SextetOf(q, r)' = SextetOf(q, r)
    BY <1>1, Zenon DEF SextetOf
  <1> QED
    BY <1>1, <1>2, Zenon DEF Sextet

LEMMA NextLastBytes ==
    ASSUME bindata' = bindata
    PROVE  LastBytes' <=> EndsInBytes(accumulator', Byte(taken' - 1), Byte(taken'))
  <1>1. Byte(taken - 1)' = Byte(taken' - 1) /\ Byte(taken)' = Byte(taken')
    BY DEF Byte
  <1> QED
    BY <1>1 DEF LastBytes, EndsInBytes

\* Putting the next character.
LEMMA PutStep ==
    ASSUME Written, NEW c, c = b64_table(Sextet(outpos + 1)), outpos < Len(retval),
           Put(c), bindata' = bindata
    PROVE  /\ \A k \in 1..outpos' : retval'[k] = b64_table(Sextet(k))
           /\ \A k \in 1..EncodedSize(Len(bindata)) : k > outpos' => retval'[k] = Pad
  <1>1. Len(bindata) \in Nat /\ outpos \in Nat
    BY DEF Written, Balance
  <1>2. PICK size \in Nat : size = EncodedSize(Len(bindata))
    BY <1>1, Room
  <1>3. Len(retval) = size /\ retval = [i \in 1..size |-> retval[i]]
    BY <1>2, LengthOfFunction DEF Written, Balance, Reserved
  <1>4. outpos' = outpos + 1 /\ outpos' \in 1..size
    BY <1>1, <1>3 DEF Put
  <1>5. retval' = [retval EXCEPT ![outpos'] = c]
    BY <1>4, Zenon DEF Put
  <1>6. \A k \in 1..size : retval'[k] = IF k = outpos' THEN c ELSE retval[k]
    BY <1>3, <1>5, Zenon
  <1>7. ASSUME NEW k \in 1..outpos' PROVE retval'[k] = b64_table(Sextet(k))
    <2>1. k \in 1..size /\ (k = outpos' \/ k \in 1..outpos)
      BY <1>1, <1>2, <1>4
    <2>2. \A l \in 1..outpos : retval[l] = b64_table(Sextet(l))
      BY Zenon DEF Written
    <2>3. k \in 1..outpos => k # outpos'
      BY <1>1, <1>4
    <2> QED
      BY <1>4, <1>6, <2>1, <2>2, <2>3, Zenon
  <1>8. ASSUME NEW k \in 1..size, k > outpos' PROVE retval'[k] = Pad
    <2>1. k > outpos /\ k # outpos'
      BY <1>1, <1>2, <1>4, <1>8
    <2> QED
      BY <1>2, <1>6, <2>1, Zenon DEF Written
  <1> QED
    BY <1>2, <1>7, <1>8, Zenon

LEMMA WrittenInit == RequestInit => Written
  <1> SUFFICES ASSUME NEW bytes \in Seq(0..255), EncodeInit(bytes), Balance PROVE Written
    BY RequestAssumption, BalanceInit DEF RequestInit
  <1>1. LastBytes
    BY DEF LastBytes, EncodeInit, EndsInBytes, Byte
  <1> QED
    BY <1>1 DEF EncodeInit, Written

LEMMA WrittenStep == Written /\ [RequestNext]_rdvars => Written'
  <1> SUFFICES ASSUME Written, [RequestNext]_rdvars PROVE Written'
    OBVIOUS
  <1>0. Balance' /\ EncodeInBounds /\ outpos \in Nat /\ bits_collected \in Nat
    BY BalanceStep, BalanceInBounds DEF Written, Balance
  <1>1. CASE TakeByte
    <2>1. bindata' = bindata /\ retval' = retval /\ outpos' = outpos /\ taken' = taken + 1
          /\ accumulator' = ShiftLeft(accumulator, 8) + bindata[taken + 1] /\ taken < Len(bindata)
      BY <1>1 DEF TakeByte
    <2>2. bindata \in Seq(0..255) /\ taken \in Int /\ taken - 1 \in Int /\ taken + 1 \in Int
          /\ taken + 1 \in 1..Len(bindata) /\ taken + 1 - 1 = taken
      BY <2>1 DEF Written, Balance
    <2>3. Byte(taken + 1) = bindata[taken + 1]
      BY <2>2, Zenon DEF Byte
    <2>4. PICK x \in 0..255, y \in 0..255, z \in 0..255 :
             x = Byte(taken - 1) /\ y = Byte(taken) /\ z = Byte(taken + 1)
      BY <2>2, ByteRange, Zenon
    <2>5. EndsInBytes(accumulator, x, y) /\ accumulator \in Nat
      BY <2>4, Zenon DEF Written, LastBytes
    <2>6. ShiftLeft(accumulator, 8) + z \in Nat /\ EndsInBytes(ShiftLeft(accumulator, 8) + z, y, z)
      BY <2>5, ByteIn
    <2>7. accumulator' = ShiftLeft(accumulator, 8) + z
      BY <2>1, <2>3, <2>4, Zenon
    <2>8. taken' = taken + 1 /\ taken' - 1 = taken
      BY <2>1, <2>2
    <2>9. Byte(taken' - 1) = y /\ Byte(taken') = z
      BY <2>4, <2>8, Zenon
    <2>10. accumulator' \in Nat /\ LastBytes'
      BY <2>1, <2>6, <2>7, <2>9, NextLastBytes, Zenon
    <2>11. /\ \A k \in 1..outpos' : retval'[k] = b64_table(Sextet(k)')
           /\ \A k \in 1..EncodedSize(Len(bindata')) : k > outpos' => retval'[k] = Pad
      BY <2>1, SamePayload, Zenon DEF Written
    <2> QED
      BY <1>0, <2>10, <2>11, Zenon DEF Written
  <1>2. ASSUME bindata' = bindata, taken' = taken, accumulator' = accumulator, outpos < Len(retval),
               Put(b64_table(Sextet(outpos + 1)))
        PROVE  Written'
    <2>1. /\ \A k \in 1..outpos' : retval'[k] = b64_table(Sextet(k))
          /\ \A k \in 1..EncodedSize(Len(bindata)) : k > outpos' => retval'[k] = Pad
      BY <1>2, PutStep, Zenon
    <2>2. LastBytes'
      BY <1>2, NextLastBytes, Zenon DEF Written, LastBytes
    <2>3. \A k \in 1..outpos' : retval'[k] = b64_table(Sextet(k)')
      BY <1>2, <2>1, SamePayload, Zenon
    <2> QED
      BY <1>0, <1>2, <2>1, <2>2, <2>3, Zenon DEF Written
  <1>3. ASSUME bindata' = bindata, taken' = taken, accumulator' = accumulator, UNCHANGED <<retval, outpos>>
        PROVE  Written'
    <2>2. LastBytes'
      BY <1>3, NextLastBytes, Zenon DEF Written, LastBytes
    <2>3. \A k \in 1..outpos' : retval'[k] = b64_table(Sextet(k)')
      BY <1>3, SamePayload, Zenon DEF Written
    <2> QED
      BY <1>0, <1>3, <2>2, <2>3, Zenon DEF Written
  <1>4. CASE PutSextet
    <2>1. encoder = "loop" /\ bits_collected >= 6
          /\ Put(b64_table(ShiftRight(accumulator, bits_collected - 6) % 64))
          /\ bindata' = bindata /\ taken' = taken /\ accumulator' = accumulator
      BY <1>4 DEF PutSextet
    <2>2. outpos < Len(retval)
      BY <1>0, <2>1 DEF EncodeInBounds
    <2> QED
      BY <1>2, <2>1, <2>2, NextSextet, Zenon
  <1>5. CASE PutTail
    <2>1. encoder = "loop" /\ bits_collected < 6 /\ taken = Len(bindata)
          /\ bindata' = bindata /\ taken' = taken /\ accumulator' = accumulator
      BY <1>5 DEF PutTail
    <2>2. CASE bits_collected > 0
      <3>1. Put(b64_table(ShiftLeft(accumulator, 6 - bits_collected) % 64))
        BY <1>5, <2>2, Zenon DEF PutTail
      <3>2. outpos < Len(retval)
        BY <1>0, <2>1, <2>2 DEF EncodeInBounds
      <3> QED
        BY <1>2, <2>1, <2>2, <3>1, <3>2, LastSextet, Zenon
    <2>3. CASE ~(bits_collected > 0)
      BY <1>3, <1>5, <2>1, <2>3, Zenon DEF PutTail
    <2> QED
      BY <2>2, <2>3
  <1>6. CASE UNCHANGED encoding
    BY <1>3, <1>6, Zenon DEF encoding
  <1>7. DecodeCookie => UNCHANGED encoding
    BY DEF DecodeCookie, DecodeCall, Decode, DecodeChar, DecodeReturn
  <1>8. Load \/ Request \/ CheckCookie \/ Parse \/ UNCHANGED rdvars => UNCHANGED encoding
    BY DEF Load, Request, CheckCookie, Parse, rdvars, b64vars
  <1> QED
    BY <1>1, <1>4, <1>5, <1>6, <1>7, <1>8 DEF RequestNext, SetCookie, Encode

-----------------------------------------------------------------------------
(* What Decode makes of it: the same groups, eight bits at a time. *)
\* The sextet that was written at a position, or none.
Written6(k) == IF k > 0 THEN Sextet(k) ELSE 0

\* How much of the text Decode has read, and how much of that counts.
ReadSoFar == Len(retval) - Len(data)
Counted == IF ReadSoFar <= outpos THEN ReadSoFar ELSE outpos

LastSextets == EndsInSextets(word, Written6(Counted - 1), Written6(Counted))

\* Decode reads the text that Encode wrote, and has written all of its bytes.
Reading ==
    /\ encoder = "returned"
    /\ data \in Seq(1..127) /\ Len(data) <= Len(retval)
    /\ \A i \in 1..Len(data) : data[i] = retval[ReadSoFar + i]
    /\ bits \in 0..7 /\ word \in Nat /\ LastSextets
    /\ decoded \in Seq(0..255) /\ 8 * Len(decoded) + bits = 6 * Counted
    /\ \A i \in 1..Len(decoded) : decoded[i] = Byte(i)
    /\ decoder \in {"loop", "returned"}
    /\ decoder = "returned" => data = << >>

LEMMA Written6Range ==
    ASSUME bindata \in Seq(0..255), NEW k \in Int
    PROVE  Written6(k) \in 0..63
  BY SextetRange DEF Written6

LEMMA SextetIn ==
    ASSUME NEW a \in Nat, NEW x \in 0..63, NEW y \in 0..63, NEW z \in 0..63, EndsInSextets(a, x, y)
    PROVE  ShiftLeft(a, 6) + z \in Nat /\ EndsInSextets(ShiftLeft(a, 6) + z, y, z)
  <1>1. 2^6 = 64 /\ (a * 64) % 4096 = (a % 64) * 64 /\ a * 64 \in Nat
    OBVIOUS
  <1>2. PICK b \in Nat : b = ShiftLeft(a, 6) /\ b % 4096 = (a % 64) * 64
    BY <1>1, LowBits DEF ShiftLeft
  <1>3. a % 64 = y
    BY DEF EndsInSextets
  <1>5. b % 4096 = y * 64
    BY <1>2, <1>3
  <1>6. (b + z) % 4096 = y * 64 + z
    BY <1>5
  <1> QED
    BY <1>2, <1>6 DEF EndsInSextets

LEMMA FirstByteOfSextets ==
    ASSUME NEW a \in Nat, NEW x \in 0..255, NEW y \in 0..255,
           EndsInSextets(a, x \div 4, (x % 4) * 16 + y \div 16)
    PROVE  (a \div 16) % 256 = x
  <1>1. PICK x1 \in 0..63, x2 \in 0..3 : x = 4 * x1 + x2
    OBVIOUS
  <1>2. PICK y1 \in 0..15, y2 \in 0..15 : y = 16 * y1 + y2
    OBVIOUS
  <1>3. x \div 4 = x1 /\ x % 4 = x2 /\ y \div 16 = y1
    BY <1>1, <1>2
  <1>4. EndsInSextets(a, x1, x2 * 16 + y1)
    BY <1>3, Zenon
  <1>5. PICK q \in Nat : a = 4096 * q + 64 * x1 + 16 * x2 + y1
    BY <1>4 DEF EndsInSextets
  <1>6. a \div 16 = 256 * q + 4 * x1 + x2
    BY <1>5
  <1> QED
    BY <1>1, <1>6

LEMMA SecondByteOfSextets ==
    ASSUME NEW a \in Nat, NEW x \in 0..255, NEW y \in 0..255, NEW z \in 0..255,
           EndsInSextets(a, (x % 4) * 16 + y \div 16, (y % 16) * 4 + z \div 64)
    PROVE  (a \div 4) % 256 = y
  <1>1. PICK x2 \in 0..3 : x % 4 = x2
    OBVIOUS
  <1>2. PICK y1 \in 0..15, y2 \in 0..15 : y = 16 * y1 + y2
    OBVIOUS
  <1>3. PICK z1 \in 0..3 : z \div 64 = z1
    OBVIOUS
  <1>4. y \div 16 = y1 /\ y % 16 = y2
    BY <1>2
  <1>5. EndsInSextets(a, x2 * 16 + y1, y2 * 4 + z1)
    BY <1>1, <1>3, <1>4, Zenon
  <1>6. PICK q \in Nat : a = 4096 * q + 1024 * x2 + 64 * y1 + 4 * y2 + z1
    BY <1>5 DEF EndsInSextets
  <1>7. a \div 4 = 1024 * q + 256 * x2 + 16 * y1 + y2
    BY <1>6
  <1> QED
    BY <1>2, <1>7

LEMMA ThirdByteOfSextets ==
    ASSUME NEW a \in Nat, NEW y \in 0..255, NEW z \in 0..255,
           EndsInSextets(a, (y % 16) * 4 + z \div 64, z % 64)
    PROVE  a % 256 = z
  <1>1. PICK y1 \in 0..15, y2 \in 0..15 : y = 16 * y1 + y2
    OBVIOUS
  <1>2. PICK z1 \in 0..3, z2 \in 0..63 : z = 64 * z1 + z2
    OBVIOUS
  <1>3. y % 16 = y2 /\ z \div 64 = z1 /\ z % 64 = z2
    BY <1>1, <1>2
  <1>4. EndsInSextets(a, y2 * 4 + z1, z2)
    BY <1>3, Zenon
  <1>5. PICK q \in Nat : a = 4096 * q + 256 * y2 + 64 * z1 + z2
    BY <1>4 DEF EndsInSextets
  <1> QED
    BY <1>2, <1>5

\* Four characters make three bytes.
Ungrouped(p, d, b, q) ==
    \/ b = 0 /\ p = 4 * q /\ d = 3 * q
    \/ b = 6 /\ p = 4 * q + 1 /\ d = 3 * q
    \/ b = 4 /\ p = 4 * q + 2 /\ d = 3 * q + 1
    \/ b = 2 /\ p = 4 * q + 3 /\ d = 3 * q + 2

LEMMA Ungroups ==
    ASSUME NEW p \in Nat, NEW d \in Nat, NEW b \in 0..7, 8 * d + b = 6 * p
    PROVE  \E q \in Nat : Ungrouped(p, d, b, q)
  <1>1. PICK q \in Nat : q = p \div 4
    OBVIOUS
  <1>2. p = 4 * q \/ p = 4 * q + 1 \/ p = 4 * q + 2 \/ p = 4 * q + 3
    BY <1>1
  <1> QED
    BY <1>2 DEF Ungrouped

\* The byte that is complete with the next sextet.
LEMMA NextByte ==
    ASSUME bindata \in Seq(0..255), NEW a \in Nat, NEW p \in Nat, NEW d \in Nat, NEW b \in 0..7,
           8 * d + b = 6 * p, b >= 2, EndsInSextets(a, Written6(p), Written6(p + 1))
    PROVE  ShiftRight(a, b + 6 - 8) % 256 = Byte(d + 1)
  <1>1. PICK q \in Nat : Ungrouped(p, d, b, q)
    BY Ungroups, Zenon
  <1>2. 3 * q + 1 \in Int /\ 3 * q + 2 \in Int /\ 3 * q + 3 \in Int
    OBVIOUS
  <1>3. PICK x \in 0..255, y \in 0..255, z \in 0..255 :
           x = Byte(3 * q + 1) /\ y = Byte(3 * q + 2) /\ z = Byte(3 * q + 3)
    BY <1>2, ByteRange, Zenon
  <1>4. /\ Sextet(4 * q + 1) = x \div 4 /\ Sextet(4 * q + 2) = (x % 4) * 16 + y \div 16
        /\ Sextet(4 * q + 3) = (y % 16) * 4 + z \div 64 /\ Sextet(4 * q + 4) = z % 64
    BY <1>3, SextetAt DEF SextetOf
  <1>5. /\ 4 * q + 1 > 0 /\ 4 * q + 2 > 0 /\ 4 * q + 3 > 0 /\ 4 * q + 4 > 0
    OBVIOUS
  <1>6. /\ Written6(4 * q + 1) = x \div 4 /\ Written6(4 * q + 2) = (x % 4) * 16 + y \div 16
        /\ Written6(4 * q + 3) = (y % 16) * 4 + z \div 64 /\ Written6(4 * q + 4) = z % 64
    BY <1>4, <1>5, Zenon DEF Written6
  <1>7. CASE b = 6 /\ p = 4 * q + 1 /\ d = 3 * q
    <2>1. b + 6 - 8 = 4 /\ p + 1 = 4 * q + 2 /\ d + 1 = 3 * q + 1
      BY <1>7
    <2>2. EndsInSextets(a, x \div 4, (x % 4) * 16 + y \div 16)
      BY <1>6, <1>7, <2>1, Zenon
    <2>3. (a \div 16) % 256 = x
      BY <2>2, FirstByteOfSextets, ZenonT(40)
    <2>4. ShiftRight(a, 4) = a \div 16
      BY ShiftOut, Zenon
    <2> QED
      BY <1>3, <2>1, <2>3, <2>4
  <1>8. CASE b = 4 /\ p = 4 * q + 2 /\ d = 3 * q + 1
    <2>1. b + 6 - 8 = 2 /\ p + 1 = 4 * q + 3 /\ d + 1 = 3 * q + 2
      BY <1>8
    <2>2. EndsInSextets(a, (x % 4) * 16 + y \div 16, (y % 16) * 4 + z \div 64)
      BY <1>6, <1>8, <2>1, Zenon
    <2>3. (a \div 4) % 256 = y
      BY <2>2, SecondByteOfSextets, ZenonT(40)
    <2>4. ShiftRight(a, 2) = a \div 4
      BY ShiftOut, Zenon
    <2> QED
      BY <1>3, <2>1, <2>3, <2>4
  <1>9. CASE b = 2 /\ p = 4 * q + 3 /\ d = 3 * q + 2
    <2>1. b + 6 - 8 = 0 /\ p + 1 = 4 * q + 4 /\ d + 1 = 3 * q + 3
      BY <1>9
    <2>2. EndsInSextets(a, (y % 16) * 4 + z \div 64, z % 64)
      BY <1>6, <1>9, <2>1, Zenon
    <2>3. a % 256 = z
      BY <2>2, ThirdByteOfSextets, ZenonT(40)
    <2>4. ShiftRight(a, 0) = a
      BY ShiftOut, Zenon
    <2> QED
      BY <1>3, <2>1, <2>3, <2>4
  <1> QED
    BY <1>1, <1>7, <1>8, <1>9 DEF Ungrouped

LEMMA NextLastSextets ==
    ASSUME bindata' = bindata
    PROVE  LastSextets' <=> EndsInSextets(word', Written6(Counted' - 1), Written6(Counted'))
  <1>1. \A k : Sextet(k)' = Sextet(k)
    BY SamePayload, Zenon
  <1>2. Written6(Counted - 1)' = Written6(Counted' - 1) /\ Written6(Counted)' = Written6(Counted')
    BY DEF Written6, Sextet, SextetOf, Byte
  <1> QED
    BY <1>2 DEF LastSextets, EndsInSextets

\* Reading on changes the position only.
LEMMA ReadOn ==
    ASSUME Written, Reading, UNCHANGED encoding, data # << >>, data' = Tail(data)
    PROVE  /\ Len(data) > 0 /\ Len(data') = Len(data) - 1 /\ data' \in Seq(1..127)
           /\ Len(data') <= Len(retval')
           /\ ReadSoFar \in Nat /\ ReadSoFar < Len(retval) /\ ReadSoFar' = ReadSoFar + 1
           /\ Head(data) = retval[ReadSoFar + 1]
           /\ \A i \in 1..Len(data') : data'[i] = retval'[ReadSoFar' + i]
  <1>1. data \in Seq(1..127) /\ Len(data) <= Len(retval) /\ Len(retval) \in Nat /\ retval' = retval
    BY TextChars, Zenon DEF Reading, encoding
  <1>2. /\ Len(data) \in Nat /\ Len(data) > 0 /\ Head(data) = data[1]
        /\ Len(data') = Len(data) - 1 /\ data' \in Seq(1..127)
        /\ \A i \in 1..Len(data') : data'[i] = data[i + 1]
    BY <1>1
  <1>3. /\ ReadSoFar \in Nat /\ ReadSoFar < Len(retval) /\ ReadSoFar' = ReadSoFar + 1
        /\ Len(data') <= Len(retval')
    BY <1>1, <1>2 DEF ReadSoFar
  <1>4. \A i \in 1..Len(data) : data[i] = retval[ReadSoFar + i]
    BY Zenon DEF Reading
  <1>5. 1 \in 1..Len(data)
    BY <1>2
  <1>6. Head(data) = retval[ReadSoFar + 1]
    BY <1>2, <1>4, <1>5, Zenon
  <1>7. ASSUME NEW i \in 1..Len(data') PROVE data'[i] = retval'[ReadSoFar' + i]
    <2>1. i + 1 \in 1..Len(data) /\ ReadSoFar' + i = ReadSoFar + (i + 1)
      BY <1>2, <1>3
    <2> QED
      BY <1>1, <1>2, <1>4, <2>1, Zenon
  <1> QED
    BY <1>1, <1>2, <1>3, <1>6, <1>7, Zenon

LEMMA ReadChar ==
    ASSUME Written, Reading, DecodeChar
    PROVE  Reading'
  <1> DEFINE c == Head(data)
             p == ReadSoFar
  <1>1. /\ UNCHANGED encoding /\ data # << >> /\ decoder = "loop"
        /\ bindata' = bindata /\ retval' = retval /\ outpos' = outpos /\ encoder' = encoder
    BY DEF DecodeChar, encoding
  <1>2. /\ bindata \in Seq(0..255) /\ encoder = "returned" /\ bits \in 0..7 /\ word \in Nat
        /\ decoded \in Seq(0..255) /\ Len(decoded) \in Nat /\ decoder \in {"loop", "returned"}
        /\ 8 * Len(decoded) + bits = 6 * Counted
    BY DEF Written, Balance, Reading
  <1>3. /\ outpos \in Nat /\ outpos <= Len(retval) /\ Len(retval) \in Nat
        /\ \A k \in 1..outpos : retval[k] = b64_table(Sextet(k)) /\ Sextet(k) \in 0..63
        /\ \A k \in outpos + 1..Len(retval) : retval[k] = Pad
    BY <1>2, TextChars
  <1>4. \A i : Byte(i)' = Byte(i)
    BY <1>1, SamePayload, Zenon
  <1>5. ASSUME data' = Tail(data)
        PROVE  /\ data' \in Seq(1..127) /\ Len(data') <= Len(retval')
               /\ p \in Nat /\ p < Len(retval) /\ ReadSoFar' = p + 1
               /\ c = retval[p + 1]
               /\ \A i \in 1..Len(data') : data'[i] = retval'[ReadSoFar' + i]
    BY <1>1, <1>5, ReadOn, Zenon
  <1>6. p \in Nat /\ p < Len(retval) /\ c = retval[p + 1]
    <2>1. data \in Seq(1..127) /\ Len(data) <= Len(retval)
      BY Zenon DEF Reading
    <2>2. Len(data) \in Nat /\ Len(data) > 0 /\ Head(data) = data[1] /\ 1 \in 1..Len(data)
      BY <1>1, <2>1
    <2>3. c = retval[p + 1]
      BY <2>2, Zenon DEF Reading
    <2>4. p \in Nat /\ p < Len(retval)
      BY <1>3, <2>1, <2>2 DEF ReadSoFar
    <2> QED
      BY <2>3, <2>4
  <1> HIDE DEF c, p
  <1>7. CASE p >= outpos
    <2>1. p + 1 \in outpos + 1..Len(retval)
      BY <1>3, <1>6, <1>7
    <2>2. c = Pad
      BY <1>3, <1>6, <2>1, Zenon
    <2>3. Skipped(c)
      BY <2>2 DEF Skipped
    <2>4. data' = Tail(data) /\ UNCHANGED <<decoded, decoder, bits, word>>
      BY <2>3, Zenon DEF DecodeChar, c
    <2>5. Counted = outpos /\ Counted' = outpos
      BY <1>1, <1>3, <1>5, <1>6, <1>7, <2>4 DEF Counted, p
    <2>6. LastSextets'
      BY <1>1, <2>4, <2>5, NextLastSextets, Zenon DEF Reading, LastSextets
    <2>7. \A i \in 1..Len(decoded') : decoded'[i] = Byte(i)'
      BY <1>4, <2>4, Zenon DEF Reading
    <2>8. 8 * Len(decoded') + bits' = 6 * Counted'
      BY <1>2, <2>4, <2>5, Zenon
    <2>9. decoder' = "loop" /\ encoder' = "returned"
      BY <1>1, <1>2, <2>4
    <2> QED
      BY <1>2, <1>5, <2>4, <2>6, <2>7, <2>8, <2>9 DEF Reading
  <1>8. CASE p < outpos
    <2>1. p + 1 \in 1..outpos
      BY <1>3, <1>6, <1>8
    <2>2. PICK z \in 0..63 : z = Sextet(p + 1) /\ c = b64_table(z)
      BY <1>3, <1>6, <2>1, Zenon
    <2>3. reverse_table(c) = z /\ ~Skipped(c) /\ ~(reverse_table(c) > 63)
      BY <2>2, TableInverse
    <2>4. /\ data' = Tail(data) /\ word' = ShiftLeft(word, 6) + z /\ UNCHANGED decoder
          /\ bits' = IF Complete(bits + 6) THEN bits + 6 - 8 ELSE bits + 6
          /\ decoded' = IF Complete(bits + 6)
                        THEN Append(decoded, ShiftRight(word', bits') % 256) ELSE decoded
      BY <2>3, Zenon DEF DecodeChar, c
    <2>20. ReadSoFar = p /\ ReadSoFar' = p + 1 /\ outpos \in Nat /\ outpos' = outpos
      BY <1>1, <1>3, <1>5, <2>4, Zenon DEF p
    <2>5. Counted = p /\ Counted' = p + 1 /\ p + 1 - 1 = p
      BY <1>6, <1>8, <2>20 DEF Counted
    <2>6. p \in Int /\ p - 1 \in Int /\ p + 1 > 0
      BY <1>6
    <2>7. PICK x \in 0..63, y \in 0..63 : x = Written6(p - 1) /\ y = Written6(p)
      BY <1>2, <2>6, Written6Range, Zenon
    <2>8. z = Written6(p + 1)
      BY <2>2, <2>6, Zenon DEF Written6
    <2>9. EndsInSextets(word, x, y)
      BY <2>5, <2>7, Zenon DEF Reading, LastSextets
    <2>10. word' \in Nat /\ EndsInSextets(word', y, z)
      BY <1>2, <2>4, <2>9, SextetIn, Zenon
    <2>11. LastSextets'
      <3>1. Counted' = p + 1 /\ Counted' - 1 = p
        BY <1>6, <2>5
      <3>2. EndsInSextets(word', Written6(Counted' - 1), Written6(Counted'))
        BY <2>7, <2>8, <2>10, <3>1, Zenon
      <3> QED
        BY <1>1, <3>2, NextLastSextets, Zenon
    <2>12. /\ decoded' \in Seq(0..255) /\ bits' \in 0..7 /\ 8 * Len(decoded') + bits' = 6 * (p + 1)
           /\ \A i \in 1..Len(decoded') : decoded'[i] = Byte(i)
      <3>1. CASE bits >= 2
        <4>1. Complete(bits + 6) /\ bits' = bits + 6 - 8 /\ bits' \in 0..7
          BY <1>2, <2>4, <3>1 DEF Complete
        <4>2. decoded' = Append(decoded, ShiftRight(word', bits') % 256)
          BY <2>4, <4>1, Zenon
        <4>3. EndsInSextets(word', Written6(p), Written6(p + 1))
          BY <2>7, <2>8, <2>10, Zenon
        <4>4. 8 * Len(decoded) + bits = 6 * p
          BY <1>2, <2>5, Zenon
        <4>5. ShiftRight(word', bits + 6 - 8) % 256 = Byte(Len(decoded) + 1)
          BY <1>2, <1>6, <2>10, <3>1, <4>3, <4>4, NextByte, SMTT(30)
        <4>6. decoded' = Append(decoded, Byte(Len(decoded) + 1))
          BY <4>1, <4>2, <4>5, Zenon
        <4>7. Byte(Len(decoded) + 1) \in 0..255
          BY <1>2, ByteRange
        <4>8. /\ decoded' \in Seq(0..255) /\ Len(decoded') = Len(decoded) + 1
              /\ decoded'[Len(decoded) + 1] = Byte(Len(decoded) + 1)
              /\ \A i \in 1..Len(decoded) : decoded'[i] = decoded[i]
          BY <1>2, <4>6, <4>7
        <4>9. ASSUME NEW i \in 1..Len(decoded') PROVE decoded'[i] = Byte(i)
          <5>1. i = Len(decoded) + 1 \/ i \in 1..Len(decoded)
            BY <1>2, <4>8
          <5> QED
            BY <4>8, <5>1, Zenon DEF Reading
        <4>10. 8 * Len(decoded') + bits' = 6 * (p + 1)
          <5>1. Len(decoded') = Len(decoded) + 1 /\ bits' = bits + 6 - 8
            BY <4>1, <4>8, Zenon
          <5>2. Len(decoded) \in Nat /\ bits \in 0..7 /\ p \in Nat
            BY <1>2, <1>6, Zenon
          <5> QED
            BY <4>4, <5>1, <5>2
        <4>11. \A i \in 1..Len(decoded') : decoded'[i] = Byte(i)
          BY <4>9, Zenon
        <4>12. decoded' \in Seq(0..255) /\ bits' \in 0..7
          BY <4>1, <4>8, Zenon
        <4> QED
          BY <4>10, <4>11, <4>12, Zenon
      <3>2. CASE ~(bits >= 2)
        <4>1. ~Complete(bits + 6) /\ bits' = bits + 6 /\ bits' \in 0..7
          BY <1>2, <2>4, <3>2 DEF Complete
        <4>2. decoded' = decoded
          BY <2>4, <4>1, Zenon
        <4>3. 8 * Len(decoded') + bits' = 6 * (p + 1)
          BY <1>2, <1>6, <2>5, <4>1, <4>2
        <4> QED
          BY <1>2, <4>1, <4>2, <4>3, Zenon DEF Reading
      <3> QED
        BY <3>1, <3>2
    <2>13. 8 * Len(decoded') + bits' = 6 * Counted'
      BY <2>5, <2>12, Zenon
    <2>14. \A i \in 1..Len(decoded') : decoded'[i] = Byte(i)'
      BY <1>4, <2>12, Zenon
    <2>15. decoder' = "loop" /\ encoder' = "returned"
      BY <1>1, <1>2, <2>4
    <2> QED
      BY <1>5, <2>4, <2>10, <2>11, <2>12, <2>13, <2>14, <2>15 DEF Reading
  <1> QED
    BY <1>3, <1>6, <1>7, <1>8

\* Decode starts on the whole text.
LEMMA ReadingCall ==
    ASSUME Written, encoder = "returned", DecodeInit, DecodeCall(retval)
    PROVE  Reading'
  <1>1. /\ data' = retval /\ decoder' = "loop" /\ decoded' = << >> /\ bits' = 0 /\ word' = 0
        /\ bindata' = bindata /\ retval' = retval /\ outpos' = outpos /\ encoder' = "returned"
    BY DEF DecodeInit, DecodeCall, encoding
  <1>2. retval \in Seq(1..127) /\ Len(retval) \in Nat /\ outpos \in Nat
    BY TextChars
  <1>3. Len(data') <= Len(retval') /\ ReadSoFar' = 0 /\ Counted' = 0
    BY <1>1, <1>2 DEF ReadSoFar, Counted
  <1>4. \A i \in 1..Len(data') : data'[i] = retval'[ReadSoFar' + i]
    BY <1>1, <1>2, <1>3
  <1>5. Written6(Counted' - 1) = 0 /\ Written6(Counted') = 0
    BY <1>3 DEF Written6
  <1>6. EndsInSextets(word', Written6(Counted' - 1), Written6(Counted'))
    BY <1>1, <1>5 DEF EndsInSextets
  <1>7. LastSextets'
    BY <1>1, <1>6, NextLastSextets, Zenon
  <1>8. decoded' \in Seq(0..255) /\ 8 * Len(decoded') + bits' = 6 * Counted' /\ Len(decoded') = 0
    BY <1>1, <1>3
  <1>9. \A i \in 1..Len(decoded') : decoded'[i] = Byte(i)'
    BY <1>8
  <1> QED
    BY <1>1, <1>2, <1>3, <1>4, <1>7, <1>8, <1>9 DEF Reading

LEMMA ReadingSame ==
    ASSUME Reading, UNCHANGED encoding, UNCHANGED <<data, decoded, bits, word>>,
           decoder' \in {"loop", "returned"}, decoder' = "returned" => data = << >>
    PROVE  Reading'
  <1>1. UNCHANGED <<bindata, retval, outpos, encoder>>
    BY DEF encoding
  <1>2. ReadSoFar' = ReadSoFar /\ Counted' = Counted
    BY <1>1 DEF ReadSoFar, Counted
  <1>3. LastSextets'
    BY <1>1, <1>2, NextLastSextets, Zenon DEF Reading, LastSextets
  <1>4. \A i \in 1..Len(decoded') : decoded'[i] = Byte(i)'
    BY <1>1, SamePayload, Zenon DEF Reading
  <1> QED
    BY <1>1, <1>2, <1>3, <1>4, Zenon DEF Reading

LEMMA ReadingStep ==
    ASSUME Written, Reading, Decode
    PROVE  Reading'
  <1>1. CASE DecodeReturn
    BY <1>1, ReadingSame DEF DecodeReturn
  <1> QED
    BY <1>1, ReadChar, Zenon DEF Decode

\* At the end all bytes are there, and no others.
LEMMA AllRead ==
    ASSUME Written, Reading, decoder = "returned"
    PROVE  decoded = bindata
  <1>1. /\ bindata \in Seq(0..255) /\ decoded \in Seq(0..255) /\ Len(bindata) \in Nat /\ Len(decoded) \in Nat
        /\ outpos \in Nat /\ bits \in 0..7 /\ Len(retval) \in Nat /\ outpos <= Len(retval)
    BY TextChars DEF Written, Balance, Reading
  <1>2. 8 * Len(bindata) <= 6 * outpos /\ 6 * outpos <= 8 * Len(bindata) + 5
    BY DEF Written, Balance, Reading
  <1>3. Counted = outpos
    BY <1>1 DEF Reading, Counted, ReadSoFar
  <1>4. 8 * Len(decoded) + bits = 6 * outpos
    BY <1>3, Zenon DEF Reading
  <1>5. Len(decoded) = Len(bindata)
    BY <1>1, <1>2, <1>4
  <1>6. \A i \in 1..Len(bindata) : decoded[i] = bindata[i]
    BY <1>5, Zenon DEF Reading, Byte
  <1> QED
    BY <1>1, <1>5, <1>6

-----------------------------------------------------------------------------
\* The mask of a prefix has its ones at the positions that are to match.
LEMMA MaskOfPrefix ==
    ASSUME NEW n \in 0..Bits - 1
    PROVE  ShiftedLeft(ShiftedRight(AllOnes, n), n) = n..Bits - 1
  BY WhiteListAssumption DEF ShiftedLeft, ShiftedRight, AllOnes, Positions

\* The masks that an entry may get: with no bit to match the shift may give
\* anything, otherwise it gives one mask.
LEMMA MasksOfEntry ==
    ASSUME NEW entry \in Entry, KeepBits(entry) <= Bits, NEW range \in make_mask_for_range(entry)
    PROVE  /\ KeepBits(entry) \in 0..Bits
           /\ range[1] = inet_addr(entry.ip)
           /\ KeepBits(entry) > 0 => range[2] = Bits - KeepBits(entry)..Bits - 1
  <1>1. entry.keep_bits \in {NoSlash} \cup Nat /\ Bits \in Nat \ {0}
    BY WhiteListAssumption DEF Entry
  <1>2. CASE entry.keep_bits = NoSlash
    <2>1. KeepBits(entry) = Bits
      BY <1>2 DEF KeepBits
    <2>2. range[1] = inet_addr(entry.ip) /\ range[2] = AllOnes
      BY <1>2 DEF make_mask_for_range
    <2>3. AllOnes = Bits - Bits..Bits - 1
      BY <1>1 DEF AllOnes, Positions
    <2> QED
      BY <1>1, <2>1, <2>2, <2>3
  <1>3. CASE entry.keep_bits # NoSlash
    <2>1. KeepBits(entry) = entry.keep_bits /\ KeepBits(entry) \in 0..Bits
      BY <1>1, <1>3 DEF KeepBits
    <2>2. PICK mask \in Masks(Bits - entry.keep_bits) : range = <<inet_addr(entry.ip), mask>>
      BY <1>3 DEF make_mask_for_range
    <2>3. ASSUME KeepBits(entry) > 0 PROVE mask = Bits - KeepBits(entry)..Bits - 1
      <3>1. Bits - entry.keep_bits \in 0..Bits - 1
        BY <1>1, <2>1, <2>3
      <3>2. Bits - entry.keep_bits # Bits
        BY <1>1, <3>1
      <3>3. mask = ShiftedLeft(ShiftedRight(AllOnes, Bits - entry.keep_bits), Bits - entry.keep_bits)
        BY <2>2, <3>2 DEF Masks
      <3> QED
        BY <2>1, <3>1, <3>3, MaskOfPrefix
    <2> QED
      BY <2>1, <2>2, <2>3
  <1> QED
    BY <1>2, <1>3

\* is_match compares exactly the bits that are to match.
LEMMA MatchMeans ==
    ASSUME NEW entry \in Entry, KeepBits(entry) <= Bits, NEW range \in make_mask_for_range(entry),
           NEW ip \in Addresses
    PROVE  /\ is_match(ip, range) => Contains(entry, ip)
           /\ KeepBits(entry) > 0 /\ Contains(entry, ip) => is_match(ip, range)
  <1> DEFINE keep == KeepBits(entry)
             own == inet_addr(entry.ip)
             asked == inet_addr(ip)
  <1>1. /\ keep \in 0..Bits /\ range[1] = own /\ Bits \in Nat \ {0}
        /\ keep > 0 => range[2] = Bits - keep..Bits - 1
    BY WhiteListAssumption, MasksOfEntry
  <1>2. Contains(entry, ip) <=> \A b \in Bits - keep..Bits - 1 : b \in asked <=> b \in own
    BY DEF Contains
  <1>3. is_match(ip, range) <=> own \cap range[2] = asked \cap range[2]
    BY <1>1 DEF is_match
  <1> HIDE DEF keep, own, asked
  <1>4. CASE keep > 0
    <2>1. range[2] = Bits - keep..Bits - 1
      BY <1>1, <1>4
    <2> DEFINE mask == Bits - keep..Bits - 1
    <2>2. (own \cap mask = asked \cap mask) <=> \A b \in mask : b \in asked <=> b \in own
      <3> HIDE DEF mask
      <3> QED
        OBVIOUS
    <2> QED
      BY <1>2, <1>3, <2>1, <2>2 DEF keep
  <1>5. CASE keep = 0
    <2>1. Bits - keep..Bits - 1 = {}
      BY <1>1, <1>5
    <2>2. Contains(entry, ip) /\ ~(keep > 0)
      BY <1>2, <1>5, <2>1
    <2> QED
      BY <2>2 DEF keep
  <1>6. keep = 0 \/ keep > 0
    BY <1>1
  <1> QED
    BY <1>4, <1>5, <1>6, Zenon
Ranges == (SUBSET Positions) \X (SUBSET Positions)

LEMMA RangeTyping ==
    ASSUME NEW entry \in Entry, NEW range \in make_mask_for_range(entry)
    PROVE  range \in Ranges
  <1>1. inet_addr(entry.ip) \in SUBSET Positions
    BY DEF Entry, Addresses, inet_addr, AllOnes
  <1>2. \A n : Masks(n) \subseteq SUBSET Positions
    BY DEF Masks, ShiftedLeft, AllOnes
  <1>3. PICK mask \in SUBSET Positions : range = <<inet_addr(entry.ip), mask>>
    BY <1>2 DEF make_mask_for_range, AllOnes
  <1> QED
    BY <1>1, <1>3 DEF Ranges

ListTyped ==
    /\ entries \in Lists /\ loading \in 0..Len(entries)
    /\ white_list \in Seq(Ranges) /\ per_host_white_list \in [Hosts -> SUBSET Ranges]

\* A range was made from an entry for the host.
MadeFrom(i, host, range) ==
    /\ entries[i].host = host /\ KeepBits(entries[i]) <= Bits
    /\ range \in make_mask_for_range(entries[i])

\* Every range comes from an entry that was loaded ...
Sources ==
    /\ \A k \in DOMAIN white_list : \E i \in 1..loading : MadeFrom(i, AnyHost, white_list[k])
    /\ \A h \in Hosts : \A r \in per_host_white_list[h] : \E i \in 1..loading : MadeFrom(i, h, r)

\* ... and every entry that was loaded has one.
Covered ==
    \A i \in 1..loading :
        \/ \E k \in DOMAIN white_list : MadeFrom(i, AnyHost, white_list[k])
        \/ \E h \in Hosts : \E r \in per_host_white_list[h] : MadeFrom(i, h, r)

\* The verdict on a client is that of the whole list.
Verdict ==
    lister \in {"served", "passed on"} =>
        /\ loading = Len(entries) /\ client \in Hosts \X Addresses
        /\ lister = "served" <=> is_white_listed(client[1], client[2])

(* Why SubnetMatch is inductive only with more: it speaks of the entries,  *)
(* the lister looks at the ranges it made of them when it was loaded.      *)
ListInvariant == ListTyped /\ Sources /\ Covered /\ Verdict

LEMMA SectionTyping ==
    ASSUME ListTyped
    PROVE  /\ entries \in Seq(Entry) /\ Len(entries) \in Nat
           /\ DOMAIN entries = 1..Len(entries) /\ \A i \in 1..Len(entries) : entries[i] \in Entry
  <1>1. entries \in Seq(Entry)
    BY RequestAssumption DEF ListTyped
  <1> QED
    BY <1>1

LEMMA ListExact == ListInvariant => SubnetMatch
  <1> SUFFICES ASSUME ListInvariant PROVE SubnetMatch
    OBVIOUS
  <1>1. \A i \in 1..Len(entries) : entries[i] \in Entry
    BY SectionTyping DEF ListInvariant
  <1>2. DOMAIN entries = 1..Len(entries)
    BY SectionTyping DEF ListInvariant
  <1>3. ASSUME lister = "served" PROVE \E i \in DOMAIN entries : Applies(entries[i])
    <2>1. loading = Len(entries) /\ client[1] \in Hosts /\ client[2] \in Addresses
      BY <1>3 DEF ListInvariant, Verdict
    <2>2. is_white_listed(client[1], client[2])
      BY <1>3 DEF ListInvariant, Verdict
    <2>3. ASSUME NEW i \in 1..loading, NEW host \in {AnyHost, client[1]}, NEW range,
                 MadeFrom(i, host, range), is_match(client[2], range)
          PROVE  \E j \in DOMAIN entries : Applies(entries[j])
      <3>1. i \in DOMAIN entries /\ entries[i] \in Entry
        BY <1>1, <1>2, <2>1
      <3>2. Contains(entries[i], client[2])
        BY <2>1, <2>3, <3>1, MatchMeans DEF MadeFrom
      <3> QED
        BY <2>3, <3>1, <3>2 DEF Applies, MadeFrom
    <2>4. CASE \E k \in DOMAIN white_list : is_match(client[2], white_list[k])
      BY <2>3, <2>4 DEF ListInvariant, Sources
    <2>5. CASE \E r \in per_host_white_list[client[1]] : is_match(client[2], r)
      BY <2>1, <2>3, <2>5 DEF ListInvariant, Sources
    <2> QED
      BY <2>2, <2>4, <2>5 DEF is_white_listed, IsGloballyListed
  <1>4. ASSUME lister = "passed on", NEW i \in DOMAIN entries, KeepBits(entries[i]) > 0,
               Applies(entries[i])
        PROVE  FALSE
    <2>1. loading = Len(entries) /\ client[1] \in Hosts /\ client[2] \in Addresses
      BY <1>4 DEF ListInvariant, Verdict
    <2>2. ~is_white_listed(client[1], client[2])
      BY <1>4 DEF ListInvariant, Verdict
    <2>3. i \in 1..loading /\ entries[i] \in Entry
      BY <1>1, <1>2, <1>4, <2>1
    <2>4. entries[i].host \in {AnyHost, client[1]} /\ Contains(entries[i], client[2])
      BY <1>4 DEF Applies
    <2>5. ASSUME NEW host, NEW range, MadeFrom(i, host, range)
          PROVE  host = entries[i].host /\ is_match(client[2], range)
      BY <1>4, <2>1, <2>3, <2>4, <2>5, MatchMeans DEF MadeFrom
    <2>6. CASE \E k \in DOMAIN white_list : MadeFrom(i, AnyHost, white_list[k])
      BY <2>2, <2>5, <2>6 DEF is_white_listed, IsGloballyListed
    <2>7. CASE \E h \in Hosts : \E r \in per_host_white_list[h] : MadeFrom(i, h, r)
      <3>1. PICK h \in Hosts : \E r \in per_host_white_list[h] : MadeFrom(i, h, r)
        BY <2>7
      <3>2. PICK r \in per_host_white_list[h] : MadeFrom(i, h, r)
        BY <3>1
      <3>3. h = client[1] /\ is_match(client[2], r)
        BY <2>4, <2>5, <3>2, WhiteListAssumption
      <3> QED
        BY <2>2, <3>2, <3>3 DEF is_white_listed
    <2> QED
      BY <2>3, <2>6, <2>7 DEF ListInvariant, Covered
  <1> QED
    BY <1>3, <1>4 DEF SubnetMatch

LEMMA ListInvariantInit == RequestInit => ListInvariant
  <1> SUFFICES ASSUME NEW section \in Lists, ListInit(section) PROVE ListInvariant
    BY DEF RequestInit
  <1>1. entries = section /\ loading = 0 /\ white_list = << >> /\ lister = "loading"
        /\ per_host_white_list = [h \in Hosts |-> {}]
    BY DEF ListInit
  <1>2. section \in Seq(Entry)
    BY RequestAssumption
  <1>3. ListTyped
    BY <1>1, <1>2 DEF ListTyped
  <1> QED
    BY <1>1, <1>3 DEF ListInvariant, Sources, Covered, Verdict

\* One more entry, one more range.
LEMMA LoadStep ==
    ASSUME ListInvariant, LoadEntry
    PROVE  ListInvariant'
  <1>1. PICK entry : entry = entries[loading + 1]
    OBVIOUS
  <1>0. ListTyped /\ entries \in Seq(Entry) /\ Len(entries) \in Nat
    BY SectionTyping, Zenon DEF ListInvariant
  <1>2. /\ ListTyped /\ entries \in Seq(Entry) /\ Len(entries) \in Nat /\ loading \in Nat
        /\ lister = "loading" /\ loading < Len(entries) /\ loading + 1 \in 1..Len(entries)
        /\ entries' = entries
    BY <1>0 DEF ListTyped, LoadEntry
  <1>3. entry \in Entry
    BY <1>1, <1>2
  <1>4. CASE lister' = "thrown" /\ UNCHANGED <<loading, white_list, per_host_white_list>>
    BY <1>2, <1>4 DEF ListInvariant, ListTyped, Sources, Covered, Verdict, MadeFrom
  <1>5. CASE ~(entry.keep_bits # NoSlash /\ Rejects(entry.keep_bits))
    <2>1. KeepBits(entry) <= Bits
      BY <1>3, <1>5, WhiteListAssumption DEF KeepBits, Rejects, Entry
    <2>2. PICK range \in make_mask_for_range(entry) :
             /\ loading' = loading + 1 /\ lister' = lister
             /\ \/ /\ entry.host = AnyHost /\ white_list' = Append(white_list, range)
                   /\ UNCHANGED per_host_white_list
                \/ /\ entry.host # AnyHost /\ UNCHANGED white_list
                   /\ per_host_white_list' =
                         [per_host_white_list EXCEPT ![entry.host] = @ \cup {range}]
      BY <1>1, <1>5 DEF LoadEntry
    <2>3. range \in Ranges
      BY <1>3, RangeTyping
    <2>4. \A host, r : \A i : MadeFrom(i, host, r)' = MadeFrom(i, host, r)
      BY <1>2 DEF MadeFrom
    <2>5. MadeFrom(loading + 1, entry.host, range)
      BY <1>1, <2>1, <2>2 DEF MadeFrom
    <2>6. 1..loading' = 1..loading \cup {loading + 1}
      BY <1>2, <2>2
    <2>7. Verdict'
      BY <1>2, <2>2 DEF Verdict
    <2>8. CASE entry.host = AnyHost /\ white_list' = Append(white_list, range)
               /\ UNCHANGED per_host_white_list
      <3>1. /\ white_list' \in Seq(Ranges) /\ Len(white_list) \in Nat
            /\ DOMAIN white_list' = DOMAIN white_list \cup {Len(white_list) + 1}
            /\ white_list'[Len(white_list) + 1] = range
            /\ \A k \in DOMAIN white_list : white_list'[k] = white_list[k]
        BY <1>2, <2>3, <2>8 DEF ListTyped
      <3>2. ListTyped'
        BY <1>2, <2>2, <2>8, <3>1 DEF ListTyped
      <3>3. \A k \in DOMAIN white_list' : \E i \in 1..loading' : MadeFrom(i, AnyHost, white_list'[k])
        BY <2>5, <2>6, <2>8, <3>1, SMTT(30) DEF ListInvariant, Sources
      <3>4. \A h \in Hosts : \A r \in per_host_white_list'[h] : \E i \in 1..loading' : MadeFrom(i, h, r)
        BY <2>6, <2>8 DEF ListInvariant, Sources
      <3>5. \A i \in 1..loading' :
               \/ \E k \in DOMAIN white_list' : MadeFrom(i, AnyHost, white_list'[k])
               \/ \E h \in Hosts : \E r \in per_host_white_list'[h] : MadeFrom(i, h, r)
        <4> TAKE i \in 1..loading'
        <4>1. CASE i = loading + 1
          BY <2>5, <2>8, <3>1, <4>1
        <4>2. CASE i \in 1..loading
          BY <2>8, <3>1, <4>2 DEF ListInvariant, Covered
        <4> QED
          BY <2>6, <4>1, <4>2
      <3>6. Sources' /\ Covered'
        BY <2>4, <3>3, <3>4, <3>5 DEF Sources, Covered
      <3> QED
        BY <2>7, <3>2, <3>6 DEF ListInvariant
    <2>9. CASE /\ entry.host # AnyHost /\ UNCHANGED white_list
               /\ per_host_white_list' = [per_host_white_list EXCEPT ![entry.host] = @ \cup {range}]
      <3>0. entry.host \in Hosts
        BY <1>3, <2>9 DEF Entry
      <3>1. /\ per_host_white_list' \in [Hosts -> SUBSET Ranges]
            /\ per_host_white_list'[entry.host] = per_host_white_list[entry.host] \cup {range}
            /\ \A h \in Hosts : h # entry.host => per_host_white_list'[h] = per_host_white_list[h]
        BY <1>2, <2>3, <2>9, <3>0 DEF ListTyped
      <3>2. ListTyped'
        BY <1>2, <2>2, <2>9, <3>1 DEF ListTyped
      <3>3. \A k \in DOMAIN white_list' : \E i \in 1..loading' : MadeFrom(i, AnyHost, white_list'[k])
        BY <2>6, <2>9 DEF ListInvariant, Sources
      <3>4. \A h \in Hosts : \A r \in per_host_white_list'[h] : \E i \in 1..loading' : MadeFrom(i, h, r)
        <4> TAKE h \in Hosts
        <4> TAKE r \in per_host_white_list'[h]
        <4>1. CASE r \in per_host_white_list[h]
          BY <2>6, <4>1 DEF ListInvariant, Sources
        <4>2. r \in per_host_white_list[h] \/ (h = entry.host /\ r = range)
          BY <3>1
        <4> QED
          BY <2>5, <2>6, <4>1, <4>2
      <3>5. \A i \in 1..loading' :
               \/ \E k \in DOMAIN white_list' : MadeFrom(i, AnyHost, white_list'[k])
               \/ \E h \in Hosts : \E r \in per_host_white_list'[h] : MadeFrom(i, h, r)
        <4> TAKE i \in 1..loading'
        <4>1. CASE i = loading + 1
          BY <2>5, <3>0, <3>1, <4>1
        <4>2. CASE i \in 1..loading
          BY <2>9, <3>1, <4>2 DEF ListInvariant, Covered
        <4> QED
          BY <2>6, <4>1, <4>2
      <3>6. Sources' /\ Covered'
        BY <2>4, <3>3, <3>4, <3>5 DEF Sources, Covered
      <3> QED
        BY <2>7, <3>2, <3>6 DEF ListInvariant
    <2> QED
      BY <2>2, <2>8, <2>9
  <1> QED
    BY <1>1, <1>4, <1>5 DEF LoadEntry

LEMMA ListInvariantStep == ListInvariant /\ [RequestNext]_rdvars => ListInvariant'
  <1> SUFFICES ASSUME ListInvariant, [RequestNext]_rdvars PROVE ListInvariant'
    OBVIOUS
  <1>1. CASE Load
    BY <1>1, LoadStep DEF Load
  <1>2. CASE Request
    <2>1. PICK c \in Clients(entries) : ListRequest(c[1], c[2])
      BY <1>2 DEF Request
    <2>2. c \in Hosts \X Addresses
      BY <2>1, RequestAssumption DEF ListInvariant, ListTyped
    <2>3. /\ UNCHANGED <<entries, loading, white_list, per_host_white_list>>
          /\ client' = <<c[1], c[2]>> /\ loading = Len(entries)
          /\ lister' = IF is_white_listed(c[1], c[2]) THEN "served" ELSE "passed on"
      BY <2>1 DEF ListRequest
    <2>4. ListTyped' /\ Sources' /\ Covered'
      BY <2>3 DEF ListInvariant, ListTyped, Sources, Covered, MadeFrom
    <2>5. is_white_listed(client[1], client[2])' <=> is_white_listed(c[1], c[2])
      BY <2>2, <2>3 DEF is_white_listed, IsGloballyListed
    <2>6. Verdict'
      BY <2>2, <2>3, <2>5 DEF Verdict
    <2> QED
      BY <2>4, <2>6 DEF ListInvariant
  <1>3. CASE UNCHANGED listvars
    <2>1. ListTyped' /\ Sources' /\ Covered'
      BY <1>3 DEF listvars, ListInvariant, ListTyped, Sources, Covered, MadeFrom
    <2>2. Verdict'
      BY <1>3 DEF listvars, ListInvariant, Verdict, is_white_listed, IsGloballyListed
    <2> QED
      BY <2>1, <2>2 DEF ListInvariant
  <1> QED
    BY <1>1, <1>2, <1>3 DEF RequestNext, SetCookie, CheckCookie, Parse, DecodeCookie, rdvars

(* The white lister serves a client exactly if the client shares the bits  *)
(* to match with an entry for all hosts or for the host it asks for; the   *)
(* converse leaves out entries with no bit to match, whose shift is        *)
(* undefined.  For every list, every client and addresses of any length    *)
(* (load_config, make_mask_for_range, is_match, is_white_listed).          *)
THEOREM WhiteListExact == RequestSpec => []SubnetMatch
  <1>1. RequestSpec => []ListInvariant
    BY ListInvariantInit, ListInvariantStep, PTL DEF RequestSpec
  <1> QED
    BY <1>1, ListExact, PTL

-----------------------------------------------------------------------------
(* What is passed over, wherever it ends.  That it ends is shown by a least *)
(* element, which is all the induction that these proofs need.              *)
INSTANCE WellFoundedInduction

\* A set of naturals has a least element.
LEMMA LeastElement ==
    ASSUME NEW T \in SUBSET Nat, T # {}
    PROVE  \E m \in T : \A n \in T : m <= n
  <1> DEFINE R == {ss \in Nat \X Nat : ss[1] < ss[2]}
  <1>1. OpToRel(<, Nat) = R
    BY DEF OpToRel
  <1>2. IsWellFoundedOn(R, Nat)
    BY <1>1, NatLessThanWellFounded
  <1>3. PICK x \in T : \A y \in T : ~ (<<y, x>> \in R)
    BY <1>2, WFMin
  <1>4. ASSUME NEW y \in T PROVE x <= y
    <2>1. x \in Nat /\ y \in Nat /\ <<y, x>> \notin R
      BY <1>3
    <2>2. y < x => <<y, x>> \in R
      BY <2>1
    <2> QED
      BY <2>1, <2>2
  <1> QED
    BY <1>4

LEMMA SpanExists ==
    ASSUME NEW S, NEW s \in Seq(S), NEW chars
    PROVE  \E n \in 0..Len(s) :
              (\A i \in 1..n : s[i] \in chars) /\ (n < Len(s) => s[n + 1] \notin chars)
  <1> DEFINE T == {n \in 0..Len(s) : n < Len(s) => s[n + 1] \notin chars}
  <1>1. Len(s) \in Nat /\ Len(s) \in T /\ T \in SUBSET Nat
    OBVIOUS
  <1>2. PICK m \in T : \A n \in T : m <= n
    BY <1>1, LeastElement
  <1>3. ASSUME NEW i \in 1..m PROVE s[i] \in chars
    <2>1. m \in Nat /\ m <= Len(s)
      BY <1>1, <1>2
    <2>2. i - 1 \in 0..Len(s) /\ ~(m <= i - 1) /\ i - 1 < Len(s) /\ i - 1 + 1 = i
      BY <1>1, <2>1
    <2>3. i - 1 \notin T
      BY <1>2, <2>2
    <2> QED
      BY <2>2, <2>3
  <1> QED
    BY <1>2, <1>3

LEMMA RunExists ==
    ASSUME NEW S, NEW s \in Seq(S), NEW chars, NEW p \in 0..Len(s)
    PROVE  \E e : Run(s, chars, p, e)
  <1>1. PICK d : d = Drop(s, p)
    OBVIOUS
  <1>2. /\ d \in Seq(S) /\ Len(d) = Len(s) - p
        /\ \A i \in 1..Len(s) - p : d[i] = s[p + i]
    BY <1>1, DropFacts
  <1>3. PICK n \in 0..Len(d) :
           (\A i \in 1..n : d[i] \in chars) /\ (n < Len(d) => d[n + 1] \notin chars)
    BY <1>2, SpanExists, Zenon
  <1>4. n \in Nat /\ n <= Len(s) - p /\ Len(s) \in Nat
    BY <1>2
  <1>5. ASSUME NEW i \in p + 1..p + n PROVE s[i] \in chars
    <2>1. i - p \in 1..n /\ i - p \in 1..Len(s) - p /\ p + (i - p) = i
      BY <1>2, <1>4
    <2> QED
      BY <1>2, <1>3, <2>1
  <1>6. ASSUME p + n < Len(s) PROVE s[p + n + 1] \notin chars
    <2>1. n < Len(d) /\ n + 1 \in 1..Len(s) - p /\ p + (n + 1) = p + n + 1
      BY <1>2, <1>4, <1>6
    <2> QED
      BY <1>2, <1>3, <2>1
  <1>7. p + n \in p..Len(s)
    BY <1>2, <1>4
  <1> QED
    BY <1>5, <1>6, <1>7 DEF Run

LEMMA SkipEqualsTo ==
    ASSUME NEW S, NEW s \in Seq(S), NEW p \in 0..Len(s), NEW e, Run(s, {Equals}, p, e)
    PROVE  SkipEquals(Drop(s, p)) = Drop(s, e)
  <1> DEFINE chars == {Equals}
  <1>1. Run(s, chars, p, e)
    OBVIOUS
  <1> HIDE DEF chars
  <1>2. Drop(Drop(s, p), Span(Drop(s, p), chars)) = Drop(s, e)
    BY <1>1, SkipTo, ZenonT(40)
  <1> QED
    BY <1>2, Zenon DEF SkipEquals, chars

LEMMA ConsumeSeparatorStep ==
    ASSUME NEW jar, NEW b, NEW a, InJar(jar, b, a), Written, encoder = "returned",
           NEW p, AfterName(b, p), cookie_s = Drop(jar, p), ConsumeSeparator
    PROVE  Search(jar, b)'
  <1>0. Len(retval) \in Nat
    BY TextChars
  <1>1. /\ Len(b) \in Nat /\ Len(jar) \in Nat /\ Len(b) < Len(jar) /\ jar \in Seq(1..127)
        /\ Len(Deflect) \in Nat /\ Len(Deflect) > 0 /\ Len(b) + Len(Deflect) < Len(jar)
    BY <1>0, JarLengths
  <1>2. p \in 0..Len(jar)
    BY <1>1 DEF AfterName
  <1>3. \A i \in 1..Len(b) : jar[i] = b[i]
    BY DEF InJar, Laid
  <1>4. CASE name = Deflect /\ p = Len(b) + Len(Deflect)
    <2>0. p < Len(jar) /\ p + 1 = Len(b) + Len(Deflect) + 1 /\ p \in Nat /\ p \in p..Len(jar)
      BY <1>1, <1>4
    <2>1. p < Len(jar) /\ jar[p + 1] = Equals /\ p + 1 = Len(b) + Len(Deflect) + 1 /\ p \in Nat
          /\ p \in p..Len(jar)
      BY <2>0, DeflectInJar, Zenon
    <2>2. Run(jar, Spaces, p, p)
      BY <2>1, CharFacts DEF Run
    <2>3. trim_space_prefix(cookie_s) = Drop(jar, p)
      BY <1>1, <1>2, <2>2, SkipTo, Zenon DEF trim_space_prefix
    <2>4. Drop(jar, p) # << >> /\ Drop(jar, p)[1] = Equals
      BY <1>1, <1>2, <2>1, FirstOfRest, Zenon
    <2>5. cookie_s' = SkipEquals(Drop(jar, p)) /\ parser' = "value" /\ name' = name
      BY <2>3, <2>4, CharFacts, Zenon DEF ConsumeSeparator, Proceed
    <2>6. PICK e : e = p + 1
      OBVIOUS
    <2>14. e = Len(b) + Len(Deflect) + 1
      BY <2>1, <2>6
    <2>15. IsBehind(jar, a, e)
      BY <2>14, BehindDeflect, Zenon
    <2>7. e < Len(jar) => jar[e + 1] # Equals
      BY <2>15, Zenon DEF IsBehind
    <2>8. e \in p..Len(jar) /\ \A i \in p + 1..e : i = p + 1
      BY <1>1, <2>1, <2>6
    <2>9. Run(jar, {Equals}, p, e)
      BY <2>1, <2>7, <2>8, Zenon DEF Run
    <2>10. cookie_s' = Drop(jar, e)
      BY <1>1, <1>2, <2>5, <2>9, SkipEqualsTo, Zenon
    <2>11. e \in 0..Len(jar) /\ e = Len(b) + Len(Deflect) + 1
      BY <1>1, <2>1, <2>6
    <2>12. AtValue(b, e)'
      BY <1>4, <2>5, <2>11, Zenon DEF AtValue
    <2>13. ParsingAt(b, e)'
      BY <2>5, <2>12, Zenon DEF ParsingAt
    <2> QED
      BY <2>10, <2>11, <2>13, Zenon DEF Search
  <1>5. ASSUME name # Deflect, p \in 0..Len(b), NEW k \in Nat, NEW q \in Nat, Ahead(b, p, p, k, q)
        PROVE  Search(jar, b)'
    <2>1. /\ k \in p..q - 1 /\ q \in p + 1..Len(b)
          /\ b[q] = Semicolon /\ \A i \in p + 1..q - 1 : b[i] # Semicolon
          /\ \A i \in p + 1..k : b[i] \in Spaces
          /\ k + 1 = q \/ b[k + 1] = Equals
      BY <1>5, Zenon DEF Ahead
    <2>2. /\ p \in Nat /\ p <= k /\ k < q /\ q <= Len(b)
          /\ k + 1 \in 1..Len(b) /\ q \in 0..Len(jar) /\ q \in 0..Len(b) /\ q \in 1..Len(b)
          /\ k \in p..Len(jar) /\ k \in 0..Len(jar) /\ k \in 0..Len(b) /\ k < Len(jar)
          /\ 1 \in 0..Len(jar) - k
      BY <1>1, <1>2, <2>1
    <2>3. b[k + 1] = Semicolon \/ b[k + 1] = Equals
      BY <2>1, Zenon
    <2>4. \A i \in p + 1..k : i \in 1..Len(b)
      BY <1>1, <2>2
    <2>5. jar[k + 1] = b[k + 1] /\ jar[q] = Semicolon
      BY <1>3, <2>1, <2>2, Zenon
    <2>6. Run(jar, Spaces, p, k)
      BY <1>3, <2>1, <2>2, <2>3, <2>4, <2>5, CharFacts, Zenon DEF Run
    <2>7. trim_space_prefix(cookie_s) = Drop(jar, k)
      BY <1>1, <1>2, <2>6, SkipTo, Zenon DEF trim_space_prefix
    <2>8. Drop(jar, k) # << >> /\ Drop(jar, k)[1] = b[k + 1]
      BY <1>1, <2>2, <2>5, FirstOfRest, Zenon
    <2>9. CASE b[k + 1] = Semicolon
      <3>1. k + 1 = q
        BY <2>1, <2>9, CharFacts, Zenon
      <3>2. cookie_s' = Drop(Drop(jar, k), 1) /\ Return(name, << >>)
        BY <2>7, <2>8, <2>9, CharFacts, Zenon DEF ConsumeSeparator
      <3>3. cookie_s' = Drop(jar, q)
        BY <1>1, <2>2, <3>1, <3>2, DropDrop, Zenon
      <3>4. parser' = "consume"
        BY <1>5, <3>2, Zenon DEF Return
      <3>5. AtCookie(b, q)
        BY <2>1, <2>2, Zenon DEF AtCookie
      <3>6. ParsingAt(b, q)'
        BY <3>4, <3>5 DEF ParsingAt, AtCookie
      <3> QED
        BY <2>2, <3>3, <3>6, Zenon DEF Search
    <2>10. CASE b[k + 1] = Equals
      <3>1. cookie_s' = SkipEquals(Drop(jar, k)) /\ parser' = "value" /\ name' = name
        BY <2>7, <2>8, <2>10, CharFacts, Zenon DEF ConsumeSeparator, Proceed
      <3>2. PICK e : Run(jar, {Equals}, k, e)
        BY <1>1, <2>2, RunExists, Zenon
      <3>3. cookie_s' = Drop(jar, e)
        BY <1>1, <2>2, <3>1, <3>2, SkipEqualsTo, Zenon
      <3>4. e \in k..Len(jar) /\ \A i \in k + 1..e : jar[i] = Equals
        BY <3>2, Zenon DEF Run
      <3>5. q \notin k + 1..e
        BY <2>5, <3>4, CharFacts, Zenon
      <3>6. /\ e \in Nat /\ e < q /\ e \in 0..Len(jar) /\ e \in 0..Len(b) /\ q \in e + 1..Len(b)
            /\ \A i \in e + 1..q - 1 : i \in p + 1..q - 1
        BY <1>1, <2>2, <3>4, <3>5
      <3>7. AtValue(b, e)'
        BY <1>5, <2>1, <3>1, <3>6, Zenon DEF AtValue
      <3>8. ParsingAt(b, e)'
        BY <3>1, <3>7, Zenon DEF ParsingAt
      <3> QED
        BY <3>3, <3>6, <3>8, Zenon DEF Search
    <2> QED
      BY <2>3, <2>9, <2>10, Zenon
  <1> QED
    BY <1>4, <1>5, Zenon DEF AfterName

\* The value of another cookie is passed over.
LEMMA OtherValueStep ==
    ASSUME NEW jar, NEW b, NEW a, InJar(jar, b, a), Written, encoder = "returned",
           NEW p \in 0..Len(b), name # Deflect, NEW q \in p + 1..Len(b), b[q] = Semicolon,
           \A i \in p + 1..q - 1 : b[i] # Semicolon, cookie_s = Drop(jar, p), ConsumeValue
    PROVE  Search(jar, b)'
  <1>0. Len(retval) \in Nat
    BY TextChars
  <1>1. /\ Len(b) \in Nat /\ Len(jar) \in Nat /\ Len(b) < Len(jar) /\ jar \in Seq(1..127) /\ b \in Seq(Plain)
    BY <1>0, JarLengths DEF InJar, OtherCookies
  <1>2. p \in 0..Len(jar) /\ q \in 1..Len(b) /\ q \in Nat /\ q <= Len(b) /\ p \in Nat /\ p < q /\ q \in 0..Len(jar)
    BY <1>1
  <1>3. \A i \in 1..Len(b) : jar[i] = b[i] /\ b[i] # 13
    <2>1. \A i \in 1..Len(b) : b[i] \in Plain
      BY <1>1, ElementOf, Zenon
    <2> QED
      BY <2>1 DEF InJar, Laid, Plain
  <1>4. jar[q] = Semicolon
    BY <1>2, <1>3
  <1>5. PICK u : Run(jar, Spaces, p, u)
    BY <1>1, <1>2, RunExists, Zenon
  <1>6. trim_space_prefix(cookie_s) = Drop(jar, u)
    <2>1. jar \in Seq(1..127) /\ p \in 0..Len(jar)
      BY <1>1, <1>2, Zenon
    <2>2. trim_space_prefix(Drop(jar, p)) = Drop(jar, u)
      BY <1>5, <2>1, TrimTo
    <2> QED
      BY <2>2, Zenon
  <1>7. u \in p..Len(jar) /\ \A i \in p + 1..u : jar[i] \in Spaces
    BY <1>5, Zenon DEF Run
  <1>8. q \notin p + 1..u
    BY <1>4, <1>7, CharFacts, Zenon
  <1>9. u \in Nat /\ u < q /\ u \in 0..Len(jar)
    BY <1>1, <1>2, <1>7, <1>8
  <1>10. PICK e \in Nat : e = q - 1
    BY <1>2
  <1>11. e \in u..Len(jar) /\ e + 1 = q /\ \A i \in u + 1..e : i \in 1..Len(b) /\ i \in p + 1..q - 1
    BY <1>1, <1>2, <1>7, <1>9, <1>10
  <1>12. ValueTo(jar, u, e)
    BY <1>3, <1>4, <1>11, Zenon DEF ValueTo
  <1>13. ValueEnd(Drop(jar, u)) = e - u
    BY <1>1, <1>9, <1>12, ValueEndAt, Zenon
  <1>14. PICK d : d = Drop(jar, u)
    OBVIOUS
  <1>15. /\ Return(name, trim_space_suffix(SubSeq(d, 1, e - u)))
         /\ cookie_s' = Drop(d, IF At(d, e - u + 1) = Semicolon THEN e - u + 1 ELSE e - u)
    BY <1>6, <1>13, <1>14, Zenon DEF ConsumeValue
  <1>16. PICK n \in 0..Len(jar) - u : n = e - u + 1
    BY <1>1, <1>2, <1>9, <1>10
  <1>17. n \in 1..Len(jar) - u /\ u + n = q
    BY <1>2, <1>9, <1>10, <1>16
  <1>18. d \in Seq(1..127) /\ Len(d) = Len(jar) - u /\ d[n] = jar[q]
    <2>1. Dropped(1..127, jar, u, d)
      BY <1>1, <1>9, <1>14, DropIs, Zenon
    <2> QED
      BY <1>17, <2>1, Zenon DEF Dropped
  <1>19. n \in DOMAIN d
    <2>1. DOMAIN d = 1..Len(d)
      BY <1>18, Positioned, Zenon
    <2> QED
      BY <1>17, <1>18, <2>1, Zenon
  <1>20. At(d, n) = Semicolon
    BY <1>4, <1>18, <1>19, Zenon DEF At
  <1>21. cookie_s' = Drop(d, n)
    BY <1>15, <1>16, <1>20, Zenon
  <1>22. cookie_s' = Drop(jar, q)
    BY <1>1, <1>9, <1>14, <1>17, <1>21, DropDrop, Zenon
  <1>23. parser' = "consume"
    BY <1>15, Zenon DEF Return
  <1>24. AtCookie(b, q)
    BY <1>1, <1>2 DEF AtCookie
  <1>25. ParsingAt(b, q)'
    BY <1>23, <1>24 DEF ParsingAt, AtCookie
  <1> QED
    BY <1>2, <1>22, <1>25, Zenon DEF Search

-----------------------------------------------------------------------------
(* The cookie from the response to the next request. *)
\* Where the handlers are in the life of the cookie.
Life ==
    /\ lister = "passed on" => encoder = "returned"
    /\ parser # "idle" => lister = "passed on"
    /\ decoder # "idle" => parser = "found"
    /\ decoder = "idle" => DecodeInit
    /\ genuine => parser # "idle" /\ Parsing
    /\ genuine /\ decoder # "idle" => Reading

(* Why CookieReturned is inductive only with more: it speaks of the end of *)
(* the way, and what Decode writes depends on every character that Encode  *)
(* wrote and on consume never having passed the cookie.                    *)
CookieInvariant == ListInvariant /\ Written /\ Life

LEMMA CookieInvariantReturned == CookieInvariant => CookieReturned
  <1> SUFFICES ASSUME CookieInvariant PROVE CookieReturned
    OBVIOUS
  <1>1. genuine => parser # "not found"
    BY DEF CookieInvariant, Life, Parsing, Search, ParsingAt
  <1>2. genuine => decoder # "thrown"
    BY DEF CookieInvariant, Life, Reading
  <1>3. genuine /\ decoder = "returned" => decoded = bindata
    BY AllRead DEF CookieInvariant, Life
  <1> QED
    BY <1>1, <1>2, <1>3 DEF CookieReturned

LEMMA SeqSubset ==
    ASSUME NEW S, NEW T, S \subseteq T, NEW s \in Seq(S)
    PROVE  s \in Seq(T)
  <1>1. Len(s) \in Nat /\ s \in [1..Len(s) -> S]
    OBVIOUS
  <1>2. s \in [1..Len(s) -> T]
    BY <1>1
  <1> QED
    BY <1>1, <1>2

\* The jars that a browser sends.
LEMMA SentJars ==
    ASSUME entries \in Lists, NEW b \in Before(entries), NEW a \in After, Written, encoder = "returned"
    PROVE  InJar(b \o Deflect \o <<Equals>> \o retval \o a, b, a)
  <1>1. OtherCookies(b) /\ EndsValue(a)
    BY RequestAssumption, Zenon
  <1>2. b \in Seq(Plain) /\ a \in Seq(1..127)
    BY <1>1 DEF OtherCookies, EndsValue
  <1>3. Plain \subseteq 1..127 /\ NameChars \subseteq 1..127
    BY DEF Plain, NameChars
  <1>4. Deflect \in Seq(NameChars)
    BY RequestAssumption
  <1>5. b \in Seq(1..127) /\ Deflect \in Seq(1..127)
    <2>3. b \in Seq(Plain) /\ Plain \subseteq 1..127
      BY <1>2, <1>3, Zenon
    <2>1. b \in Seq(1..127)
      BY <2>3, SeqSubset, Zenon
    <2>2. Deflect \in Seq(1..127)
      BY <1>3, <1>4, SeqSubset, Zenon
    <2> QED
      BY <2>1, <2>2, Zenon
  <1>6. retval \in Seq(1..127) /\ Equals \in 1..127
    BY TextChars, CharFacts, Zenon
  <1>7. /\ b \o Deflect \o <<Equals>> \o retval \o a \in Seq(1..127)
        /\ Laid(b \o Deflect \o <<Equals>> \o retval \o a, b, a)
    BY <1>2, <1>5, <1>6, JarLaid, Zenon
  <1> QED
    BY <1>1, <1>7, Zenon DEF InJar

\* A turn of check_cookie on such a jar.
LEMMA SearchStep ==
    ASSUME NEW jar, NEW b, NEW a, InJar(jar, b, a), Written, encoder = "returned", retval' = retval,
           Search(jar, b), ParseStep
    PROVE  Search(jar, b)' /\ parser' # "idle"
  <1>1. Len(retval) \in Nat
    BY TextChars
  <1>2. parser \in {"consume", "name", "after name", "value"}
    BY DEF ParseStep, Consume, ConsumeName, ConsumeSeparator, ConsumeValue
  <1>3. PICK p \in 0..Len(jar) : cookie_s = Drop(jar, p) /\ ParsingAt(b, p)
    BY <1>2 DEF Search
  <1>4. Search(jar, b)'
    <2>1. CASE parser = "consume"
      <3>1. AtCookie(b, p) /\ Consume
        BY <1>3, <2>1 DEF ParsingAt, ParseStep, ConsumeName, ConsumeSeparator, ConsumeValue
      <3> QED
        BY <1>1, <1>3, <3>1, ConsumeStep, Zenon
    <2>2. CASE parser = "name"
      <3>1. AtName(b, p) /\ ConsumeName
        BY <1>3, <2>2 DEF ParsingAt, ParseStep, Consume, ConsumeSeparator, ConsumeValue
      <3> QED
        BY <1>1, <1>3, <3>1, ConsumeNameStep, Zenon
    <2>3. CASE parser = "after name"
      <3>1. AfterName(b, p) /\ ConsumeSeparator
        BY <1>3, <2>3 DEF ParsingAt, ParseStep, Consume, ConsumeName, ConsumeValue
      <3> QED
        BY <1>3, <3>1, ConsumeSeparatorStep, Zenon
    <2>4. CASE parser = "value"
      <3>1. AtValue(b, p) /\ ConsumeValue
        BY <1>3, <2>4 DEF ParsingAt, ParseStep, Consume, ConsumeName, ConsumeSeparator
      <3>2. CASE name = Deflect /\ p = Len(b) + Len(Deflect) + 1
        <4>1. parser' = "found" /\ found' = retval
          BY <1>3, <3>1, <3>2, DeflectValueStep, Zenon
        <4> QED
          BY <4>1 DEF Search
      <3>3. CASE /\ name # Deflect /\ p \in 0..Len(b)
                 /\ \E q \in p + 1..Len(b) : b[q] = Semicolon /\ \A i \in p + 1..q - 1 : b[i] # Semicolon
        BY <1>3, <3>1, <3>3, OtherValueStep, Zenon
      <3> QED
        BY <3>1, <3>2, <3>3, Zenon DEF AtValue
    <2> QED
      BY <1>2, <2>1, <2>2, <2>3, <2>4
  <1>5. parser' # "idle"
    BY <1>4 DEF Search, ParsingAt
  <1> QED
    BY <1>4, <1>5

LEMMA ParsingStep ==
    ASSUME entries \in Lists, Written, encoder = "returned", retval' = retval, entries' = entries,
           Parsing, ParseStep
    PROVE  Parsing' /\ parser' # "idle"
  <1>1. PICK b \in Before(entries), a \in After : Search(b \o Deflect \o <<Equals>> \o retval \o a, b)
    BY Zenon DEF Parsing
  <1>2. PICK jar : jar = b \o Deflect \o <<Equals>> \o retval \o a
    OBVIOUS
  <1>3. InJar(jar, b, a)
    BY <1>2, SentJars, Zenon
  <1>4. Search(jar, b)' /\ parser' # "idle"
    BY <1>1, <1>2, <1>3, SearchStep, Zenon
  <1>5. Search(b \o Deflect \o <<Equals>> \o retval \o a, b)' = Search(jar, b)'
    BY <1>2 DEF Search
  <1> QED
    BY <1>1, <1>4, <1>5 DEF Parsing

LEMMA ParsingSame ==
    ASSUME Parsing, UNCHANGED <<entries, retval, cookievars>>
    PROVE  Parsing'
  <1>1. UNCHANGED <<entries, retval, cookie_s, name, found, parser>>
    BY DEF cookievars
  <1>2. \A b, p : AfterName(b, p)' = AfterName(b, p) /\ AtValue(b, p)' = AtValue(b, p)
    BY <1>1 DEF AfterName, AtValue
  <1>3. \A b, p : ParsingAt(b, p)' = ParsingAt(b, p)
    BY <1>1, <1>2 DEF ParsingAt
  <1>4. \A jar, b : Search(jar, b)' = Search(jar, b)
    BY <1>1, <1>3 DEF Search
  <1> QED
    BY <1>1, <1>4 DEF Parsing

LEMMA LifeInit == RequestInit => Life
  BY DEF RequestInit, ListInit, DecodeInit, ParseInit, Life

LEMMA LifeStep == CookieInvariant /\ [RequestNext]_rdvars => Life'
  <1> SUFFICES ASSUME CookieInvariant, [RequestNext]_rdvars PROVE Life'
    OBVIOUS
  <1>0. entries \in Lists /\ Written /\ Life
    BY Zenon DEF CookieInvariant, ListInvariant, ListTyped
  <1>10. /\ lister = "passed on" => encoder = "returned"
         /\ parser # "idle" => lister = "passed on"
         /\ decoder # "idle" => parser = "found"
         /\ decoder = "idle" => DecodeInit
         /\ genuine => parser # "idle" /\ Parsing
         /\ genuine /\ decoder # "idle" => Reading
    BY <1>0, Zenon DEF Life
  <1>1. CASE UNCHANGED rdvars
    <2>1. UNCHANGED <<entries, retval, cookievars>> /\ UNCHANGED encoding
          /\ UNCHANGED <<data, decoded, bits, word, decoder>> /\ UNCHANGED <<lister, encoder, parser, genuine>>
      BY <1>1 DEF rdvars, listvars, b64vars, cookievars, encoding, decoding
    <2>2. Parsing => Parsing'
      BY <2>1, ParsingSame, Zenon
    <2>3. Reading => Reading'
      BY <2>1, ReadingSame DEF Reading
    <2>4. DecodeInit => DecodeInit'
      BY <2>1 DEF DecodeInit
    <2> QED
      BY <1>10, <2>1, <2>2, <2>3, <2>4 DEF Life
  <1>2. CASE Load
    <2>1. /\ lister = "loading" /\ (lister' = lister \/ lister' = "thrown")
          /\ UNCHANGED <<parser, genuine, encoder, data, decoded, bits, word, decoder>>
      BY <1>2 DEF Load, LoadEntry, b64vars, encoding, decoding, cookievars
    <2>2. parser = "idle" /\ decoder = "idle" /\ ~genuine
      BY <1>10, <2>1
    <2> QED
      BY <1>10, <2>1, <2>2 DEF Life, DecodeInit
  <1>3. CASE SetCookie
    <2>1. /\ lister = "loading" /\ lister' = lister
          /\ UNCHANGED <<parser, genuine, data, decoded, bits, word, decoder>>
      BY <1>3 DEF SetCookie, Encode, TakeByte, PutSextet, PutTail, decoding, listvars, cookievars
    <2>2. parser = "idle" /\ decoder = "idle" /\ ~genuine
      BY <1>10, <2>1
    <2> QED
      BY <1>10, <2>1, <2>2 DEF Life, DecodeInit
  <1>4. CASE Request
    <2>1. /\ lister = "loading" /\ encoder = "returned"
          /\ UNCHANGED <<parser, genuine, encoder, data, decoded, bits, word, decoder>>
      BY <1>4 DEF Request, ListRequest, b64vars, encoding, decoding, cookievars
    <2>2. parser = "idle" /\ decoder = "idle" /\ ~genuine
      BY <1>10, <2>1
    <2> QED
      BY <1>10, <2>1, <2>2 DEF Life, DecodeInit
  <1>5. CASE CheckCookie
    <2>1. /\ lister = "passed on" /\ parser = "idle" /\ parser' = "consume"
          /\ UNCHANGED <<lister, entries, encoder, retval, data, decoded, bits, word, decoder>>
      BY <1>5 DEF CheckCookie, ParseCall, listvars, b64vars, encoding, decoding
    <2>2. genuine' => Parsing'
      <3> SUFFICES ASSUME genuine' PROVE Parsing'
        OBVIOUS
      <3>1. PICK b \in Before(entries), a \in After : ParseCall(b \o Deflect \o <<Equals>> \o retval \o a)
        BY <1>5, Zenon DEF CheckCookie
      <3>2. PICK jar : jar = b \o Deflect \o <<Equals>> \o retval \o a
        OBVIOUS
      <3>3. InJar(jar, b, a)
        BY <1>0, <1>10, <2>1, <3>2, SentJars, Zenon
      <3>4. jar \in Seq(1..127) /\ b \in Seq(Plain)
        BY <3>3, Zenon DEF InJar, OtherCookies
      <3>5. cookie_s' = jar
        BY <3>1, <3>2 DEF ParseCall
      <3>8. Drop(jar, 0) = jar /\ 0 \in 0..Len(jar)
        BY <3>4 DEF Drop
      <3>9. AtCookie(b, 0)
        BY <3>4 DEF AtCookie
      <3>6. ParsingAt(b, 0)'
        BY <2>1, <3>9 DEF ParsingAt, AtCookie
      <3>7. Search(b \o Deflect \o <<Equals>> \o retval \o a, b)'
        BY <2>1, <3>2, <3>5, <3>6, <3>8 DEF Search
      <3> QED
        BY <2>1, <3>7 DEF Parsing
    <2>3. decoder = "idle"
      BY <1>10, <2>1
    <2> QED
      BY <1>10, <2>1, <2>2, <2>3 DEF Life, DecodeInit
  <1>6. CASE Parse
    <2>1. /\ ParseStep /\ parser # "found" /\ parser # "idle"
          /\ UNCHANGED <<lister, genuine, entries, encoder, retval, data, decoded, bits, word, decoder>>
      BY <1>6 DEF Parse, ParseStep, Consume, ConsumeName, ConsumeSeparator, ConsumeValue, listvars,
                  b64vars, encoding, decoding
    <2>2. decoder = "idle"
      BY <1>10, <2>1
    <2>3. genuine => Parsing' /\ parser' # "idle"
      BY <1>0, <1>10, <2>1, ParsingStep, Zenon
    <2> QED
      BY <1>10, <2>1, <2>2, <2>3 DEF Life, DecodeInit
  <1>7. CASE DecodeCookie
    <2>1. /\ parser = "found" /\ (DecodeCall(found) \/ Decode)
          /\ UNCHANGED <<entries, lister, cookievars, parser, genuine>>
      BY <1>7 DEF DecodeCookie, listvars, cookievars
    <2>2. UNCHANGED <<encoder, retval>> /\ decoder' # "idle"
      BY <2>1 DEF DecodeCall, Decode, DecodeChar, DecodeReturn, encoding
    <2>3. genuine => Parsing'
      BY <1>10, <2>1, <2>2, ParsingSame
    <2>4. genuine => Reading'
      <3>1. CASE DecodeCall(found)
        <4>1. genuine => found = retval
          BY <1>10, <2>1 DEF Parsing, Search, ParsingAt
        <4>2. DecodeInit /\ encoder = "returned"
          BY <1>10, <2>1, <3>1 DEF DecodeCall
        <4> QED
          BY <1>0, <3>1, <4>1, <4>2, ReadingCall
      <3>2. CASE Decode
        <4>1. decoder # "idle"
          BY <3>2 DEF Decode, DecodeChar, DecodeReturn
        <4> QED
          BY <1>0, <1>10, <3>2, <4>1, ReadingStep
      <3> QED
        BY <2>1, <3>1, <3>2
    <2> QED
      BY <1>10, <2>1, <2>2, <2>3, <2>4 DEF Life
  <1> QED
    BY <1>1, <1>2, <1>3, <1>4, <1>5, <1>6, <1>7 DEF RequestNext

(* A cookie that banjax set comes back to it as it was: check_cookie finds *)
(* it in every jar of well-formed cookies that holds it, whatever stands   *)
(* before and behind it, and Decode gives the bytes that Encode was given. *)
(* For every payload, every name without spaces, ";" and "=", and every    *)
(* accumulator of at least 14 bits (Encode, consume, check_cookie, Decode).*)
THEOREM CookieComesBack == RequestSpec => []CookieReturned
  <1>1. RequestInit => CookieInvariant
    BY ListInvariantInit, WrittenInit, LifeInit DEF CookieInvariant
  <1>2. CookieInvariant /\ [RequestNext]_rdvars => CookieInvariant'
    BY ListInvariantStep, WrittenStep, LifeStep DEF CookieInvariant
  <1> QED
    BY <1>1, <1>2, CookieInvariantReturned, PTL DEF RequestSpec
=============================================================================
