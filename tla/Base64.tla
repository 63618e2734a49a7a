------------------------------- MODULE Base64 -------------------------------
(***************************************************************************)
(* Base64::Encode and Base64::Decode (base64.cpp), one turn of a loop per  *)
(* step.  Characters are their ASCII codes.  The accumulator is a word of  *)
(* Width bits that is shifted without ever being cleared, so its high bits *)
(* are lost; in the code Width is 32.                                      *)
(***************************************************************************)
EXTENDS Integers, Sequences

CONSTANT Width

\* The last two conjuncts say of 2^Width what holds for every such width.
ASSUME WidthAssumption ==
    Width \in Nat /\ Width >= 14 /\ 2^Width \in Nat \ {0} /\ 2^Width % 2^14 = 0

VARIABLES
    bindata,      \* what is encoded
    taken,        \* how many of its bytes the loop has taken
    retval,       \* the encoded text, padded from the start
    outpos,       \* how much of it has been written
    bits_collected, accumulator,   \* its locals
    encoder,      \* where Encode is
    data,         \* what Decode still has to read
    decoded,      \* what it has written
    bits, word,   \* its bits_collected and accumulator
    decoder       \* where Decode is

encoding == <<bindata, taken, retval, outpos, bits_collected, accumulator, encoder>>
decoding == <<data, decoded, bits, word, decoder>>
b64vars == <<encoding, decoding>>

Pad == 61
\* "A..Za..z0..9+/"
b64_table(n) ==
    CASE n <= 25           -> 65 + n
      [] n \in 26..51      -> 97 + n - 26
      [] n \in 52..61      -> 48 + n - 52
      [] n = 62            -> 43
      [] OTHER             -> 47
reverse_table(c) ==
    CASE c \in 65..90      -> c - 65
      [] c \in 97..122     -> c - 71
      [] c \in 48..57      -> c + 4
      [] c = 43            -> 62
      [] c = 47            -> 63
      [] OTHER             -> 64

ShiftLeft(x, n) == (x * 2^n) % 2^Width
ShiftRight(x, n) == x \div 2^n

EncodedSizeDown(binlen) == (binlen \div 3) * 4
EncodedSize(binlen) == ((binlen + 2) \div 3) * 4

EncodeInit(bytes) ==
    /\ bindata = bytes /\ taken = 0
    /\ retval = [i \in 1..EncodedSize(Len(bytes)) |-> Pad]
    /\ outpos = 0 /\ bits_collected = 0 /\ accumulator = 0
    /\ encoder = "loop"
DecodeInit == data = << >> /\ decoded = << >> /\ bits = 0 /\ word = 0 /\ decoder = "idle"

\* The outer loop takes a byte ...
TakeByte ==
    /\ encoder = "loop" /\ bits_collected < 6 /\ taken < Len(bindata)
    /\ accumulator' = ShiftLeft(accumulator, 8) + bindata[taken + 1]
    /\ bits_collected' = bits_collected + 8
    /\ taken' = taken + 1
    /\ UNCHANGED <<bindata, retval, outpos, encoder, decoding>>

Put(c) == retval' = [retval EXCEPT ![outpos + 1] = c] /\ outpos' = outpos + 1

\* ... and the inner one writes six bits at a time.
PutSextet ==
    /\ encoder = "loop" /\ bits_collected >= 6
    /\ bits_collected' = bits_collected - 6
    /\ Put(b64_table(ShiftRight(accumulator, bits_collected - 6) % 64))
    /\ UNCHANGED <<bindata, taken, encoder, accumulator, decoding>>

\* Trailing bits that are missing.
PutTail ==
    /\ encoder = "loop" /\ bits_collected < 6 /\ taken = Len(bindata)
    /\ encoder' = "returned"
    /\ IF bits_collected > 0
       THEN Put(b64_table(ShiftLeft(accumulator, 6 - bits_collected) % 64))
       ELSE UNCHANGED <<retval, outpos>>
    /\ UNCHANGED <<bindata, taken, bits_collected, accumulator, decoding>>

Encode == TakeByte \/ PutSextet \/ PutTail

-----------------------------------------------------------------------------
DecodeCall(text) ==
    /\ decoder = "idle"
    /\ data' = text /\ decoder' = "loop"
    /\ UNCHANGED <<decoded, bits, word, encoding>>

Skipped(c) == c \in 9..13 \cup {32, Pad}

\* A byte is complete.
CompleteLate(n) == n > 8
Complete(n) == n >= 8

\* One turn of the loop; a character out of the alphabet throws.
DecodeChar ==
    /\ decoder = "loop" /\ data # << >>
    /\ LET c == Head(data)
           sextet == reverse_table(c)
       IN  \/ /\ Skipped(c) /\ data' = Tail(data)
              /\ UNCHANGED <<decoded, decoder, bits, word>>
           \/ /\ ~Skipped(c) /\ sextet > 63 /\ decoder' = "thrown"
              /\ UNCHANGED <<data, decoded, bits, word>>
           \/ /\ ~Skipped(c) /\ sextet <= 63
              /\ data' = Tail(data) /\ word' = ShiftLeft(word, 6) + sextet
              /\ bits' = IF Complete(bits + 6) THEN bits + 6 - 8 ELSE bits + 6
              /\ decoded' = IF Complete(bits + 6)
                            THEN Append(decoded, ShiftRight(word', bits') % 256) ELSE decoded
              /\ UNCHANGED decoder
    /\ UNCHANGED encoding

DecodeReturn ==
    /\ decoder = "loop" /\ data = << >> /\ decoder' = "returned"
    /\ UNCHANGED <<encoding, data, decoded, bits, word>>

Decode == DecodeChar \/ DecodeReturn

-----------------------------------------------------------------------------
(* The assertions of Encode (base64.cpp:49 and 54) hold, and nothing is     *)
(* written behind the end of the text, for any number of bytes.             *)
EncodeInBounds ==
    /\ outpos <= Len(retval)
    /\ encoder = "loop" /\ bits_collected >= 6 => outpos < Len(retval)
    /\ encoder = "loop" /\ taken = Len(bindata) /\ bits_collected \in 1..5 => outpos < Len(retval)
    /\ encoder = "returned" => bits_collected < 6 /\ Len(retval) - outpos \in 0..2
=============================================================================
