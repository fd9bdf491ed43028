------------------------------ MODULE Encoding ------------------------------
(***************************************************************************)
(* The encodings of simple-ipc (simple-ipc/src/common/encoding/): how a    *)
(* message becomes bytes, and how its end is found in the bytes that have  *)
(* been received.  "json" ends a message with a newline, "json_cbor" puts  *)
(* its length in front of it.                                              *)
(*                                                                         *)
(* A message is its body, the bytes that the JSON library makes of it.     *)
(* Bytes are small numbers: what counts is whether a byte is the newline,  *)
(* and, in a length, whether it is the last one.                           *)
(*                                                                         *)
(* What is received need not come from send_json(): a length may have more *)
(* digits than an int takes, and its sum with its own size may wrap.       *)
(***************************************************************************)
EXTENDS Naturals, Sequences

CONSTANTS
    Base,           \* 128 in the code: the values of a byte of a length
    Hello,          \* the body of the message .hello
    Bodies,         \* the bodies of the other messages
    Digits,         \* 4 in the code: digits whose shifts an int holds
    Overflown(_),   \* what the shifts of more digits make: undefined, but
                    \* always the same in one build
    SizeValues      \* 2^64, or 2^32: the number of values of a size_t

ASSUME BaseAssumption == Base \in Nat /\ Base > 1

Byte == 0..2 * Base - 1
Newline == 0

\* dump() writes a newline within a string as an escape sequence.
ASSUME BodiesAssumption ==
    /\ Hello \in Seq(Byte \ {Newline}) /\ Hello # <<>>
    /\ Bodies \subseteq Seq(Byte \ {Newline}) \ {<<>>, Hello}
    \* three bytes hold a length, in the code 2^21 and the buffer 2^19
    /\ \A b \in Bodies \cup {Hello} : Len(b) < Base * Base * Base

Least(S) == CHOOSE i \in S : \A j \in S : i <= j

Encodings == {"json", "json_cbor"}
ParseError == <<>>

\* varint::encode_unsigned(): a length of one, two or three bytes.
EncodeUnsigned(n) ==
    LET low == n % Base
        rest == n \div Base
    IN  IF n < Base THEN <<n>>
        ELSE IF rest < Base THEN <<Base + low, rest>>
        ELSE <<Base + low, Base + (rest % Base), rest \div Base>>

ASSUME WidthAssumption ==
    /\ Digits \in Nat /\ SizeValues \in Nat
    /\ \A b \in Bodies \cup {Hello} :
          Len(EncodeUnsigned(Len(b))) <= Digits /\ Len(b) + 3 < SizeValues

\* varint::try_decode_unsigned(): the length of the number at the beginning of
\* s, 0 when its last byte is not there, and its value.
VarintSize(s) ==
    LET ends == {i \in 1..Len(s) : i <= 9 /\ s[i] < Base}
    IN  IF ends = {} THEN 0 ELSE Least(ends)

\* The number that no more than Digits bytes make, the lowest digit first.
NumberIn(d) ==
    LET from[i \in 1..Len(d) + 1] ==
            IF i > Len(d) THEN 0 ELSE (d[i] % Base) + Base * from[i + 1]
    IN  from[1]

VarintValue(s) ==
    LET n == VarintSize(s)
        d == SubSeq(s, 1, n)
    IN  IF n <= Digits THEN NumberIn(d) ELSE Overflown(d)

\* The two pieces in which send_json() writes a message.
FirstPart(enc, body) ==
    IF enc = "json" THEN body ELSE EncodeUnsigned(Len(body))
SecondPart(enc, body) == IF enc = "json" THEN <<Newline>> ELSE body

\* total_size of a json_cbor message
Total(s) == (VarintSize(s) + VarintValue(s)) % SizeValues

\* check_read_message_complete() when it returns a positive number, else 0.
\* In s, the bytes up to lastRead have been looked at before.
CompleteLength(enc, s, lastRead) ==
    IF enc = "json"
    THEN LET ends == {i \in lastRead + 1..Len(s) : s[i] = Newline}
         IN  IF ends = {} THEN 0 ELSE Least(ends)
    ELSE LET total == Total(s)
         IN  IF VarintSize(s) > 0 /\ total \in 1..Len(s) THEN total ELSE 0

\* Whether it then returns 0, and not -1: the sum has wrapped to nothing.
Empty(enc, s) == enc # "json" /\ VarintSize(s) > 0 /\ Total(s) = 0

\* read_message() of a complete message.  What is no body is a parse error,
\* and so is a message that ends, its total having wrapped, within its length.
ReadMessage(enc, s) ==
    LET body == IF enc = "json" THEN SubSeq(s, 1, Len(s) - 1)
                ELSE SubSeq(s, VarintSize(s) + 1, Len(s))
        cut == enc # "json" /\ VarintSize(s) = 0
    IN  IF ~cut /\ body \in Bodies \cup {Hello} THEN body ELSE ParseError
=============================================================================
