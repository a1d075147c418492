-------------------------------- MODULE Utf8 --------------------------------
(***************************************************************************)
(* support/utf8.cpp: code points from bytes and back.  The masks and       *)
(* shifts of the code are remainders and products of powers of two.        *)
(***************************************************************************)
EXTENDS Integers, SequencesExt

REPLACEMENT_CHARACTER == 65533

isValid(codePoint) ==
    codePoint < 55296 \/ (codePoint > 57343 /\ codePoint <= 1114111)

\* LEADING: the bytes of a sequence that begins with b, 0 if none does.
sizeOf(b) ==
    CASE b \in 0 .. 127   -> 1
      [] b \in 194 .. 223 -> 2
      [] b \in 224 .. 239 -> 3
      [] b \in 240 .. 244 -> 4
      [] OTHER            -> 0

Continuation == 128 .. 191

\* Mutant: surrogates are let through.
ACCEPT_Surrogates(b) ==
    CASE b = 224 -> 160 .. 191
      [] b = 240 -> 144 .. 191
      [] b = 244 -> 128 .. 143
      [] OTHER   -> Continuation

\* ACCEPT: the second bytes that may come after b.
ACCEPT(b) ==
    CASE b = 224 -> 160 .. 191
      [] b = 237 -> 128 .. 159
      [] b = 240 -> 144 .. 191
      [] b = 244 -> 128 .. 143
      [] OTHER   -> Continuation

\* MASK2 to MASK4 keep these low bits of the first byte of a sequence.
lead(bytes) == bytes[1] % <<128, 32, 16, 8>>[Len(bytes)]

\* The six bits of b behind the others.
Joined(value, b) == value * 64 + (b % 64)

\* The value of the bits a sequence of one to four bytes carries.
bits(bytes) ==
    LET two == Joined(lead(bytes), bytes[2])
        three == Joined(two, bytes[3])
    IN CASE Len(bytes) = 1 -> lead(bytes)
         [] Len(bytes) = 2 -> two
         [] Len(bytes) = 3 -> three
         [] Len(bytes) = 4 -> Joined(three, bytes[4])

Replaced == [codePoint |-> REPLACEMENT_CHARACTER, codeUnits |-> 1]

\* The first code point, and the bytes it takes; what is no sequence is
\* replaced byte by byte.
decode(input) ==
    LET b == Head(input)
        n == sizeOf(b)
    IN IF /\ n \in 1 .. Len(input)
          /\ n >= 2 => input[2] \in ACCEPT(b)
          /\ \A k \in 3 .. n : input[k] \in Continuation
         THEN [codePoint |-> bits(SubSeq(input, 1, n)), codeUnits |-> n]
         ELSE Replaced

\* The loop of both decoders, from each index on.
decoding(input) ==
    LET from[index \in 1 .. Len(input) + 1] ==
          IF index > Len(input) THEN <<>>
          ELSE LET next == decode(SubSeq(input, index, Len(input)))
               IN <<next>> \o from[index + next.codeUnits]
    IN from

decodedAll(input) == decoding(input)[1]

codePoints(decoded) == [k \in DOMAIN decoded |-> decoded[k].codePoint]

lenientDecode(input) == codePoints(decodedAll(input))

\* strictDecode has no value: a byte was replaced.
Illegal(input) == Replaced \in ToSet(decodedAll(input))

encode(given) ==
    LET codePoint == IF isValid(given) THEN given ELSE REPLACEMENT_CHARACTER
        trailing(shift) == 128 + ((codePoint \div shift) % 64)
    IN IF codePoint <= 127 THEN <<codePoint>>
       ELSE IF codePoint <= 2047 THEN <<192 + (codePoint \div 64), trailing(1)>>
       ELSE IF codePoint <= 65535
         THEN <<224 + (codePoint \div 4096), trailing(64), trailing(1)>>
       ELSE <<240 + (codePoint \div 262144), trailing(4096), trailing(64), trailing(1)>>

\* The loop of lenientEncode: its output after each number of code points.
encoding(input) ==
    LET upTo[n \in 0 .. Len(input)] ==
          IF n = 0 THEN <<>> ELSE upTo[n - 1] \o encode(input[n])
    IN upTo

lenientEncode(input) == encoding(input)[Len(input)]
=============================================================================
