------------------------- MODULE InputStreamProofs -------------------------
(***************************************************************************)
(* What the decoders and the encoder do with every sequence of bytes, and  *)
(* that a stream is a tape whatever files it loads.                        *)
(***************************************************************************)
EXTENDS InputStream, SequenceTheorems, WellFoundedInduction, TLAPS

Byte == 0 .. 255

-----------------------------------------------------------------------------
\* One sequence of bytes.  A second byte is the boundary of what the first one
\* can begin; all others have six free bits.
LEMMA SecondByte ==
    ASSUME NEW a \in Byte, NEW b \in Int
    PROVE  b \in ACCEPT(a) <=> /\ b \in Continuation
                               /\ a = 224 => b >= 160
                               /\ a = 237 => b < 160
                               /\ a = 240 => b >= 144
                               /\ a = 244 => b < 144
<1>1. CASE a = 224
  <2> ACCEPT(a) = 160 .. 191
    BY <1>1 DEF ACCEPT
  <2> QED
    BY <1>1 DEF Continuation
<1>2. CASE a = 237
  <2> ACCEPT(a) = 128 .. 159
    BY <1>2 DEF ACCEPT
  <2> QED
    BY <1>2 DEF Continuation
<1>3. CASE a = 240
  <2> ACCEPT(a) = 144 .. 191
    BY <1>3 DEF ACCEPT
  <2> QED
    BY <1>3 DEF Continuation
<1>4. CASE a = 244
  <2> ACCEPT(a) = 128 .. 143
    BY <1>4 DEF ACCEPT
  <2> QED
    BY <1>4 DEF Continuation
<1>5. CASE a \notin {224, 237, 240, 244}
  <2> ACCEPT(a) = Continuation
    BY <1>5 DEF ACCEPT
  <2> QED
    BY <1>5
<1> QED
  BY <1>1, <1>2, <1>3, <1>4, <1>5

LEMMA TwoBytes ==
    ASSUME NEW a \in 192 .. 223, NEW b \in Continuation, NEW v \in Int,
           v = Joined(a % 32, b)
    PROVE  /\ v \in Nat /\ v <= 2047
           /\ v >= 128 <=> a >= 194
           /\ 192 + (v \div 64) = a
           /\ 128 + ((v \div 1) % 64) = b
<1>1. a % 32 = a - 192 /\ b % 64 = b - 128
  BY DEF Continuation
<1>2. v = (a - 192) * 64 + (b - 128)
  BY <1>1 DEF Joined
<1>3. v \div 64 = a - 192 /\ v \div 1 = v /\ v % 64 = b - 128
  BY <1>2 DEF Continuation
<1> QED
  BY <1>2, <1>3 DEF Continuation

LEMMA ThreeBytes ==
    ASSUME NEW a \in 224 .. 239, NEW b \in Continuation, NEW c \in Continuation,
           NEW v \in Int, v = Joined(Joined(a % 16, b), c)
    PROVE  /\ v \in Nat /\ v <= 65535
           /\ v >= 2048 /\ isValid(v) <=> b \in ACCEPT(a)
           /\ 224 + (v \div 4096) = a
           /\ 128 + ((v \div 64) % 64) = b
           /\ 128 + ((v \div 1) % 64) = c
<1>1. a % 16 = a - 224 /\ b % 64 = b - 128 /\ c % 64 = c - 128
  BY DEF Continuation
<1> DEFINE u == (a - 224) * 64 + (b - 128)
<1>2. v = u * 64 + (c - 128)
  BY <1>1 DEF Joined
<1>3. v \div 4096 = a - 224
  BY <1>2 DEF Continuation
<1>4. v \div 64 = u /\ v \div 1 = v
  BY <1>2 DEF Continuation
<1>5. u % 64 = b - 128 /\ v % 64 = c - 128
  BY <1>2 DEF Continuation
<1>6. v >= 2048 /\ isValid(v) <=> b \in ACCEPT(a)
  <2>1. b \in ACCEPT(a) <=> (a = 224 => b >= 160) /\ (a = 237 => b < 160)
    BY SecondByte DEF Byte, Continuation
  <2> QED
    BY <1>2, <2>1, SMT DEF Continuation, isValid
<1>7. v \in Nat /\ v <= 65535
  BY <1>2, SMT DEF Continuation
<1> HIDE DEF u
<1> QED
  BY <1>3, <1>4, <1>5, <1>6, <1>7, SMT DEF Continuation

LEMMA FourBytes ==
    ASSUME NEW a \in 240 .. 247, NEW b \in Continuation, NEW c \in Continuation,
           NEW d \in Continuation, NEW v \in Int,
           v = Joined(Joined(Joined(a % 8, b), c), d)
    PROVE  /\ v \in Nat
           /\ v >= 65536 /\ isValid(v) <=> a \in 240 .. 244 /\ b \in ACCEPT(a)
           /\ 240 + (v \div 262144) = a
           /\ 128 + ((v \div 4096) % 64) = b
           /\ 128 + ((v \div 64) % 64) = c
           /\ 128 + ((v \div 1) % 64) = d
<1>1. a % 8 = a - 240 /\ b % 64 = b - 128 /\ c % 64 = c - 128 /\ d % 64 = d - 128
  BY DEF Continuation
<1> DEFINE u == (a - 240) * 64 + (b - 128)
           w == u * 64 + (c - 128)
<1>2. v = w * 64 + (d - 128)
  BY <1>1 DEF Joined
<1>3. v \div 262144 = a - 240 /\ v \div 4096 = u
  BY <1>2, SMT DEF Continuation
<1>4. v \div 64 = w /\ v \div 1 = v
  BY <1>2 DEF Continuation
<1>5. u % 64 = b - 128 /\ w % 64 = c - 128 /\ v % 64 = d - 128
  BY <1>2 DEF Continuation
<1>6. v >= 65536 /\ isValid(v) <=> a \in 240 .. 244 /\ b \in ACCEPT(a)
  <2>1. v >= 65536 <=> a > 240 \/ b >= 144
    BY <1>2, SMT DEF Continuation
  <2>2. v <= 1114111 <=> a < 244 \/ (a = 244 /\ b < 144)
    BY <1>2, SMT DEF Continuation
  <2>3. v >= 65536 => (isValid(v) <=> v <= 1114111)
    BY <1>2, SMT DEF isValid, Continuation
  <2>4. b \in ACCEPT(a) <=> (a = 240 => b >= 144) /\ (a = 244 => b < 144)
    BY SecondByte DEF Byte, Continuation
  <2> QED
    BY <2>1, <2>2, <2>3, <2>4, SMT DEF Continuation
<1>7. v \in Nat
  BY <1>2 DEF Continuation
<1> HIDE DEF u, w
<1>8. u % 64 = b - 128 /\ w % 64 = c - 128
  BY <1>5
<1> QED
  BY <1>3, <1>4, <1>5, <1>6, <1>7, SMT DEF Continuation

-----------------------------------------------------------------------------
\* What decode asks of a sequence of bytes is what UTF-8 asks of it.
Taken(t) == /\ sizeOf(t[1]) = Len(t)
            /\ Len(t) >= 2 => t[2] \in ACCEPT(t[1])
            /\ \A k \in 3 .. Len(t) : t[k] \in Continuation

LEMMA SizeOf ==
    ASSUME NEW a \in Byte
    PROVE  /\ sizeOf(a) = 1 <=> a \in 0 .. 127
           /\ sizeOf(a) = 2 <=> a \in 194 .. 223
           /\ sizeOf(a) = 3 <=> a \in 224 .. 239
           /\ sizeOf(a) = 4 <=> a \in 240 .. 244
           /\ sizeOf(a) \in 0 .. 4
<1>1. CASE a \in 0 .. 127
  BY <1>1 DEF sizeOf
<1>2. CASE a \in 194 .. 223
  BY <1>2 DEF sizeOf
<1>3. CASE a \in 224 .. 239
  BY <1>3 DEF sizeOf
<1>4. CASE a \in 240 .. 244
  BY <1>4 DEF sizeOf
<1>5. CASE a \notin (0 .. 127) \cup (194 .. 223) \cup (224 .. 239) \cup (240 .. 244)
  BY <1>5 DEF sizeOf, Byte
<1> QED
  BY <1>1, <1>2, <1>3, <1>4, <1>5

LEMMA EncodeValid ==
    ASSUME NEW v \in Nat, isValid(v)
    PROVE  encode(v) =
             IF v <= 127 THEN <<v>>
             ELSE IF v <= 2047 THEN <<192 + (v \div 64), 128 + ((v \div 1) % 64)>>
             ELSE IF v <= 65535
               THEN <<224 + (v \div 4096), 128 + ((v \div 64) % 64),
                      128 + ((v \div 1) % 64)>>
             ELSE <<240 + (v \div 262144), 128 + ((v \div 4096) % 64),
                    128 + ((v \div 64) % 64), 128 + ((v \div 1) % 64)>>
  BY SMT DEF encode

LEMMA SmallIsValid ==
    ASSUME NEW v \in Nat, v <= 2047
    PROVE  isValid(v)
  BY SMT DEF isValid

LEMMA OneByteSequence ==
    ASSUME NEW t, NEW a \in Byte,
           t = <<a>>
    PROVE  /\ IsSequence(t) <=> Taken(t)
           /\ IsSequence(t) => /\ bits(t) \in Nat /\ isValid(bits(t))
                               /\ encode(bits(t)) = t
<1>1. bits(t) = a % 128
  BY DEF bits, lead
<1>2. IsSequence(t) <=> a \in 0 .. 127 /\ bits(t) >= 0 /\ isValid(bits(t))
  BY DEF IsSequence
<1>3. Taken(t) <=> a \in 0 .. 127
  BY SizeOf DEF Taken
<1>4. ASSUME a \in 0 .. 127
      PROVE  /\ bits(t) = a /\ bits(t) \in Nat /\ isValid(bits(t))
             /\ encode(bits(t)) = t
  <2>1. bits(t) = a
    BY <1>1, <1>4 DEF Byte
  <2>2. isValid(a)
    BY <1>4, SmallIsValid
  <2>3. encode(a) = <<a>>
    BY <1>4, <2>2, EncodeValid
  <2> QED
    BY <1>4, <2>1, <2>2, <2>3
<1> QED
  BY <1>2, <1>3, <1>4

LEMMA TwoByteSequence ==
    ASSUME NEW t, NEW a \in Byte, NEW b \in Byte,
           t = <<a, b>>
    PROVE  /\ IsSequence(t) <=> Taken(t)
           /\ IsSequence(t) => /\ bits(t) \in Nat /\ isValid(bits(t))
                               /\ encode(bits(t)) = t
<1> DEFINE v == bits(t)
<1>1. v = Joined(a % 32, b) /\ v \in Int
  <2>1. v = Joined(a % 32, b)
    BY DEF bits, lead
  <2> QED
    BY <2>1 DEF Joined, Byte
<1>2. IsSequence(t) <=> /\ a \in 192 .. 223 /\ b \in Continuation
                        /\ v >= 128 /\ isValid(v)
  BY DEF IsSequence
<1>3. Taken(t) <=> a \in 194 .. 223 /\ b \in Continuation
  <2>1. Taken(t) <=> a \in 194 .. 223 /\ b \in ACCEPT(a)
    BY SizeOf DEF Taken
  <2>2. ASSUME a \in 194 .. 223
        PROVE  b \in ACCEPT(a) <=> b \in Continuation
    BY <2>2, SecondByte DEF Byte
  <2> QED
    BY <2>1, <2>2
<1> HIDE DEF v
<1>4. ASSUME a \in 192 .. 223, b \in Continuation
      PROVE  /\ v \in Nat /\ v <= 2047
             /\ v >= 128 <=> a >= 194
             /\ 192 + (v \div 64) = a
             /\ 128 + ((v \div 1) % 64) = b
  BY <1>1, <1>4, TwoBytes
<1>5. ASSUME v \in Nat, v <= 2047
      PROVE  isValid(v)
  BY <1>5, SmallIsValid
<1>6. ASSUME v \in Nat, v <= 2047, v >= 128
      PROVE  encode(v) = <<192 + (v \div 64), 128 + ((v \div 1) % 64)>>
  BY <1>5, <1>6, EncodeValid
<1>7. IsSequence(t) <=> Taken(t)
  BY <1>2, <1>3, <1>4, <1>5 DEF Byte
<1>8. IsSequence(t) => v \in Nat /\ isValid(v) /\ encode(v) = t
  BY <1>2, <1>4, <1>6
<1> QED
  BY <1>7, <1>8 DEF v

LEMMA ThreeByteSequence ==
    ASSUME NEW t, NEW a \in Byte, NEW b \in Byte, NEW c \in Byte,
           t = <<a, b, c>>
    PROVE  /\ IsSequence(t) <=> Taken(t)
           /\ IsSequence(t) => /\ bits(t) \in Nat /\ isValid(bits(t))
                               /\ encode(bits(t)) = t
<1> DEFINE v == bits(t)
<1>1. v = Joined(Joined(a % 16, b), c) /\ v \in Int
  <2>1. v = Joined(Joined(a % 16, b), c)
    BY DEF bits, lead
  <2> QED
    BY <2>1 DEF Joined, Byte
<1>2. IsSequence(t) <=> /\ a \in 224 .. 239
                        /\ b \in Continuation /\ c \in Continuation
                        /\ v >= 2048 /\ isValid(v)
  BY DEF IsSequence
<1>3. Taken(t) <=> /\ a \in 224 .. 239 /\ b \in ACCEPT(a)
                   /\ b \in Continuation /\ c \in Continuation
  <2>1. Taken(t) <=> /\ a \in 224 .. 239 /\ b \in ACCEPT(a)
                     /\ c \in Continuation
    BY SizeOf DEF Taken
  <2>2. b \in ACCEPT(a) => b \in Continuation
    BY SecondByte DEF Byte
  <2> QED
    BY <2>1, <2>2
<1> HIDE DEF v
<1>4. ASSUME a \in 224 .. 239, b \in Continuation, c \in Continuation
      PROVE  /\ v \in Nat /\ v <= 65535
             /\ v >= 2048 /\ isValid(v) <=> b \in ACCEPT(a)
             /\ 224 + (v \div 4096) = a
             /\ 128 + ((v \div 64) % 64) = b
             /\ 128 + ((v \div 1) % 64) = c
  BY <1>1, <1>4, ThreeBytes, SMTT(60)
<1>5. ASSUME v \in Nat, v <= 65535, v >= 2048, isValid(v)
      PROVE  encode(v) = <<224 + (v \div 4096), 128 + ((v \div 64) % 64),
                           128 + ((v \div 1) % 64)>>
  BY <1>5, EncodeValid, SMT
<1>6. IsSequence(t) <=> Taken(t)
  BY <1>2, <1>3, <1>4, SMT
<1>7. IsSequence(t) => v \in Nat /\ isValid(v) /\ encode(v) = t
  BY <1>2, <1>4, <1>5, SMT
<1> QED
  BY <1>6, <1>7 DEF v

LEMMA FourByteSequence ==
    ASSUME NEW t, NEW a \in Byte, NEW b \in Byte, NEW c \in Byte, NEW d \in Byte,
           t = <<a, b, c, d>>
    PROVE  /\ IsSequence(t) <=> Taken(t)
           /\ IsSequence(t) => /\ bits(t) \in Nat /\ isValid(bits(t))
                               /\ encode(bits(t)) = t
<1> DEFINE v == bits(t)
<1>1. v = Joined(Joined(Joined(a % 8, b), c), d) /\ v \in Int
  <2>1. v = Joined(Joined(Joined(a % 8, b), c), d)
    BY DEF bits, lead
  <2> QED
    BY <2>1 DEF Joined, Byte
<1>2. IsSequence(t) <=> /\ a \in 240 .. 247 /\ b \in Continuation
                        /\ c \in Continuation /\ d \in Continuation
                        /\ v >= 65536 /\ isValid(v)
  BY SMT DEF IsSequence
<1>3. Taken(t) <=> /\ a \in 240 .. 244 /\ b \in ACCEPT(a)
                   /\ b \in Continuation /\ c \in Continuation
                   /\ d \in Continuation
  <2>1. Taken(t) <=> /\ a \in 240 .. 244 /\ b \in ACCEPT(a)
                     /\ c \in Continuation /\ d \in Continuation
    BY SizeOf DEF Taken
  <2>2. b \in ACCEPT(a) => b \in Continuation
    BY SecondByte DEF Byte
  <2> QED
    BY <2>1, <2>2
<1> HIDE DEF v
<1>4. ASSUME a \in 240 .. 247, b \in Continuation,
             c \in Continuation, d \in Continuation
      PROVE  /\ v \in Nat
             /\ v >= 65536 /\ isValid(v) <=> a \in 240 .. 244 /\ b \in ACCEPT(a)
             /\ 240 + (v \div 262144) = a
             /\ 128 + ((v \div 4096) % 64) = b
             /\ 128 + ((v \div 64) % 64) = c
             /\ 128 + ((v \div 1) % 64) = d
  BY <1>1, <1>4, FourBytes, SMTT(60)
<1>5. ASSUME v \in Nat, v >= 65536, isValid(v)
      PROVE  encode(v) = <<240 + (v \div 262144), 128 + ((v \div 4096) % 64),
                           128 + ((v \div 64) % 64), 128 + ((v \div 1) % 64)>>
  BY <1>5, EncodeValid, SMT
<1>6. IsSequence(t) <=> Taken(t)
  BY <1>2, <1>3, <1>4, SMT
<1>7. IsSequence(t) => v \in Nat /\ isValid(v) /\ encode(v) = t
  BY <1>2, <1>4, <1>5, SMT
<1> QED
  BY <1>6, <1>7 DEF v

LEMMA SequencesAreTaken ==
    ASSUME NEW t \in Seq(Byte), Len(t) \in 1 .. 4
    PROVE  /\ IsSequence(t) <=> Taken(t)
           /\ IsSequence(t) => /\ bits(t) \in Nat /\ isValid(bits(t))
                               /\ encode(bits(t)) = t
<1> \A k \in 1 .. Len(t) : t[k] \in Byte
  BY ElementOfSeq
<1>1. CASE Len(t) = 1
  <2>1. t[1] \in Byte /\ t = <<t[1]>>
    BY <1>1
  <2> QED
    BY <2>1, OneByteSequence
<1>2. CASE Len(t) = 2
  <2>1. t[1] \in Byte /\ t[2] \in Byte
    BY <1>2
  <2>2. t = <<t[1], t[2]>>
    BY <1>2, <2>1
  <2> QED
    BY <2>1, <2>2, TwoByteSequence
<1>3. CASE Len(t) = 3
  <2>1. t[1] \in Byte /\ t[2] \in Byte /\ t[3] \in Byte
    BY <1>3
  <2>2. t = <<t[1], t[2], t[3]>>
    BY <1>3, <2>1
  <2> QED
    BY <2>1, <2>2, ThreeByteSequence
<1>4. CASE Len(t) = 4
  <2>1. t[1] \in Byte /\ t[2] \in Byte /\ t[3] \in Byte /\ t[4] \in Byte
    BY <1>4
  <2>2. t = <<t[1], t[2], t[3], t[4]>>
    BY <1>4, <2>1
  <2> QED
    BY <2>1, <2>2, FourByteSequence
<1> QED
  BY <1>1, <1>2, <1>3, <1>4

LEMMA DecodeSequence ==
    ASSUME NEW r \in Seq(Byte), NEW n \in 1 .. 4, n <= Len(r)
    PROVE  IsSequence(SubSeq(r, 1, n)) <=>
             /\ sizeOf(r[1]) = n
             /\ n >= 2 => r[2] \in ACCEPT(r[1])
             /\ \A k \in 3 .. n : r[k] \in Continuation
<1> DEFINE t == SubSeq(r, 1, n)
<1>1. /\ t \in Seq(Byte) /\ Len(t) = n
      /\ \A k \in 1 .. n : t[k] = r[k]
  BY SubSeqProperties
<1>2. IsSequence(t) <=> Taken(t)
  BY <1>1, SequencesAreTaken
<1> HIDE DEF t
<1>3. t[1] = r[1] /\ (n >= 2 => t[2] = r[2]) /\ \A k \in 3 .. n : t[k] = r[k]
  BY <1>1
<1>4. Taken(t) <=> /\ sizeOf(r[1]) = n
                   /\ n >= 2 => r[2] \in ACCEPT(r[1])
                   /\ \A k \in 3 .. n : r[k] \in Continuation
  BY <1>1, <1>3 DEF Taken
<1> QED
  BY <1>2, <1>4 DEF t

\* The first bytes of a sequence of bytes are decoded if they are a sequence of
\* UTF-8, and otherwise the first one is replaced.
LEMMA DecodeIs ==
    ASSUME NEW r \in Seq(Byte), Len(r) > 0
    PROVE  LET n == sizeOf(r[1])
           IN decode(r) = IF n \in 1 .. Len(r) /\ IsSequence(SubSeq(r, 1, n))
                          THEN [codePoint |-> bits(SubSeq(r, 1, n)), codeUnits |-> n]
                          ELSE Replaced
<1> DEFINE n == sizeOf(r[1])
<1>1. Head(r) = r[1] /\ r[1] \in Byte
  BY HeadTailProperties, ElementOfSeq
<1>2. n \in 0 .. 4
  BY <1>1, SizeOf
<1>3. decode(r) = IF /\ n \in 1 .. Len(r)
                     /\ n >= 2 => r[2] \in ACCEPT(r[1])
                     /\ \A k \in 3 .. n : r[k] \in Continuation
                  THEN [codePoint |-> bits(SubSeq(r, 1, n)), codeUnits |-> n]
                  ELSE Replaced
  BY <1>1, Zenon DEF decode
<1>4. n \in 1 .. Len(r) =>
        (IsSequence(SubSeq(r, 1, n)) <=>
           /\ n >= 2 => r[2] \in ACCEPT(r[1])
           /\ \A k \in 3 .. n : r[k] \in Continuation)
  BY <1>2, DecodeSequence
<1> QED
  BY <1>3, <1>4, Zenon

LEMMA DecodeFinds ==
    ASSUME NEW r \in Seq(Byte), NEW n \in 1 .. 4, n <= Len(r),
           IsSequence(SubSeq(r, 1, n))
    PROVE  decode(r) = [codePoint |-> bits(SubSeq(r, 1, n)), codeUnits |-> n]
<1>1. sizeOf(r[1]) = n
  BY DecodeSequence
<1>2. n \in 1 .. Len(r) /\ Len(r) > 0
  OBVIOUS
<1> QED
  BY <1>1, <1>2, DecodeIs

Valid == {c \in Nat : isValid(c)}
Item == [codePoint : Valid, codeUnits : 1 .. 4]

LEMMA ReplacedIsItem == Replaced \in Item /\ Replaced.codeUnits = 1
<1>1. 65533 \in Nat /\ isValid(65533)
  BY SMT DEF isValid
<1> QED
  BY <1>1, SMT DEF Item, Valid, Replaced, REPLACEMENT_CHARACTER

LEMMA DecodeTypes ==
    ASSUME NEW r \in Seq(Byte), Len(r) > 0
    PROVE  /\ decode(r) \in Item /\ decode(r).codeUnits <= Len(r)
           /\ decode(r) # Replaced =>
                LET n == decode(r).codeUnits
                IN /\ IsSequence(SubSeq(r, 1, n))
                   /\ encode(decode(r).codePoint) = SubSeq(r, 1, n)
<1> DEFINE n == sizeOf(r[1])
           t == SubSeq(r, 1, n)
<1>1. r[1] \in Byte
  BY ElementOfSeq
<1>2. n \in 0 .. 4
  BY <1>1, SizeOf
<1>3. decode(r) = IF n \in 1 .. Len(r) /\ IsSequence(t)
                    THEN [codePoint |-> bits(t), codeUnits |-> n] ELSE Replaced
  BY DecodeIs
<1>4. CASE n \in 1 .. Len(r) /\ IsSequence(t)
  <2>1. decode(r) = [codePoint |-> bits(t), codeUnits |-> n]
    BY <1>3, <1>4
  <2>2. t \in Seq(Byte) /\ Len(t) = n
    BY <1>4, SubSeqProperties
  <2>6. Len(t) \in 1 .. 4
    BY <1>2, <1>4, <2>2
  <2>7. bits(t) \in Nat /\ isValid(bits(t)) /\ encode(bits(t)) = t
    BY <1>4, <2>2, <2>6, SequencesAreTaken
  <2>3. bits(t) \in Valid /\ encode(bits(t)) = t
    BY <2>7 DEF Valid
  <2>4. n \in 1 .. 4 /\ n <= Len(r)
    BY <1>2, <1>4
  <2>5. decode(r).codePoint = bits(t) /\ decode(r).codeUnits = n
    BY <2>1
  <2> QED
    BY <1>4, <2>1, <2>3, <2>4, <2>5, Zenon DEF Item
<1>5. CASE ~ (n \in 1 .. Len(r) /\ IsSequence(t))
  <2>1. decode(r) = Replaced
    BY <1>3, <1>5
  <2> QED
    BY <2>1, ReplacedIsItem
<1> QED
  BY <1>4, <1>5

\* A sequence of UTF-8 is not what a replaced byte decodes to.
LEMMA FoundIsNotReplaced ==
    ASSUME NEW r \in Seq(Byte), NEW n \in 1 .. 4, n <= Len(r),
           IsSequence(SubSeq(r, 1, n))
    PROVE  decode(r) # Replaced
<1>1. decode(r) = [codePoint |-> bits(SubSeq(r, 1, n)), codeUnits |-> n]
  BY DecodeFinds
<1>2. SubSeq(r, 1, n) \in Seq(Byte) /\ Len(SubSeq(r, 1, n)) = n
  BY SubSeqProperties
<1>3. CASE n = 1
  <2>1. bits(SubSeq(r, 1, n)) = SubSeq(r, 1, n)[1] % 128
    BY <1>2, <1>3 DEF bits, lead
  <2>2. SubSeq(r, 1, n)[1] \in Byte
    BY <1>2, <1>3, ElementOfSeq
  <2>3. \A b \in Byte : b % 128 < 128
    BY DEF Byte
  <2>4. bits(SubSeq(r, 1, n)) # 65533
    BY <2>1, <2>2, <2>3, SMT
  <2>5. decode(r).codePoint = bits(SubSeq(r, 1, n))
    BY <1>1
  <2>6. Replaced.codePoint = 65533
    BY SMT DEF Replaced, REPLACEMENT_CHARACTER
  <2> QED
    BY <2>4, <2>5, <2>6, SMT
<1>4. CASE n # 1
  <2>1. decode(r).codeUnits = n
    BY <1>1
  <2> QED
    BY <1>4, <2>1, ReplacedIsItem
<1> QED
  BY <1>3, <1>4

\* 65, an ASCII letter behind the bytes, is not taken for one of them.
LEMMA DecodeAppended ==
    ASSUME NEW r \in Seq(Byte), Len(r) > 0
    PROVE  decode(Append(r, 65)) = decode(r)
<1> DEFINE q == Append(r, 65)
           n == sizeOf(r[1])
<1>1. /\ q \in Seq(Byte) /\ Len(q) = Len(r) + 1 /\ q[Len(r) + 1] = 65
      /\ \A k \in 1 .. Len(r) : q[k] = r[k]
  BY AppendProperties DEF Byte
<1>2. q[1] = r[1] /\ r[1] \in Byte
  BY <1>1, ElementOfSeq
<1> HIDE DEF q
<1> SUFFICES decode(q) = decode(r)
  BY DEF q
<1>3. n \in 0 .. 4
  BY <1>2, SizeOf
<1>4. decode(q) = IF n \in 1 .. Len(q) /\ IsSequence(SubSeq(q, 1, n))
                    THEN [codePoint |-> bits(SubSeq(q, 1, n)), codeUnits |-> n]
                    ELSE Replaced
  <2>1. Len(q) > 0
    BY <1>1
  <2> QED
    BY <1>1, <1>2, <2>1, DecodeIs
<1>5. decode(r) = IF n \in 1 .. Len(r) /\ IsSequence(SubSeq(r, 1, n))
                    THEN [codePoint |-> bits(SubSeq(r, 1, n)), codeUnits |-> n]
                    ELSE Replaced
  BY DecodeIs
<1>6. CASE n \in 1 .. Len(r)
  <2>1. /\ SubSeq(q, 1, n) \in Seq(Byte) /\ Len(SubSeq(q, 1, n)) = n
        /\ \A k \in 1 .. n : SubSeq(q, 1, n)[k] = q[k]
    BY <1>1, <1>6, SubSeqProperties
  <2>2. /\ SubSeq(r, 1, n) \in Seq(Byte) /\ Len(SubSeq(r, 1, n)) = n
        /\ \A k \in 1 .. n : SubSeq(r, 1, n)[k] = r[k]
    BY <1>6, SubSeqProperties
  <2>3. SubSeq(q, 1, n) = SubSeq(r, 1, n)
    BY <1>1, <1>6, <2>1, <2>2, SeqEqual
  <2>4. n \in 1 .. Len(q)
    BY <1>1, <1>6
  <2> DEFINE u == SubSeq(r, 1, n)
             found == [codePoint |-> bits(u), codeUnits |-> n]
  <2>5. decode(q) = IF IsSequence(u) THEN found ELSE Replaced
    BY <1>4, <2>3, <2>4
  <2>6. decode(r) = IF IsSequence(u) THEN found ELSE Replaced
    BY <1>5, <1>6
  <2> QED
    BY <2>5, <2>6
<1>7. CASE n = Len(r) + 1
  <2>1. ~ IsSequence(SubSeq(q, 1, n))
    <3>1. n \in 1 .. 4 /\ n <= Len(q)
      BY <1>1, <1>3, <1>7
    <3>2. IsSequence(SubSeq(q, 1, n)) =>
            /\ n >= 2 => q[2] \in ACCEPT(q[1])
            /\ \A k \in 3 .. n : q[k] \in Continuation
      BY <1>1, <3>1, DecodeSequence
    <3>3. 65 \notin Continuation
      BY DEF Continuation
    <3>4. ASSUME n = 2 PROVE q[2] \notin ACCEPT(q[1])
      <4>1. q[2] = 65
        BY <1>1, <1>7, <3>4
      <4> QED
        BY <1>2, <3>3, <4>1, SecondByte
    <3>5. ASSUME n \in 3 .. 4 PROVE q[n] = 65
      BY <1>1, <1>7, <3>5
    <3>6. n >= 2
      BY <1>7
    <3> QED
      BY <3>1, <3>2, <3>3, <3>4, <3>5, <3>6
  <2>2. ~ (n \in 1 .. Len(r))
    BY <1>7
  <2> QED
    BY <1>4, <1>5, <2>1, <2>2, Zenon
<1>8. CASE ~ (n \in 1 .. Len(r) + 1)
  <2>1. ~ (n \in 1 .. Len(r)) /\ ~ (n \in 1 .. Len(q))
    BY <1>1, <1>8
  <2> QED
    BY <1>4, <1>5, <2>1, Zenon
<1> QED
  BY <1>3, <1>6, <1>7, <1>8

-----------------------------------------------------------------------------
\* Sequences that grow at the front.
LEMMA AtFront ==
    ASSUME NEW S, NEW x \in S, NEW w \in Seq(S)
    PROVE  /\ <<x>> \o w \in Seq(S) /\ Len(<<x>> \o w) = Len(w) + 1
           /\ (<<x>> \o w)[1] = x
           /\ \A k \in 1 .. Len(w) : (<<x>> \o w)[k + 1] = w[k]
           /\ ToSet(<<x>> \o w) = {x} \cup ToSet(w)
<1> DEFINE v == <<x>> \o w
<1>1. <<x>> \in Seq(S) /\ Len(<<x>>) = 1 /\ <<x>>[1] = x
  OBVIOUS
<1>2. /\ v \in Seq(S) /\ Len(v) = Len(w) + 1
      /\ \A k \in 1 .. Len(w) + 1 :
           v[k] = IF k <= 1 THEN <<x>>[k] ELSE w[k - 1]
  BY <1>1, ConcatProperties
<1> HIDE DEF v
<1>3. v[1] = x /\ \A k \in 1 .. Len(w) : v[k + 1] = w[k]
  BY <1>1, <1>2
<1>4. DOMAIN v = 1 .. Len(w) + 1 /\ DOMAIN w = 1 .. Len(w)
  BY <1>2, LenProperties
<1>5. ToSet(v) \subseteq {x} \cup ToSet(w)
  <2> SUFFICES ASSUME NEW k \in DOMAIN v
               PROVE  v[k] \in {x} \cup ToSet(w)
    BY DEF ToSet
  <2>1. CASE k = 1
    BY <1>3, <2>1
  <2>2. CASE k # 1
    <3>1. k - 1 \in DOMAIN w /\ v[k] = w[k - 1]
      BY <1>3, <1>4, <2>2
    <3> QED
      BY <3>1 DEF ToSet
  <2> QED
    BY <2>1, <2>2
<1>6. x \in ToSet(v)
  BY <1>3, <1>4 DEF ToSet
<1>7. ToSet(w) \subseteq ToSet(v)
  <2> SUFFICES ASSUME NEW k \in DOMAIN w
               PROVE  w[k] \in ToSet(v)
    BY DEF ToSet
  <2>1. k + 1 \in DOMAIN v /\ v[k + 1] = w[k]
    BY <1>3, <1>4
  <2> QED
    BY <2>1 DEF ToSet
<1> QED
  BY <1>2, <1>3, <1>5, <1>6, <1>7 DEF v

\* What is left of a sequence of bytes from a place on.
LEMMA Suffix ==
    ASSUME NEW s \in Seq(Byte), NEW i \in 1 .. Len(s)
    PROVE  /\ SubSeq(s, i, Len(s)) \in Seq(Byte)
           /\ Len(SubSeq(s, i, Len(s))) = Len(s) - i + 1
           /\ \A k \in 1 .. Len(s) - i + 1 : SubSeq(s, i, Len(s))[k] = s[i + k - 1]
           /\ \A n \in 1 .. Len(s) - i + 1 :
                SubSeq(SubSeq(s, i, Len(s)), 1, n) = SubSeq(s, i, i + n - 1)
<1> DEFINE r == SubSeq(s, i, Len(s))
<1>1. /\ r \in Seq(Byte) /\ Len(r) = Len(s) - i + 1
      /\ \A k \in 1 .. Len(s) - i + 1 : r[k] = s[i + k - 1]
  BY SubSeqProperties
<1> HIDE DEF r
<1>2. ASSUME NEW n \in 1 .. Len(s) - i + 1
      PROVE  SubSeq(r, 1, n) = SubSeq(s, i, i + n - 1)
  <2>1. /\ SubSeq(r, 1, n) \in Seq(Byte) /\ Len(SubSeq(r, 1, n)) = n
        /\ \A k \in 1 .. n : SubSeq(r, 1, n)[k] = r[k]
    BY <1>1, SubSeqProperties
  <2>2. /\ SubSeq(s, i, i + n - 1) \in Seq(Byte) /\ Len(SubSeq(s, i, i + n - 1)) = n
        /\ \A k \in 1 .. n : SubSeq(s, i, i + n - 1)[k] = s[i + k - 1]
    <3>1. i + n - 1 \in 1 .. Len(s) /\ (i + n - 1) - i + 1 = n
      OBVIOUS
    <3> QED
      BY <3>1, SubSeqProperties
  <2>3. ASSUME NEW k \in 1 .. n
        PROVE  SubSeq(r, 1, n)[k] = SubSeq(s, i, i + n - 1)[k]
    <3>1. k \in 1 .. Len(s) - i + 1
      OBVIOUS
    <3>2. r[k] = s[i + k - 1]
      BY <1>1, <3>1
    <3> QED
      BY <2>1, <2>2, <3>2
  <2> QED
    BY <2>1, <2>2, <2>3, SeqEqual
<1> QED
  BY <1>1, <1>2 DEF r

\* The code point that is decoded at a place, and the bytes it takes.
At(s, i) == decode(SubSeq(s, i, Len(s)))

LEMMA AtTypes ==
    ASSUME NEW s \in Seq(Byte), NEW i \in 1 .. Len(s)
    PROVE  /\ At(s, i) \in Item
           /\ At(s, i).codePoint \in Valid
           /\ At(s, i).codeUnits \in 1 .. 4
           /\ i + At(s, i).codeUnits \in i + 1 .. Len(s) + 1
           /\ At(s, i) # Replaced =>
                LET t == SubSeq(s, i, i + At(s, i).codeUnits - 1)
                IN IsSequence(t) /\ encode(At(s, i).codePoint) = t
<1> DEFINE r == SubSeq(s, i, Len(s))
           n == decode(r).codeUnits
<1>1. r \in Seq(Byte) /\ Len(r) = Len(s) - i + 1 /\ Len(r) > 0
  BY Suffix
<1>2. /\ decode(r) \in Item /\ n <= Len(r)
      /\ decode(r) # Replaced =>
           IsSequence(SubSeq(r, 1, n)) /\ encode(decode(r).codePoint) = SubSeq(r, 1, n)
  BY <1>1, DecodeTypes
<1>3. decode(r).codePoint \in Valid /\ n \in 1 .. 4
  BY <1>2 DEF Item
<1>4. SubSeq(r, 1, n) = SubSeq(s, i, i + n - 1)
  BY <1>1, <1>2, <1>3, Suffix
<1> HIDE DEF r
<1>5. i + n \in i + 1 .. Len(s) + 1
  BY <1>1, <1>2, <1>3
<1> QED
  BY <1>2, <1>3, <1>4, <1>5 DEF At, r

LEMMA AtCode ==
    ASSUME NEW s \in Seq(Byte), NEW i \in 1 .. Len(s), At(s, i) # Replaced
    PROVE  encode(At(s, i).codePoint) = SubSeq(s, i, i + At(s, i).codeUnits - 1)
  BY AtTypes

\* Where the bytes are a sequence of UTF-8, that sequence is decoded.
LEMMA AtSequence ==
    ASSUME NEW s \in Seq(Byte), NEW i \in 1 .. Len(s), NEW n \in 1 .. 4,
           i + n - 1 <= Len(s), IsSequence(SubSeq(s, i, i + n - 1))
    PROVE  At(s, i) # Replaced /\ At(s, i).codeUnits = n
<1> DEFINE r == SubSeq(s, i, Len(s))
<1>1. r \in Seq(Byte) /\ n <= Len(r) /\ SubSeq(r, 1, n) = SubSeq(s, i, i + n - 1)
  BY Suffix
<1>2. IsSequence(SubSeq(r, 1, n))
  BY <1>1
<1> HIDE DEF r
<1>3. decode(r) = [codePoint |-> bits(SubSeq(r, 1, n)), codeUnits |-> n]
  BY <1>1, <1>2, DecodeFinds
<1>4. decode(r) # Replaced
  BY <1>1, <1>2, FoundIsNotReplaced
<1>5. decode(r).codeUnits = n
  BY <1>3
<1> QED
  BY <1>4, <1>5 DEF At, r

\* A letter behind the bytes changes nothing before it, and is itself decoded.
Letter == [codePoint |-> 65, codeUnits |-> 1]

LEMMA AtAppended ==
    ASSUME NEW s \in Seq(Byte)
    PROVE  /\ \A i \in 1 .. Len(s) : At(Append(s, 65), i) = At(s, i)
           /\ At(Append(s, 65), Len(s) + 1) = Letter
<1> DEFINE q == Append(s, 65)
<1>0. 65 \in Byte
  BY DEF Byte
<1>1. /\ q \in Seq(Byte) /\ Len(q) = Len(s) + 1 /\ q[Len(s) + 1] = 65
      /\ \A k \in 1 .. Len(s) : q[k] = s[k]
  BY <1>0, AppendProperties
<1> HIDE DEF q
<1>2. ASSUME NEW i \in 1 .. Len(s)
      PROVE  At(q, i) = At(s, i)
  <2> DEFINE r == SubSeq(s, i, Len(s))
             rq == SubSeq(q, i, Len(q))
  <2>1. /\ r \in Seq(Byte) /\ Len(r) = Len(s) - i + 1
        /\ \A k \in 1 .. Len(s) - i + 1 : r[k] = s[i + k - 1]
    BY Suffix
  <2>2. /\ rq \in Seq(Byte) /\ Len(rq) = Len(s) - i + 2
        /\ \A k \in 1 .. Len(s) - i + 2 : rq[k] = q[i + k - 1]
    <3>1. i \in 1 .. Len(q) /\ Len(q) - i + 1 = Len(s) - i + 2
      BY <1>1
    <3> QED
      BY <1>1, <3>1, Suffix
  <2> HIDE DEF r, rq
  <2>3. /\ Append(r, 65) \in Seq(Byte) /\ Len(Append(r, 65)) = Len(r) + 1
        /\ Append(r, 65)[Len(r) + 1] = 65
        /\ \A k \in 1 .. Len(r) : Append(r, 65)[k] = r[k]
    BY <1>0, <2>1, AppendProperties
  <2>4. ASSUME NEW k \in 1 .. Len(rq)
        PROVE  rq[k] = Append(r, 65)[k]
    <3>1. CASE k = Len(rq)
      <4>1. k = Len(r) + 1 /\ i + k - 1 = Len(s) + 1 /\ k \in 1 .. Len(s) - i + 2
        BY <2>1, <2>2, <3>1
      <4> QED
        BY <1>1, <2>2, <2>3, <4>1
    <3>2. CASE k # Len(rq)
      <4>0. k \in 1 .. Len(s) - i + 2 /\ k # Len(s) - i + 2 /\ Len(s) \in Nat
        BY <2>2, <3>2
      <4>3. k \in 1 .. Len(s) - i + 1
        BY <4>0
      <4>1. k \in 1 .. Len(r) /\ i + k - 1 \in 1 .. Len(s)
        BY <2>1, <4>3
      <4>2. rq[k] = q[i + k - 1] /\ r[k] = s[i + k - 1]
        BY <2>1, <2>2, <4>0, <4>3
      <4> QED
        BY <1>1, <2>3, <4>1, <4>2
    <3> QED
      BY <3>1, <3>2
  <2>5. rq = Append(r, 65)
    <3>1. Len(rq) = Len(Append(r, 65))
      BY <2>1, <2>2, <2>3
    <3> QED
      BY <2>2, <2>3, <2>4, <3>1, SeqEqual, ZenonT(30)
  <2>6. decode(Append(r, 65)) = decode(r)
    <3>1. Len(r) > 0
      BY <2>1
    <3> QED
      BY <2>1, <3>1, DecodeAppended
  <2> QED
    BY <2>5, <2>6 DEF At, r, rq
<1>3. At(q, Len(s) + 1) = Letter
  <2> DEFINE r == SubSeq(q, Len(q), Len(q))
  <2>1. /\ r \in Seq(Byte) /\ Len(r) = 1 /\ r[1] = 65
    <3>1. Len(q) \in 1 .. Len(q) /\ Len(q) - Len(q) + 1 = 1
          /\ Len(q) + 1 - 1 = Len(s) + 1 /\ 1 \in 1 .. 1
      BY <1>1
    <3> QED
      BY <1>1, <3>1, Suffix
  <2>2. sizeOf(65) = 1
    BY SizeOf DEF Byte
  <2> HIDE DEF r
  <2>3. r = <<65>> /\ SubSeq(r, 1, 1) = r
    BY <2>1
  <2>4. bits(r) = 65
    <3>1. bits(r) = r[1] % 128
      BY <2>1 DEF bits, lead
    <3> QED
      BY <2>1, <3>1
  <2>5. IsSequence(r)
    <3>1. Taken(r)
      BY <2>1, <2>2 DEF Taken
    <3> QED
      BY <2>1, <3>1, SequencesAreTaken
  <2>6. decode(r) = [codePoint |-> bits(SubSeq(r, 1, 1)), codeUnits |-> 1]
    <3>1. IsSequence(SubSeq(r, 1, 1))
      BY <2>3, <2>5, Zenon
    <3>2. 1 \in 1 .. 4 /\ 1 <= Len(r)
      BY <2>1
    <3> QED
      BY <2>1, <3>1, <3>2, DecodeFinds
  <2>7. decode(r) = Letter
    BY <2>3, <2>4, <2>6 DEF Letter
  <2> QED
    BY <1>1, <2>7 DEF At, r
<1> QED
  BY <1>2, <1>3 DEF q

-----------------------------------------------------------------------------
\* Less relates the smaller number to the larger.
Less == OpToRel(<, Nat)

LEMMA LeastNat ==
    ASSUME NEW S, S \subseteq Nat, S # {}
    PROVE  \E x \in S : \A y \in S : x <= y
<1>1. IsWellFoundedOn(Less, Nat)
  BY NatLessThanWellFounded, Zenon DEF Less
<1>2. PICK x \in S : \A y \in S : ~ (<<y, x>> \in Less)
  BY <1>1, WFMin
<1>3. \A y \in S : <<y, x>> \in Less <=> y < x
  BY DEF Less, OpToRel
<1>4. ASSUME NEW y \in S PROVE x <= y
  <2>1. ~ (y < x)
    BY <1>2, <1>3
  <2>2. x \in Nat /\ y \in Nat
    OBVIOUS
  <2> QED
    BY <2>1, <2>2
<1> QED
  BY <1>4

\* Of the places of a sequence that are bad there is a last one.
LEMMA LastPlace ==
    ASSUME NEW N \in Nat, NEW bad, bad \subseteq 0 .. N, bad # {}
    PROVE  \E m \in bad : \A k \in m + 1 .. N : k \notin bad
<1> DEFINE D == {N - k : k \in bad}
<1>0. \A k \in bad : k \in 0 .. N /\ N - k \in Nat
  OBVIOUS
<1>1. D \subseteq Nat /\ D # {}
  BY <1>0
<1>2. PICK d \in D : \A e \in D : d <= e
  BY <1>1, LeastNat
<1>3. PICK m \in bad : d = N - m
  BY <1>2
<1>4. ASSUME NEW k \in m + 1 .. N, k \in bad PROVE FALSE
  <2>1. d <= N - k
    BY <1>2, <1>4
  <2> QED
    BY <1>3, <2>1
<1> QED
  BY <1>4

\* The decoder's loop, from any place on.
LEMMA DecodingRecursion ==
    ASSUME NEW s \in Seq(Byte)
    PROVE  decoding(s) = [i \in 1 .. Len(s) + 1 |->
             IF i > Len(s) THEN <<>>
             ELSE <<At(s, i)>> \o decoding(s)[i + At(s, i).codeUnits]]
<1> DEFINE N == Len(s)
           to(i) == i + At(s, i).codeUnits
           join(i, x) == <<At(s, i)>> \o x
           Decodes(f, l) == f = [i \in l .. N + 1 |->
                                   IF i > N THEN <<>> ELSE join(i, f[to(i)])]
           bad == {l \in 1 .. N + 1 : ~ \E f : Decodes(f, l)}
<1>0. N \in Nat
  OBVIOUS
<1>1. decoding(s) = CHOOSE f : Decodes(f, 1)
  BY DEF decoding, At
<1>2. \A i \in 1 .. N : to(i) \in i + 1 .. N + 1
  BY AtTypes
<1> SUFFICES \E f : Decodes(f, 1)
  <2>1. ASSUME \E f : Decodes(f, 1)
        PROVE  Decodes(decoding(s), 1)
    <3> HIDE DEF Decodes
    <3> QED
      BY <1>1, <2>1, Zenon
  <2> QED
    BY <2>1
<1> HIDE DEF N, to, join
<1>3. \E f : Decodes(f, N + 1)
  <2> DEFINE g == [i \in N + 1 .. N + 1 |-> <<>>]
  <2>1. \A i \in N + 1 .. N + 1 : i > N
    BY <1>0
  <2>2. g = [i \in N + 1 .. N + 1 |-> IF i > N THEN <<>> ELSE join(i, g[to(i)])]
    BY <2>1, Zenon
  <2> QED
    BY <2>2
<1>4. ASSUME NEW l \in 1 .. N, NEW f, Decodes(f, l + 1)
      PROVE  \E g : Decodes(g, l)
  <2> DEFINE g == [i \in l .. N + 1 |-> IF i = l THEN join(l, f[to(l)]) ELSE f[i]]
             h == [i \in l .. N + 1 |-> IF i > N THEN <<>> ELSE join(i, g[to(i)])]
  <2>1. ASSUME NEW i \in l .. N + 1 PROVE g[i] = h[i]
    <3>0. l \in l .. N + 1 /\ ~ (l > N)
      BY <1>0
    <3>1. CASE i = l
      <4>1. to(l) \in l + 1 .. N + 1
        BY <1>2
      <4>2. to(l) \in l .. N + 1 /\ to(l) # l
        BY <1>0, <4>1
      <4>3. g[to(l)] = f[to(l)]
        BY <4>2, Zenon
      <4>4. g[l] = join(l, f[to(l)])
        BY <3>0, Zenon
      <4>5. h[l] = join(l, g[to(l)])
        BY <3>0, Zenon
      <4> QED
        BY <3>1, <4>3, <4>4, <4>5
    <3>2. CASE i # l /\ ~ (i > N)
      <4>1. i \in l + 1 .. N + 1 /\ i \in 1 .. N
        BY <1>0, <3>2
      <4>2. to(i) \in i + 1 .. N + 1
        BY <1>2, <4>1
      <4>3. to(i) \in l .. N + 1 /\ to(i) # l
        BY <1>0, <4>1, <4>2
      <4>4. g[to(i)] = f[to(i)]
        BY <4>3, Zenon
      <4>5. g[i] = f[i]
        BY <3>2, Zenon
      <4>6. f[i] = join(i, f[to(i)])
        BY <1>4, <3>2, <4>1, Zenon
      <4>7. h[i] = join(i, g[to(i)])
        BY <3>2, Zenon
      <4> QED
        BY <4>4, <4>5, <4>6, <4>7
    <3>3. CASE i > N
      <4>1. i \in l + 1 .. N + 1 /\ i # l
        BY <1>0, <3>3
      <4>2. g[i] = f[i]
        BY <4>1, Zenon
      <4>3. f[i] = <<>>
        BY <1>4, <3>3, <4>1, Zenon
      <4>4. h[i] = <<>>
        BY <3>3, Zenon
      <4> QED
        BY <4>2, <4>3, <4>4
    <3> QED
      BY <3>1, <3>2, <3>3, Zenon
  <2>2. g = h
    BY <2>1, Zenon
  <2>3. Decodes(g, l)
    BY <2>2, Zenon
  <2> HIDE DEF Decodes
  <2> QED
    BY <2>3, Zenon
<1> HIDE DEF Decodes
<1>5. bad = {}
  <2> SUFFICES ASSUME bad # {} PROVE FALSE
    OBVIOUS
  <2>1. N + 1 \in Nat /\ bad \subseteq 0 .. N + 1
    BY <1>0
  <2> HIDE DEF bad
  <2>2. PICK m \in bad : \A k \in m + 1 .. N + 1 : k \notin bad
    BY <2>1, LastPlace
  <2> USE DEF bad
  <2>3. m \in 1 .. N + 1 /\ ~ \E f : Decodes(f, m)
    OBVIOUS
  <2>4. m # N + 1
    BY <1>3, <2>3
  <2>5. m \in 1 .. N /\ m + 1 \in m + 1 .. N + 1 /\ m + 1 \in 1 .. N + 1
    BY <1>0, <2>3, <2>4
  <2>6. m + 1 \notin bad
    BY <2>2, <2>5, Zenon
  <2>7. PICK f : Decodes(f, m + 1)
    BY <2>5, <2>6, Zenon
  <2> QED
    BY <1>4, <2>3, <2>5, <2>7, Zenon
<1>6. 1 \in 1 .. N + 1
  BY <1>0
<1> QED
  BY <1>5, <1>6, Zenon

LEMMA DecodingStep ==
    ASSUME NEW s \in Seq(Byte)
    PROVE  /\ decoding(s)[Len(s) + 1] = <<>>
           /\ \A i \in 1 .. Len(s) :
                decoding(s)[i] = <<At(s, i)>> \o decoding(s)[i + At(s, i).codeUnits]
<1> DEFINE N == Len(s)
           f == decoding(s)
           next(i) == <<At(s, i)>> \o f[i + At(s, i).codeUnits]
<1>1. f = [i \in 1 .. N + 1 |-> IF i > N THEN <<>> ELSE next(i)]
  BY DecodingRecursion
<1>2. N + 1 \in 1 .. N + 1 /\ N + 1 > N /\ \A i \in 1 .. N : i \in 1 .. N + 1 /\ ~ (i > N)
  OBVIOUS
<1> HIDE DEF f, next, N
<1>3. f[N + 1] = <<>>
  BY <1>1, <1>2, Zenon
<1>4. \A i \in 1 .. N : f[i] = next(i)
  BY <1>1, <1>2, Zenon
<1> QED
  BY <1>3, <1>4 DEF f, next, N

\* From every place on, items are decoded, no more of them than bytes.
LEMMA DecodingTypes ==
    ASSUME NEW s \in Seq(Byte), NEW i \in 1 .. Len(s) + 1
    PROVE  decoding(s)[i] \in Seq(Item) /\ Len(decoding(s)[i]) <= Len(s) - i + 1
<1> DEFINE N == Len(s)
           Good(k) == decoding(s)[k] \in Seq(Item) /\ Len(decoding(s)[k]) <= N - k + 1
           bad == {k \in 1 .. N + 1 : ~ Good(k)}
<1>1. Good(N + 1)
  <2>1. decoding(s)[N + 1] = <<>> /\ Len(<<>>) = 0 /\ <<>> \in Seq(Item)
    BY DecodingStep
  <2> QED
    BY <2>1
<1>2. ASSUME NEW m \in 1 .. N, \A k \in m + 1 .. N + 1 : Good(k)
      PROVE  Good(m)
  <2> DEFINE n == m + At(s, m).codeUnits
             w == decoding(s)[n]
  <2>1. At(s, m) \in Item /\ n \in m + 1 .. N + 1
    BY AtTypes
  <2>2. w \in Seq(Item) /\ Len(w) <= N - n + 1
    BY <1>2, <2>1
  <2>3. <<At(s, m)>> \o w \in Seq(Item) /\ Len(<<At(s, m)>> \o w) = Len(w) + 1
    BY <2>1, <2>2, AtFront
  <2>4. decoding(s)[m] = <<At(s, m)>> \o w
    BY DecodingStep
  <2> HIDE DEF w, n
  <2> QED
    BY <2>1, <2>2, <2>3, <2>4
<1> HIDE DEF Good
<1>3. bad = {}
  <2> SUFFICES ASSUME bad # {} PROVE FALSE
    OBVIOUS
  <2>1. N + 1 \in Nat /\ bad \subseteq 0 .. N + 1
    OBVIOUS
  <2> HIDE DEF bad
  <2>2. PICK m \in bad : \A k \in m + 1 .. N + 1 : k \notin bad
    BY <2>1, LastPlace
  <2> USE DEF bad
  <2>3. m \in 1 .. N /\ ~ Good(m)
    BY <1>1
  <2>4. \A k \in m + 1 .. N + 1 : Good(k)
    BY <2>2, <2>3
  <2> QED
    BY <1>2, <2>3, <2>4
<1>4. Good(i)
  BY <1>3
<1> QED
  BY <1>4 DEF Good

-----------------------------------------------------------------------------
\* The encoder's loop.
LEMMA EncodingRecursion ==
    ASSUME NEW t \in Seq(Nat)
    PROVE  encoding(t) = [n \in 0 .. Len(t) |->
             IF n = 0 THEN <<>> ELSE encoding(t)[n - 1] \o encode(t[n])]
<1> DEFINE N == Len(t)
           next(x, n) == x \o encode(t[n])
           Encodes(f, l) == f = [n \in 0 .. l |->
                                   IF n = 0 THEN <<>> ELSE next(f[n - 1], n)]
           bad == {l \in Nat : ~ \E f : Encodes(f, l)}
<1>1. encoding(t) = CHOOSE f : Encodes(f, N)
  BY DEF encoding
<1> SUFFICES \E f : Encodes(f, N)
  <2>1. ASSUME \E f : Encodes(f, N)
        PROVE  Encodes(encoding(t), N)
    <3> HIDE DEF Encodes
    <3> QED
      BY <1>1, <2>1, Zenon
  <2> QED
    BY <2>1
<1> HIDE DEF next
<1>2. \E f : Encodes(f, 0)
  <2> DEFINE g == [n \in 0 .. 0 |-> <<>>]
  <2>1. \A n \in 0 .. 0 : n = 0
    OBVIOUS
  <2>2. g = [n \in 0 .. 0 |-> IF n = 0 THEN <<>> ELSE next(g[n - 1], n)]
    BY <2>1, Zenon
  <2> QED
    BY <2>2
<1>3. ASSUME NEW l \in Nat \ {0}, NEW f, Encodes(f, l - 1)
      PROVE  \E g : Encodes(g, l)
  <2> DEFINE g == [n \in 0 .. l |-> IF n = l THEN next(f[l - 1], l) ELSE f[n]]
             h == [n \in 0 .. l |-> IF n = 0 THEN <<>> ELSE next(g[n - 1], n)]
  <2>1. ASSUME NEW n \in 0 .. l PROVE g[n] = h[n]
    <3>1. h[n] = IF n = 0 THEN <<>> ELSE next(g[n - 1], n)
      BY Zenon
    <3>2. CASE n = 0
      <4>1. 0 \in 0 .. l - 1 /\ n # l
        BY <3>2
      <4>2. g[n] = f[0]
        BY <3>2, <4>1
      <4>3. f[0] = <<>>
        BY <1>3, <4>1, Zenon
      <4> QED
        BY <3>1, <3>2, <4>2, <4>3
    <3>3. CASE n # 0 /\ n = l
      <4>1. l - 1 \in 0 .. l /\ l - 1 # l
        OBVIOUS
      <4>2. g[l - 1] = f[l - 1]
        BY <4>1, Zenon
      <4>3. g[n] = next(f[l - 1], l)
        BY <3>3, Zenon
      <4> QED
        BY <3>1, <3>3, <4>2, <4>3
    <3>4. CASE n # 0 /\ n # l
      <4>1. /\ n \in 0 .. l - 1
            /\ n - 1 \in 0 .. l /\ n - 1 # l
        BY <3>4
      <4>2. g[n] = f[n] /\ g[n - 1] = f[n - 1]
        BY <3>4, <4>1, Zenon
      <4>3. f[n] = next(f[n - 1], n)
        BY <1>3, <3>4, <4>1, Zenon
      <4> QED
        BY <3>1, <3>4, <4>2, <4>3
    <3> QED
      BY <3>2, <3>3, <3>4, Zenon
  <2>2. g = h
    BY <2>1, Zenon
  <2>3. Encodes(g, l)
    BY <2>2, Zenon
  <2> HIDE DEF Encodes
  <2> QED
    BY <2>3, Zenon
<1> HIDE DEF Encodes
<1>4. bad = {}
  <2> SUFFICES ASSUME bad # {} PROVE FALSE
    OBVIOUS
  <2> HIDE DEF bad
  <2>1. PICK l \in bad : \A k \in bad : l <= k
    <3>1. bad \subseteq Nat
      BY DEF bad
    <3> QED
      BY <3>1, LeastNat
  <2> USE DEF bad
  <2>2. l \in Nat \ {0} /\ ~ \E f : Encodes(f, l)
    BY <1>2
  <2>3. l - 1 \in Nat /\ ~ (l <= l - 1)
    BY <2>2
  <2>4. l - 1 \notin bad
    BY <2>1, <2>3, Zenon
  <2>5. PICK f : Encodes(f, l - 1)
    BY <2>3, <2>4, Zenon
  <2> QED
    BY <1>3, <2>2, <2>5, Zenon
<1>5. N \in Nat
  OBVIOUS
<1> QED
  BY <1>4, <1>5, Zenon

LEMMA EncodingStep ==
    ASSUME NEW t \in Seq(Nat)
    PROVE  /\ encoding(t)[0] = <<>>
           /\ \A n \in 1 .. Len(t) : encoding(t)[n] = encoding(t)[n - 1] \o encode(t[n])
<1> DEFINE N == Len(t)
           f == encoding(t)
           next(n) == f[n - 1] \o encode(t[n])
<1>1. f = [n \in 0 .. N |-> IF n = 0 THEN <<>> ELSE next(n)]
  BY EncodingRecursion
<1>2. 0 \in 0 .. N /\ \A n \in 1 .. N : n \in 0 .. N /\ n # 0
  OBVIOUS
<1> HIDE DEF f, next, N
<1>3. f[0] = <<>>
  BY <1>1, <1>2, Zenon
<1>4. \A n \in 1 .. N : f[n] = next(n)
  BY <1>1, <1>2, Zenon
<1> QED
  BY <1>3, <1>4 DEF f, next, N

LEMMA IntConcat ==
    ASSUME NEW x \in Seq(Int), NEW y \in Seq(Int), NEW z \in Seq(Int)
    PROVE  (x \o y) \o z = x \o (y \o z)
  BY ConcatAssociative, SMTT(40)

LEMMA EncodeTypes ==
    ASSUME NEW c \in Nat
    PROVE  encode(c) \in Seq(Int)
<1> DEFINE v == IF isValid(c) THEN c ELSE REPLACEMENT_CHARACTER
<1>1. v \in Nat
  BY SMT DEF REPLACEMENT_CHARACTER
<1>2. \A x, y, z, w \in Int : /\ <<x>> \in Seq(Int) /\ <<x, y>> \in Seq(Int)
                              /\ <<x, y, z>> \in Seq(Int)
                              /\ <<x, y, z, w>> \in Seq(Int)
  OBVIOUS
<1>3. \A k \in Nat \ {0} : v \div k \in Int /\ 128 + ((v \div k) % 64) \in Int
  BY <1>1
<1>4. encode(c) =
        IF v <= 127 THEN <<v>>
        ELSE IF v <= 2047 THEN <<192 + (v \div 64), 128 + ((v \div 1) % 64)>>
        ELSE IF v <= 65535
          THEN <<224 + (v \div 4096), 128 + ((v \div 64) % 64), 128 + ((v \div 1) % 64)>>
        ELSE <<240 + (v \div 262144), 128 + ((v \div 4096) % 64),
               128 + ((v \div 64) % 64), 128 + ((v \div 1) % 64)>>
  BY SMT DEF encode
<1> HIDE DEF v
<1>5. /\ v \in Int /\ 192 + (v \div 64) \in Int /\ 224 + (v \div 4096) \in Int
      /\ 240 + (v \div 262144) \in Int
      /\ 128 + ((v \div 1) % 64) \in Int /\ 128 + ((v \div 64) % 64) \in Int
      /\ 128 + ((v \div 4096) % 64) \in Int
  BY <1>1, SMT
<1> QED
  BY <1>2, <1>4, <1>5, SMT

\* What is encoded of the first characters is a sequence.
LEMMA EncodingTypes ==
    ASSUME NEW t \in Seq(Nat), NEW n \in 0 .. Len(t)
    PROVE  encoding(t)[n] \in Seq(Int)
<1> DEFINE bad == {k \in 0 .. Len(t) : encoding(t)[k] \notin Seq(Int)}
<1>1. bad = {}
  <2> SUFFICES ASSUME bad # {} PROVE FALSE
    OBVIOUS
  <2> HIDE DEF bad
  <2>1. PICK l \in bad : \A k \in bad : l <= k
    <3>1. bad \subseteq Nat
      BY DEF bad
    <3> QED
      BY <3>1, LeastNat
  <2> USE DEF bad
  <2>2. encoding(t)[0] = <<>>
    BY EncodingStep
  <2>9. <<>> \in Seq(Int) /\ Len(t) \in Nat
    OBVIOUS
  <2>0. l \in 0 .. Len(t) /\ encoding(t)[l] \notin Seq(Int)
    OBVIOUS
  <2>3. l \in 1 .. Len(t) /\ encoding(t)[l] \notin Seq(Int)
    <3>1. l # 0
      BY <2>0, <2>2, <2>9
    <3> QED
      BY <2>0, <2>9, <3>1
  <2>4. l - 1 \in 0 .. Len(t) /\ ~ (l <= l - 1)
    BY <2>3
  <2>5. encoding(t)[l - 1] \in Seq(Int)
    BY <2>1, <2>4, Zenon
  <2>6. t[l] \in Nat
    BY <2>3, ElementOfSeq
  <2>7. encode(t[l]) \in Seq(Int)
    BY <2>6, EncodeTypes
  <2>8. encoding(t)[l] = encoding(t)[l - 1] \o encode(t[l])
    BY <2>3, EncodingStep
  <2> QED
    BY <2>3, <2>5, <2>7, <2>8, ConcatProperties
<1> QED
  BY <1>1

\* The bytes of a character come before those of the characters after it.
LEMMA EncodeFront ==
    ASSUME NEW t \in Seq(Nat), NEW c \in Nat
    PROVE  lenientEncode(<<c>> \o t) = encode(c) \o lenientEncode(t)
<1> DEFINE u == <<c>> \o t
           Shifted(n) == encoding(u)[n + 1] = encode(c) \o encoding(t)[n]
           bad == {n \in 0 .. Len(t) : ~ Shifted(n)}
<1>1. /\ u \in Seq(Nat) /\ Len(u) = Len(t) + 1 /\ u[1] = c
      /\ \A k \in 1 .. Len(t) : u[k + 1] = t[k]
  BY AtFront
<1> HIDE DEF u
<1>2. encode(c) \in Seq(Int)
  BY EncodeTypes
<1>3. Shifted(0)
  <2>1. encoding(u)[1] = <<>> \o encode(c)
    <3>1. 1 \in 1 .. Len(u) /\ 1 - 1 = 0
      BY <1>1
    <3>2. encoding(u)[1] = encoding(u)[1 - 1] \o encode(u[1]) /\ encoding(u)[0] = <<>>
      BY <1>1, <3>1, EncodingStep
    <3> QED
      BY <1>1, <3>1, <3>2
  <2>2. encoding(t)[0] = <<>>
    BY EncodingStep
  <2>3. <<>> \o encode(c) = encode(c) /\ encode(c) \o <<>> = encode(c)
    BY <1>2, ConcatEmptySeq
  <2> QED
    BY <2>1, <2>2, <2>3
<1>4. ASSUME NEW n \in 1 .. Len(t), Shifted(n - 1)
      PROVE  Shifted(n)
  <2>1. /\ n + 1 \in 1 .. Len(u) /\ (n + 1) - 1 = n /\ (n - 1) + 1 = n
        /\ n - 1 \in 0 .. Len(t)
    BY <1>1
  <2>2. encoding(u)[n + 1] = encoding(u)[n] \o encode(t[n])
    <3>1. encoding(u)[n + 1] = encoding(u)[(n + 1) - 1] \o encode(u[n + 1])
      BY <1>1, <2>1, EncodingStep
    <3> QED
      BY <1>1, <2>1, <3>1
  <2>3. encoding(t)[n] = encoding(t)[n - 1] \o encode(t[n])
    BY EncodingStep
  <2>4. encoding(u)[n] = encode(c) \o encoding(t)[n - 1]
    BY <1>4, <2>1
  <2>5. encoding(t)[n - 1] \in Seq(Int)
    BY <2>1, EncodingTypes
  <2>6. encode(t[n]) \in Seq(Int)
    <3>1. t[n] \in Nat
      BY ElementOfSeq
    <3> QED
      BY <3>1, EncodeTypes
  <2>7. (encode(c) \o encoding(t)[n - 1]) \o encode(t[n])
          = encode(c) \o (encoding(t)[n - 1] \o encode(t[n]))
    BY <1>2, <2>5, <2>6, IntConcat
  <2> QED
    BY <2>2, <2>3, <2>4, <2>7
<1> HIDE DEF Shifted
<1>5. bad = {}
  <2> SUFFICES ASSUME bad # {} PROVE FALSE
    OBVIOUS
  <2> HIDE DEF bad
  <2>1. PICK l \in bad : \A k \in bad : l <= k
    <3>1. bad \subseteq Nat
      BY DEF bad
    <3> QED
      BY <3>1, LeastNat
  <2> USE DEF bad
  <2>2. l \in 1 .. Len(t) /\ ~ Shifted(l)
    BY <1>3
  <2>3. l - 1 \in 0 .. Len(t) /\ ~ (l <= l - 1)
    BY <2>2
  <2>4. Shifted(l - 1)
    BY <2>1, <2>3, Zenon
  <2> QED
    BY <1>4, <2>2, <2>4
<1>6. Shifted(Len(t))
  BY <1>5
<1>7. lenientEncode(u) = encoding(u)[Len(t) + 1]
  BY <1>1 DEF lenientEncode
<1> QED
  BY <1>6, <1>7 DEF lenientEncode, Shifted, u

-----------------------------------------------------------------------------
\* The characters of what was decoded.
LEMMA CodePointsTypes ==
    ASSUME NEW w \in Seq(Item)
    PROVE  /\ codePoints(w) \in Seq(Valid) /\ Len(codePoints(w)) = Len(w)
           /\ \A k \in 1 .. Len(w) : codePoints(w)[k] = w[k].codePoint
<1>1. DOMAIN w = 1 .. Len(w) /\ Len(w) \in Nat
  BY LenProperties
<1>2. ASSUME NEW k \in 1 .. Len(w)
      PROVE  w[k].codePoint \in Valid
  <2>1. w[k] \in Item
    BY ElementOfSeq
  <2> QED
    BY <2>1 DEF Item
<1>3. codePoints(w) = [k \in 1 .. Len(w) |-> w[k].codePoint]
  BY <1>1 DEF codePoints
<1>4. codePoints(w) \in [1 .. Len(w) -> Valid]
  BY <1>2, <1>3
<1>5. codePoints(w) \in Seq(Valid)
  BY <1>1, <1>4, SeqDef
<1>6. Len(codePoints(w)) = Len(w)
  BY <1>1, <1>3, <1>5, LenProperties
<1> QED
  BY <1>3, <1>5, <1>6

LEMMA CodePointsFront ==
    ASSUME NEW w \in Seq(Item), NEW d \in Item
    PROVE  codePoints(<<d>> \o w) = <<d.codePoint>> \o codePoints(w)
<1> DEFINE v == <<d>> \o w
           c == codePoints(w)
           x == <<d.codePoint>> \o c
<1>1. /\ v \in Seq(Item) /\ Len(v) = Len(w) + 1 /\ v[1] = d
      /\ \A k \in 1 .. Len(w) : v[k + 1] = w[k]
  BY AtFront
<1>2. /\ c \in Seq(Valid) /\ Len(c) = Len(w)
      /\ \A k \in 1 .. Len(w) : c[k] = w[k].codePoint
  BY CodePointsTypes
<1>3. d.codePoint \in Valid
  BY DEF Item
<1> HIDE DEF c, v
<1>4. /\ x \in Seq(Valid) /\ Len(x) = Len(c) + 1 /\ x[1] = d.codePoint
      /\ \A k \in 1 .. Len(c) : x[k + 1] = c[k]
  BY <1>2, <1>3, AtFront
<1> HIDE DEF x
<1>5. /\ codePoints(v) \in Seq(Valid) /\ Len(codePoints(v)) = Len(v)
      /\ \A k \in 1 .. Len(v) : codePoints(v)[k] = v[k].codePoint
  BY <1>1, CodePointsTypes
<1>6. ASSUME NEW k \in 1 .. Len(v) PROVE codePoints(v)[k] = x[k]
  <2>1. CASE k = 1
    BY <1>1, <1>4, <1>5, <2>1
  <2>2. CASE k # 1
    <3>1. k - 1 \in 1 .. Len(w) /\ (k - 1) + 1 = k
      BY <1>1, <2>2
    <3>2. v[k] = w[k - 1] /\ x[k] = c[k - 1] /\ c[k - 1] = w[k - 1].codePoint
      BY <1>1, <1>2, <1>4, <3>1
    <3> QED
      BY <1>5, <3>2
  <2> QED
    BY <2>1, <2>2
<1>7. codePoints(v) = x
  BY <1>1, <1>2, <1>4, <1>5, <1>6, SeqEqual
<1> QED
  BY <1>7 DEF v, x, c

LEMMA ValidIsNat == \A c \in Seq(Valid) : c \in Seq(Nat)
<1>1. Valid \subseteq Nat
  BY DEF Valid
<1> QED
  BY <1>1, SeqMonotonic

\* What is legal from a place on is encoded again to the bytes from there on.
LEMMA RoundTrip ==
    ASSUME NEW s \in Seq(Byte), NEW i \in 1 .. Len(s) + 1,
           Replaced \notin ToSet(decoding(s)[i])
    PROVE  lenientEncode(codePoints(decoding(s)[i])) = SubSeq(s, i, Len(s))
<1> DEFINE N == Len(s)
           Good(k) == Replaced \notin ToSet(decoding(s)[k]) =>
                        lenientEncode(codePoints(decoding(s)[k])) = SubSeq(s, k, N)
           bad == {k \in 1 .. N + 1 : ~ Good(k)}
<1>1. Good(N + 1)
  <2>1. decoding(s)[N + 1] = <<>>
    BY DecodingStep
  <2>2. codePoints(<<>>) = <<>>
    BY DEF codePoints
  <2>3. lenientEncode(<<>>) = <<>>
    <3>1. <<>> \in Seq(Nat) /\ Len(<<>>) = 0
      OBVIOUS
    <3>2. encoding(<<>>)[0] = <<>>
      BY <3>1, EncodingStep
    <3> QED
      BY <3>1, <3>2 DEF lenientEncode
  <2>4. SubSeq(s, N + 1, N) = <<>>
    BY SubSeqEmpty
  <2> QED
    BY <2>1, <2>2, <2>3, <2>4
<1>2. ASSUME NEW m \in 1 .. N, \A k \in m + 1 .. N + 1 : Good(k)
      PROVE  Good(m)
  <2> DEFINE d == At(s, m)
             n == m + d.codeUnits
             w == decoding(s)[n]
  <2>1. d \in Item /\ d.codePoint \in Valid /\ n \in m + 1 .. N + 1
    BY AtTypes
  <2>0. d.codeUnits \in 1 .. 4
    BY AtTypes
  <2>2. ASSUME d # Replaced
        PROVE  encode(d.codePoint) = SubSeq(s, m, n - 1)
    <3>1. m \in 1 .. Len(s) /\ At(s, m) # Replaced
      BY <2>2
    <3>2. encode(At(s, m).codePoint) = SubSeq(s, m, m + At(s, m).codeUnits - 1)
      BY <3>1, AtCode
    <3>3. m + At(s, m).codeUnits - 1 = n - 1
      BY <2>0
    <3> QED
      BY <3>2, <3>3
  <2> HIDE DEF d, n
  <2>3. w \in Seq(Item)
    <3>1. n \in 1 .. N + 1
      BY <2>1
    <3> QED
      BY <3>1, DecodingTypes
  <2>4. decoding(s)[m] = <<d>> \o w
    BY DecodingStep DEF d, n
  <2> HIDE DEF w
  <2>5. ToSet(<<d>> \o w) = {d} \cup ToSet(w)
    BY <2>1, <2>3, AtFront
  <2> SUFFICES ASSUME Replaced \notin ToSet(decoding(s)[m])
               PROVE  lenientEncode(codePoints(decoding(s)[m])) = SubSeq(s, m, N)
    OBVIOUS
  <2>6. d # Replaced /\ Replaced \notin ToSet(w)
    BY <2>4, <2>5
  <2>7. lenientEncode(codePoints(w)) = SubSeq(s, n, N)
    <3>1. Good(n)
      BY <1>2, <2>1
    <3> QED
      BY <2>6, <3>1 DEF w
  <2>8. codePoints(<<d>> \o w) = <<d.codePoint>> \o codePoints(w)
    BY <2>1, <2>3, CodePointsFront
  <2>9. lenientEncode(<<d.codePoint>> \o codePoints(w))
          = encode(d.codePoint) \o lenientEncode(codePoints(w))
    <3>1. codePoints(w) \in Seq(Nat) /\ d.codePoint \in Nat
      BY <2>1, <2>3, CodePointsTypes, ValidIsNat DEF Valid
    <3> QED
      BY <3>1, EncodeFront
  <2>10. SubSeq(s, m, n - 1) \o SubSeq(s, n, N) = SubSeq(s, m, N)
    <3>1. /\ m \in 1 .. Len(s) + 1 /\ n - 1 \in m - 1 .. Len(s)
          /\ N \in n - 1 .. Len(s) /\ (n - 1) + 1 = n
      BY <2>1
    <3>2. SubSeq(s, m, n - 1) \o SubSeq(s, (n - 1) + 1, N) = SubSeq(s, m, N)
      BY <3>1, ConcatAdjacentSubSeq
    <3> QED
      BY <3>1, <3>2
  <2> QED
    BY <2>2, <2>4, <2>6, <2>7, <2>8, <2>9, <2>10
<1> HIDE DEF Good
<1>3. bad = {}
  <2> SUFFICES ASSUME bad # {} PROVE FALSE
    OBVIOUS
  <2>1. N + 1 \in Nat /\ bad \subseteq 0 .. N + 1
    OBVIOUS
  <2> HIDE DEF bad
  <2>2. PICK m \in bad : \A k \in m + 1 .. N + 1 : k \notin bad
    BY <2>1, LastPlace
  <2> USE DEF bad
  <2>3. m \in 1 .. N /\ ~ Good(m)
    BY <1>1
  <2>4. \A k \in m + 1 .. N + 1 : Good(k)
    BY <2>2, <2>3
  <2> QED
    BY <1>2, <2>3, <2>4
<1>4. Good(i)
  BY <1>3
<1> QED
  BY <1>4 DEF Good

-----------------------------------------------------------------------------
\* A byte sequence is decoded without a replacement if and only if it is a text.
LEMMA LegalIsText ==
    ASSUME NEW s \in Seq(Byte), ~ Illegal(s)
    PROVE  IsText(s)
<1> DEFINE N == Len(s)
           ends == {a \in 0 .. N : Replaced \notin ToSet(decoding(s)[a + 1])}
<1>1. 0 \in ends
  <2>1. Replaced \notin ToSet(decoding(s)[1])
    BY DEF Illegal, decodedAll
  <2>2. 0 \in 0 .. N /\ 0 + 1 = 1
    OBVIOUS
  <2> QED
    BY <2>1, <2>2
<1>2. N \in ends
  <2>1. decoding(s)[N + 1] = <<>>
    BY DecodingStep
  <2>2. Replaced \notin ToSet(<<>>)
    BY DEF ToSet
  <2>3. N \in 0 .. N
    OBVIOUS
  <2> QED
    BY <2>1, <2>2, <2>3
<1>3. ASSUME NEW m \in ends \ {N}
      PROVE  \E n \in ends \cap (m + 1 .. m + 4) : IsSequence(SubSeq(s, m + 1, n))
  <2> DEFINE d == At(s, m + 1)
             n == m + d.codeUnits
             w == decoding(s)[n + 1]
  <2>1. /\ m \in 0 .. N /\ m # N /\ m + 1 \in 1 .. N
        /\ Replaced \notin ToSet(decoding(s)[m + 1])
    OBVIOUS
  <2>2. d \in Item /\ d.codeUnits \in 1 .. 4 /\ (m + 1) + d.codeUnits \in (m + 1) + 1 .. N + 1
    BY <2>1, AtTypes
  <2>3. /\ n \in m + 1 .. m + 4 /\ n \in 0 .. N /\ n + 1 \in 1 .. N + 1
        /\ (m + 1) + d.codeUnits = n + 1 /\ (m + 1) + d.codeUnits - 1 = n
    <3>1. PICK u \in 1 .. 4 : u = d.codeUnits
      BY <2>2
    <3>2. m \in Nat /\ N \in Nat /\ (m + 1) + u <= N + 1
      BY <2>1, <2>2, <3>1
    <3>3. /\ m + u \in m + 1 .. m + 4 /\ m + u \in 0 .. N
          /\ (m + u) + 1 \in 1 .. N + 1
          /\ (m + 1) + u = (m + u) + 1 /\ (m + 1) + u - 1 = m + u
      BY <3>2
    <3> QED
      BY <3>1, <3>3
  <2>4. decoding(s)[m + 1] = <<d>> \o w
    <3>1. decoding(s)[m + 1] = <<d>> \o decoding(s)[(m + 1) + d.codeUnits]
      BY <2>1, DecodingStep
    <3> QED
      BY <2>3, <3>1
  <2>5. w \in Seq(Item)
    BY <2>3, DecodingTypes
  <2>6. ToSet(<<d>> \o w) = {d} \cup ToSet(w)
    BY <2>2, <2>5, AtFront
  <2>7. d # Replaced /\ Replaced \notin ToSet(w)
    BY <2>1, <2>4, <2>6
  <2>8. IsSequence(SubSeq(s, m + 1, n))
    <3>1. d # Replaced => IsSequence(SubSeq(s, m + 1, (m + 1) + d.codeUnits - 1))
      BY <2>1, AtTypes
    <3> QED
      BY <2>3, <2>7, <3>1
  <2> HIDE DEF n
  <2>9. n \in ends
    BY <2>3, <2>7
  <2> QED
    BY <2>3, <2>8, <2>9
<1>4. ends \in SUBSET (0 .. N)
  OBVIOUS
<1> HIDE DEF ends
<1> QED
  BY <1>1, <1>2, <1>3, <1>4 DEF IsText

LEMMA TextIsLegal ==
    ASSUME NEW s \in Seq(Byte), IsText(s)
    PROVE  ~ Illegal(s)
<1> DEFINE N == Len(s)
           Good(a) == Replaced \notin ToSet(decoding(s)[a + 1])
<1>1. PICK ends \in SUBSET (0 .. N) :
        /\ {0, N} \subseteq ends
        /\ \A m \in ends \ {N} : \E n \in ends \cap (m + 1 .. m + 4) :
             IsSequence(SubSeq(s, m + 1, n))
  BY DEF IsText
<1> DEFINE bad == {a \in ends : ~ Good(a)}
<1>2. Good(N)
  <2>1. decoding(s)[N + 1] = <<>>
    BY DecodingStep
  <2>2. Replaced \notin ToSet(<<>>)
    BY DEF ToSet
  <2> QED
    BY <2>1, <2>2
<1>3. ASSUME NEW m \in ends, m # N, \A k \in m + 1 .. N : k \in ends => Good(k)
      PROVE  Good(m)
  <2>1. PICK n \in ends \cap (m + 1 .. m + 4) : IsSequence(SubSeq(s, m + 1, n))
    BY <1>1, <1>3
  <2> DEFINE u == n - m
             d == At(s, m + 1)
             w == decoding(s)[n + 1]
  <2>2. /\ m \in 0 .. N /\ n \in 0 .. N /\ m + 1 \in 1 .. N /\ u \in 1 .. 4
        /\ (m + 1) + u - 1 = n /\ n \in m + 1 .. N /\ n + 1 \in 1 .. N + 1
        /\ (m + 1) + u = n + 1
    BY <1>3, <2>1
  <2> HIDE DEF u
  <2>3. d # Replaced /\ d.codeUnits = u
    <3>1. IsSequence(SubSeq(s, m + 1, (m + 1) + u - 1)) /\ (m + 1) + u - 1 <= Len(s)
      BY <2>1, <2>2
    <3> QED
      BY <2>2, <3>1, AtSequence
  <2>4. d \in Item
    BY <2>2, AtTypes
  <2>5. decoding(s)[m + 1] = <<d>> \o w
    <3>1. decoding(s)[m + 1] = <<d>> \o decoding(s)[(m + 1) + d.codeUnits]
      BY <2>2, DecodingStep
    <3> QED
      BY <2>2, <2>3, <3>1
  <2>6. w \in Seq(Item)
    BY <2>2, DecodingTypes
  <2>7. ToSet(<<d>> \o w) = {d} \cup ToSet(w)
    BY <2>4, <2>6, AtFront
  <2>8. Replaced \notin ToSet(w)
    BY <1>3, <2>1, <2>2
  <2> QED
    BY <2>3, <2>5, <2>7, <2>8
<1> HIDE DEF Good
<1>4. bad = {}
  <2> SUFFICES ASSUME bad # {} PROVE FALSE
    OBVIOUS
  <2>1. N \in Nat /\ bad \subseteq 0 .. N
    <3>1. ends \subseteq 0 .. N /\ bad \subseteq ends
      OBVIOUS
    <3>2. N \in Nat
      OBVIOUS
    <3> HIDE DEF bad
    <3>3. bad \subseteq 0 .. N
      BY <3>1, Zenon
    <3> QED
      BY <3>2, <3>3
  <2> HIDE DEF bad
  <2>2. PICK m \in bad : \A k \in m + 1 .. N : k \notin bad
    BY <2>1, LastPlace
  <2> USE DEF bad
  <2>3. m \in ends /\ m # N /\ ~ Good(m)
    BY <1>2
  <2>4. \A k \in m + 1 .. N : k \in ends => Good(k)
    BY <2>2
  <2> QED
    BY <1>3, <2>3, <2>4
<1>5. Good(0)
  BY <1>1, <1>4
<1> QED
  BY <1>5 DEF Good, Illegal, decodedAll

\* A letter behind the bytes is decoded as a letter behind what they decode to.
LEMMA DecodingAppended ==
    ASSUME NEW s \in Seq(Byte), NEW i \in 1 .. Len(s) + 1
    PROVE  decoding(Append(s, 65))[i] = Append(decoding(s)[i], Letter)
<1> DEFINE N == Len(s)
           q == Append(s, 65)
           Good(k) == decoding(q)[k] = Append(decoding(s)[k], Letter)
           bad == {k \in 1 .. N + 1 : ~ Good(k)}
<1>1. q \in Seq(Byte) /\ Len(q) = N + 1
  <2>1. 65 \in Byte
    BY DEF Byte
  <2> QED
    BY <2>1, AppendProperties
<1>2. At(q, N + 1) = Letter /\ \A k \in 1 .. N : At(q, k) = At(s, k)
  BY AtAppended
<1> HIDE DEF q
<1>3. Good(N + 1)
  <2>1. decoding(s)[N + 1] = <<>>
    BY DecodingStep
  <2>2. decoding(q)[N + 2] = <<>>
    <3>1. decoding(q)[Len(q) + 1] = <<>> /\ Len(q) + 1 = N + 2
      BY <1>1, DecodingStep
    <3> QED
      BY <3>1
  <2>3. decoding(q)[N + 1] = <<Letter>> \o <<>>
    <3>1. N + 1 \in 1 .. Len(q) /\ Letter.codeUnits = 1 /\ (N + 1) + 1 = N + 2
      BY <1>1 DEF Letter
    <3>2. decoding(q)[N + 1] = <<At(q, N + 1)>> \o decoding(q)[(N + 1) + At(q, N + 1).codeUnits]
      BY <1>1, <3>1, DecodingStep
    <3> QED
      BY <1>2, <2>2, <3>1, <3>2
  <2>4. <<Letter>> \o <<>> = <<Letter>> /\ Append(<<>>, Letter) = <<Letter>>
    OBVIOUS
  <2> QED
    BY <2>1, <2>3, <2>4
<1>4. Letter \in Item
  <2>1. isValid(65)
    BY SmallIsValid
  <2> QED
    BY <2>1 DEF Letter, Item, Valid
<1>5. ASSUME NEW m \in 1 .. N, \A k \in m + 1 .. N + 1 : Good(k)
      PROVE  Good(m)
  <2> DEFINE d == At(s, m)
             n == m + d.codeUnits
             w == decoding(s)[n]
  <2>1. d \in Item /\ n \in m + 1 .. N + 1
    BY AtTypes
  <2>2. w \in Seq(Item)
    <3>1. n \in 1 .. N + 1
      BY <2>1
    <3> QED
      BY <3>1, DecodingTypes
  <2>3. decoding(s)[m] = <<d>> \o w
    BY DecodingStep
  <2>4. decoding(q)[m] = <<d>> \o decoding(q)[n]
    <3>1. m \in 1 .. Len(q) /\ At(q, m) = d
      BY <1>1, <1>2
    <3>2. decoding(q)[m] = <<At(q, m)>> \o decoding(q)[m + At(q, m).codeUnits]
      BY <1>1, <3>1, DecodingStep
    <3> QED
      BY <3>1, <3>2
  <2>5. decoding(q)[n] = Append(w, Letter)
    BY <1>5, <2>1
  <2> HIDE DEF d, n, w
  <2>6. <<d>> \o Append(w, Letter) = Append(<<d>> \o w, Letter)
    <3>1. <<d>> \in Seq(Item) /\ <<Letter>> \in Seq(Item) /\ <<d>> \o w \in Seq(Item)
      BY <1>4, <2>1, <2>2, AtFront
    <3>2. /\ Append(w, Letter) = w \o <<Letter>>
          /\ Append(<<d>> \o w, Letter) = (<<d>> \o w) \o <<Letter>>
      BY <1>4, <2>2, <3>1, AppendIsConcat
    <3>3. (<<d>> \o w) \o <<Letter>> = <<d>> \o (w \o <<Letter>>)
      BY <2>2, <3>1, ConcatAssociative
    <3> QED
      BY <3>2, <3>3
  <2> QED
    BY <2>3, <2>4, <2>5, <2>6
<1> HIDE DEF Good
<1>6. bad = {}
  <2> SUFFICES ASSUME bad # {} PROVE FALSE
    OBVIOUS
  <2>1. N + 1 \in Nat /\ bad \subseteq 0 .. N + 1
    OBVIOUS
  <2> HIDE DEF bad
  <2>2. PICK m \in bad : \A k \in m + 1 .. N + 1 : k \notin bad
    BY <2>1, LastPlace
  <2> USE DEF bad
  <2>3. m \in 1 .. N /\ ~ Good(m)
    BY <1>3
  <2>4. \A k \in m + 1 .. N + 1 : Good(k)
    BY <2>2, <2>3
  <2> QED
    BY <1>5, <2>3, <2>4
<1>7. Good(i)
  BY <1>6
<1> QED
  BY <1>7 DEF Good, q

LEMMA LenientTypes ==
    ASSUME NEW s \in Seq(Byte)
    PROVE  lenientDecode(s) \in Seq(Valid) /\ Len(lenientDecode(s)) <= Len(s)
<1>1. 1 \in 1 .. Len(s) + 1
  OBVIOUS
<1>2. decoding(s)[1] \in Seq(Item) /\ Len(decoding(s)[1]) <= Len(s)
  BY <1>1, DecodingTypes
<1> QED
  BY <1>2, CodePointsTypes DEF lenientDecode, decodedAll

\* What the decoders and the encoder do with every sequence of bytes.
LEMMA Utf8IsDecoded ==
    ASSUME NEW s \in Seq(Byte)
    PROVE  LET decoded == lenientDecode(s)
           IN /\ Illegal(s) <=> ~ IsText(s)
              /\ IsText(s) => lenientEncode(decoded) = s
              /\ \A k \in DOMAIN decoded : isValid(decoded[k])
              /\ lenientDecode(Append(s, 65)) = Append(decoded, 65)
<1> DEFINE decoded == lenientDecode(s)
<1>0. 1 \in 1 .. Len(s) + 1 /\ Len(s) \in Nat
  OBVIOUS
<1>1. Illegal(s) <=> ~ IsText(s)
  BY LegalIsText, TextIsLegal
<1>2. IsText(s) => lenientEncode(decoded) = s
  <2> SUFFICES ASSUME IsText(s) PROVE lenientEncode(decoded) = s
    OBVIOUS
  <2>1. Replaced \notin ToSet(decoding(s)[1])
    BY TextIsLegal DEF Illegal, decodedAll
  <2>2. lenientEncode(decoded) = SubSeq(s, 1, Len(s))
    BY <1>0, <2>1, RoundTrip DEF lenientDecode, decodedAll
  <2>3. SubSeq(s, 1, Len(s)) = s
    BY SubSeqFull
  <2> QED
    BY <2>2, <2>3
<1>3. ASSUME NEW k \in DOMAIN decoded
      PROVE  isValid(decoded[k])
  <2>1. decoded \in Seq(Valid)
    BY LenientTypes
  <2> HIDE DEF decoded
  <2>2. k \in 1 .. Len(decoded)
    BY <1>3, <2>1, LenProperties
  <2>3. decoded[k] \in Valid
    BY <2>1, <2>2, ElementOfSeq
  <2> QED
    BY <2>3 DEF Valid
<1>4. lenientDecode(Append(s, 65)) = Append(decoded, 65)
  <2> DEFINE w == decoding(s)[1]
             v == Append(w, Letter)
             c == codePoints(w)
  <2>1. w \in Seq(Item)
    BY <1>0, DecodingTypes
  <2>2. lenientDecode(Append(s, 65)) = codePoints(v)
    BY <1>0, DecodingAppended DEF lenientDecode, decodedAll
  <2>3. decoded = c
    BY DEF lenientDecode, decodedAll
  <2> HIDE DEF w
  <2>4. Letter \in Item /\ 65 \in Valid /\ Letter.codePoint = 65
    <3>1. isValid(65)
      BY SmallIsValid
    <3> QED
      BY <3>1 DEF Letter, Item, Valid
  <2>5. /\ v \in Seq(Item) /\ Len(v) = Len(w) + 1 /\ v[Len(w) + 1] = Letter
        /\ \A k \in 1 .. Len(w) : v[k] = w[k]
    BY <2>1, <2>4, AppendProperties
  <2>6. /\ c \in Seq(Valid) /\ Len(c) = Len(w)
        /\ \A k \in 1 .. Len(w) : c[k] = w[k].codePoint
    BY <2>1, CodePointsTypes
  <2> HIDE DEF v, c
  <2>7. /\ codePoints(v) \in Seq(Valid) /\ Len(codePoints(v)) = Len(v)
        /\ \A k \in 1 .. Len(v) : codePoints(v)[k] = v[k].codePoint
    BY <2>5, CodePointsTypes
  <2>8. /\ Append(c, 65) \in Seq(Valid) /\ Len(Append(c, 65)) = Len(c) + 1
        /\ Append(c, 65)[Len(c) + 1] = 65
        /\ \A k \in 1 .. Len(c) : Append(c, 65)[k] = c[k]
    BY <2>4, <2>6, AppendProperties
  <2>9. ASSUME NEW k \in 1 .. Len(v)
        PROVE  codePoints(v)[k] = Append(c, 65)[k]
    <3>1. Len(w) \in Nat
      BY <2>1
    <3>2. CASE k = Len(w) + 1
      BY <2>4, <2>5, <2>6, <2>7, <2>8, <3>2
    <3>3. CASE k # Len(w) + 1
      <4>1. k \in 1 .. Len(w)
        BY <2>5, <3>1, <3>3
      <4>2. v[k] = w[k] /\ Append(c, 65)[k] = c[k] /\ c[k] = w[k].codePoint
        BY <2>5, <2>6, <2>8, <4>1
      <4> QED
        BY <2>7, <4>2
    <3> QED
      BY <3>2, <3>3
  <2>10. codePoints(v) = Append(c, 65)
    BY <2>5, <2>6, <2>7, <2>8, <2>9, SeqEqual
  <2> QED
    BY <2>2, <2>3, <2>10 DEF v
<1> QED
  BY <1>1, <1>2, <1>3, <1>4

\* Whatever samples are taken, strictDecode accepts the UTF-8 texts and nothing
\* else, a text is encoded again as it was, and lenientDecode makes of other
\* bytes valid code points that swallow no character behind them.
THEOREM DecodersAreExact == Spec => []DecodesUtf8
<1>1. DecodesUtf8
  <2>1. \A s \in Samples : s \in Seq(Byte)
    BY FilesAssumption DEF Byte
  <2> QED
    BY <2>1, Utf8IsDecoded DEF DecodesUtf8
<1> QED
  BY <1>1, PTL

-----------------------------------------------------------------------------
\* A stream is a tape.  Its characters are valid, there are fewer of them than
\* numbers of a size_t, and the position is beyond their end only if there are
\* none: after a load that failed.
StreamInv == /\ data \in Seq(Valid) /\ Len(data) < WORD
             /\ p \in Nat
             /\ p > Len(data) => data = <<>>

LEMMA LeastOfTwo ==
    ASSUME NEW a \in Int, NEW b \in Int
    PROVE  Min({a, b}) = IF a <= b THEN a ELSE b
<1>1. \E x \in {a, b} : \A y \in {a, b} : x <= y
  OBVIOUS
<1>2. Min({a, b}) \in {a, b} /\ \A y \in {a, b} : Min({a, b}) <= y
  BY <1>1, Zenon DEF Min
<1> QED
  BY <1>2

LEMMA GreatestLength ==
    /\ Max({Len(file) : file \in Files}) \in Nat
    /\ Max({Len(file) : file \in Files}) + MaxArgument < WORD
<1> DEFINE lengths == {Len(file) : file \in Files}
           spare == {WORD - n : n \in lengths}
<1>1. lengths \subseteq Nat /\ lengths # {} /\ \A n \in lengths : n + MaxArgument < WORD
  <2>1. \A file \in Files : Len(file) \in Nat
    BY FilesAssumption
  <2> QED
    BY <2>1, FilesAssumption, WordAssumption
<1> HIDE DEF lengths
<1>2. spare \subseteq Nat /\ spare # {}
  BY <1>1, WordAssumption
<1>3. PICK d \in spare : \A e \in spare : d <= e
  BY <1>2, LeastNat
<1>4. PICK n \in lengths : d = WORD - n
  BY <1>3
<1>5. \A k \in lengths : n >= k
  <2> SUFFICES ASSUME NEW k \in lengths PROVE n >= k
    OBVIOUS
  <2>1. WORD - k \in spare
    OBVIOUS
  <2>2. WORD - n <= WORD - k
    BY <1>3, <1>4, <2>1
  <2> QED
    BY <1>1, <2>2, WordAssumption
<1>6. Max(lengths) \in lengths
  BY <1>5, Zenon DEF Max
<1> QED
  BY <1>1, <1>6 DEF lengths

LEMMA ArgumentTypes ==
    ASSUME NEW i \in Arguments
    PROVE  i \in Int /\ i < WORD
<1>1. Arguments = -MaxArgument .. Max({Len(file) : file \in Files}) + MaxArgument
  BY DEF Arguments
<1> DEFINE m == Max({Len(file) : file \in Files})
<1>2. m \in Nat /\ m + MaxArgument < WORD
  BY GreatestLength
<1> HIDE DEF m
<1>3. i \in -MaxArgument .. m + MaxArgument
  BY <1>1 DEF m
<1> QED
  BY <1>2, <1>3, WordAssumption

\* A file is decoded to no more characters than it has bytes.
LEMMA BodyTypes ==
    ASSUME NEW file \in Files
    PROVE  /\ lenientDecode(Body(file)) \in Seq(Valid)
           /\ Len(lenientDecode(Body(file))) < WORD
<1>1. file \in Seq(Byte) /\ Len(file) < WORD /\ Len(file) \in Nat
  BY FilesAssumption, WordAssumption DEF Byte
<1>2. SubSeq(file, 4, Len(file)) \in Seq(Byte)
      /\ Len(SubSeq(file, 4, Len(file))) <= Len(file)
  BY <1>1, SubSeqProperties
<1>3. Body(file) \in Seq(Byte) /\ Len(Body(file)) <= Len(file)
  BY <1>1, <1>2 DEF Body
<1> HIDE DEF Body
<1>4. /\ lenientDecode(Body(file)) \in Seq(Valid)
      /\ Len(lenientDecode(Body(file))) <= Len(Body(file))
  BY <1>3, LenientTypes
<1>5. Len(lenientDecode(Body(file))) \in Nat /\ Len(Body(file)) \in Nat
  BY <1>3, <1>4
<1> QED
  BY <1>1, <1>3, <1>4, <1>5, WordAssumption

LEMMA EmptyText == <<>> \in Seq(Valid) /\ Len(<<>>) = 0 /\ 0 < WORD
<1>1. PICK file \in Files : Len(file) + MaxArgument < WORD
  BY FilesAssumption, WordAssumption
<1>2. Len(file) \in Nat
  BY FilesAssumption
<1> QED
  BY <1>1, <1>2, WordAssumption

LEMMA NoneBelowZero == 0 \in Nat /\ \A n \in Nat : ~ (0 > n)
  OBVIOUS

LEMMA StreamKept ==
    ASSUME StreamInv, [Next]_vars
    PROVE  StreamInv'
<1> USE DEF StreamInv
<1>0. Len(data) \in Nat
  OBVIOUS
<1>1. ASSUME NEW file \in Files, NEW lenient \in BOOLEAN,
             NEW from \in {"buffer", "stream", "badStream"}, load(file, lenient, from)
      PROVE  StreamInv'
  <2>1. CASE UNCHANGED <<data, p>>
    BY <2>1
  <2>2. CASE data' = <<>> /\ p' = p
    BY <2>2, EmptyText
  <2>3. CASE data' = lenientDecode(Body(file)) /\ p' = 0
    <3>1. data' \in Seq(Valid) /\ Len(data') < WORD
      BY <2>3, BodyTypes
    <3>2. Len(data') \in Nat
      BY <3>1, LenProperties
    <3>4. p' = 0
      BY <2>3
    <3>3. p' \in Nat /\ ~ (p' > Len(data'))
      BY <3>2, <3>4, NoneBelowZero
    <3> QED
      BY <3>1, <3>3
  <2> QED
    BY <1>1, <2>1, <2>2, <2>3 DEF load
<1>2. ASSUME UNCHANGED data, p' \in Nat, p' <= p \/ p' <= Len(data)
      PROVE  StreamInv'
  BY <1>0, <1>2
<1>3. CASE reset
  BY <1>0, <1>2, <1>3 DEF reset
<1>4. CASE consume
  BY <1>0, <1>2, <1>4 DEF consume
<1>5. CASE index
  BY <1>2, <1>5 DEF index
<1>6. ASSUME NEW n \in Sizes, seek(n)
      PROVE  StreamInv'
  <2>1. n \in Nat
    BY DEF Sizes
  <2>2. Min({n, Len(data)}) = IF n <= Len(data) THEN n ELSE Len(data)
    BY <1>0, <2>1, LeastOfTwo
  <2> QED
    BY <1>0, <1>2, <1>6, <2>1, <2>2 DEF seek
<1>7. ASSUME NEW i \in Arguments, LA(i)
      PROVE  StreamInv'
  BY <1>2, <1>7 DEF LA
<1>8. ASSUME NEW start \in Arguments, NEW end \in Arguments, getText(start, end)
      PROVE  StreamInv'
  BY <1>2, <1>8 DEF getText
<1>9. CASE UNCHANGED vars
  BY <1>9 DEF vars
<1> QED
  BY <1>1, <1>3, <1>4, <1>5, <1>6, <1>7, <1>8, <1>9 DEF Next

\* A text that is cut in two.
LEMMA TextCut ==
    ASSUME NEW d \in Seq(Valid), NEW c \in 0 .. Len(d)
    PROVE  /\ SubSeq(d, 1, c) \in Seq(Valid) /\ Len(SubSeq(d, 1, c)) = c
           /\ \A k \in 1 .. c : SubSeq(d, 1, c)[k] = d[k]
           /\ SubSeq(d, c + 1, Len(d)) \in Seq(Valid)
           /\ Len(SubSeq(d, c + 1, Len(d))) = Len(d) - c
           /\ \A k \in 1 .. Len(d) - c : SubSeq(d, c + 1, Len(d))[k] = d[c + k]
           /\ SubSeq(d, 1, c) \o SubSeq(d, c + 1, Len(d)) = d
<1>1. /\ SubSeq(d, 1, c) \in Seq(Valid) /\ Len(SubSeq(d, 1, c)) = c
      /\ \A k \in 1 .. c : SubSeq(d, 1, c)[k] = d[k]
  BY SubSeqProperties
<1>2. /\ SubSeq(d, c + 1, Len(d)) \in Seq(Valid)
      /\ Len(SubSeq(d, c + 1, Len(d))) = Len(d) - c
      /\ \A k \in 1 .. Len(d) - c : SubSeq(d, c + 1, Len(d))[k] = d[c + k]
  BY SubSeqProperties
<1>3. SubSeq(d, 1, c) \o SubSeq(d, c + 1, Len(d)) = d
  <2>1. 1 \in 1 .. Len(d) + 1 /\ c \in 1 - 1 .. Len(d) /\ Len(d) \in c .. Len(d)
    OBVIOUS
  <2>2. SubSeq(d, 1, c) \o SubSeq(d, c + 1, Len(d)) = SubSeq(d, 1, Len(d))
    BY <2>1, ConcatAdjacentSubSeq
  <2> QED
    BY <2>2, SubSeqFull
<1> QED
  BY <1>1, <1>2, <1>3
\* The text d as a tape that is read up to position q.
Before(d, q) == SubSeq(d, 1, Min({q, Len(d)}))
After(d, q) == SubSeq(d, Min({q, Len(d)}) + 1, Len(d))

LEMMA TapeOf ==
    ASSUME NEW d \in Seq(Valid), NEW q \in Nat, q <= Len(d)
    PROVE  /\ Before(d, q) \in Seq(Valid) /\ Len(Before(d, q)) = q
           /\ \A k \in 1 .. q : Before(d, q)[k] = d[k]
           /\ After(d, q) \in Seq(Valid) /\ Len(After(d, q)) = Len(d) - q
           /\ \A k \in 1 .. Len(d) - q : After(d, q)[k] = d[q + k]
           /\ Before(d, q) \o After(d, q) = d
<1>1. Min({q, Len(d)}) = q
  BY LeastOfTwo
<1>2. q \in 0 .. Len(d)
  OBVIOUS
<1> QED
  BY <1>1, <1>2, TextCut, ZenonT(40) DEF Before, After

LEMMA EmptyTape ==
    ASSUME NEW q \in Nat
    PROVE  Before(<<>>, q) = <<>> /\ After(<<>>, q) = <<>>
<1>1. <<>> \in Seq(Valid) /\ Len(<<>>) = 0
  OBVIOUS
<1>2. Min({q, Len(<<>>)}) = 0
  BY <1>1, LeastOfTwo
<1>3. 0 \in 0 .. Len(<<>>)
  BY <1>1
<1>4. Len(SubSeq(<<>>, 1, 0)) = 0 /\ SubSeq(<<>>, 1, 0) \in Seq(Valid)
  BY <1>1, <1>3, TextCut
<1>5. /\ Len(SubSeq(<<>>, 0 + 1, Len(<<>>))) = 0
      /\ SubSeq(<<>>, 0 + 1, Len(<<>>)) \in Seq(Valid)
  BY <1>1, <1>3, TextCut
<1> QED
  BY <1>2, <1>4, <1>5, EmptySeq DEF Before, After

LEMMA UnreadTape ==
    ASSUME NEW d \in Seq(Valid)
    PROVE  Before(d, 0) = <<>> /\ After(d, 0) = d /\ ~ (0 > Len(d))
<1>1. 0 \in Nat /\ 0 <= Len(d) /\ Len(d) \in Nat
  OBVIOUS
<1>2. Len(Before(d, 0)) = 0 /\ Before(d, 0) \in Seq(Valid)
  BY <1>1, TapeOf
<1>3. Min({0, Len(d)}) = 0
  BY <1>1, LeastOfTwo
<1>4. After(d, 0) = SubSeq(d, 0 + 1, Len(d))
  BY <1>3, Zenon DEF After
<1>5. 0 + 1 = 1
  OBVIOUS
<1> QED
  BY <1>1, <1>2, <1>4, <1>5, EmptySeq, SubSeqFull

LEMMA Greater ==
    ASSUME NEW m \in Nat, NEW n \in Nat
    PROVE  /\ (m > n) \in BOOLEAN
           /\ ~ (m > n) => (m > n) = FALSE
  OBVIOUS

LEMMA StreamTypes ==
    ASSUME StreamInv, StreamInv'
    PROVE  /\ p \in Nat /\ Len(data) \in Nat /\ data \in Seq(Valid)
           /\ p' \in Nat /\ Len(data') \in Nat /\ data' \in Seq(Valid)
  BY DEF StreamInv

\* What the tape of the stream is, before and after a step.
LEMMA TapeOfStream ==
    /\ SubSeq(data, 1, cut) = Before(data, p)
    /\ SubSeq(data, cut + 1, Len(data)) = After(data, p)
    /\ SubSeq(data', 1, cut') = Before(data', p')
    /\ SubSeq(data', cut' + 1, Len(data')) = After(data', p')
  BY DEF cut, Before, After

\* A file that begins with the byte order mark, and what is behind it.
LEMMA BodyIsFile ==
    ASSUME NEW s \in Seq(Byte)
    PROVE  /\ Body(s) \in Seq(Byte)
           /\ s = (IF IsPrefix(BOM, s) THEN BOM ELSE <<>>) \o Body(s)
           /\ IsPrefix(BOM, s) =>
                /\ Len(s) >= 3 /\ SubSeq(s, 1, 3) = BOM
                /\ Body(s) = SubSeq(s, 4, Len(s))
<1>1. CASE IsPrefix(BOM, s)
  <2>1. Len(BOM) = 3 /\ BOM \in Seq(Byte)
    BY DEF BOM, Byte
  <2>2. Len(s) \in Nat /\ Len(s) >= 3 /\ SubSeq(s, 1, 3) = SubSeq(BOM, 1, 3)
    BY <1>1, <2>1, LenProperties DEF IsPrefix
  <2>3. SubSeq(BOM, 1, 3) = BOM
    BY <2>1, SubSeqFull
  <2>4. Body(s) = SubSeq(s, 4, Len(s))
    BY <1>1 DEF Body
  <2>5. SubSeq(s, 4, Len(s)) \in Seq(Byte)
    BY <2>2, SubSeqProperties
  <2>6. SubSeq(s, 1, 3) \o SubSeq(s, 3 + 1, Len(s)) = SubSeq(s, 1, Len(s))
    <3>1. 1 \in 1 .. Len(s) + 1 /\ 3 \in 1 - 1 .. Len(s) /\ Len(s) \in 3 .. Len(s)
      BY <2>2
    <3> QED
      BY <3>1, ConcatAdjacentSubSeq
  <2>7. SubSeq(s, 1, Len(s)) = s /\ 3 + 1 = 4
    BY SubSeqFull
  <2>8. s = BOM \o SubSeq(s, 4, Len(s))
    BY <2>2, <2>3, <2>6, <2>7
  <2> QED
    BY <1>1, <2>2, <2>3, <2>4, <2>5, <2>8
<1>2. CASE ~ IsPrefix(BOM, s)
  <2>1. Body(s) = s
    BY <1>2 DEF Body
  <2>2. <<>> \o s = s
    OBVIOUS
  <2> QED
    BY <1>2, <2>1, <2>2
<1> QED
  BY <1>1, <1>2

\* The mark is a sequence, and no other sequence begins as it does.
LEMMA MarkIsSequence ==
    ASSUME NEW t \in Seq(Byte), Len(t) \in 1 .. 4, t[1] = 239
    PROVE  /\ IsSequence(t) => Len(t) = 3
           /\ t = BOM => IsSequence(t)
<1>1. IsSequence(t) <=> Taken(t)
  BY SequencesAreTaken
<1>2. 239 \in Byte /\ 239 \in 224 .. 239
  BY DEF Byte
<1>3. sizeOf(239) = 3
  BY <1>2, SizeOf
<1>4. ASSUME t = BOM PROVE Taken(t)
  <2>1. Len(t) = 3 /\ t[2] = 187 /\ t[3] = 191
    BY <1>4 DEF BOM
  <2>2. ACCEPT(239) = Continuation
    BY DEF ACCEPT
  <2> QED
    BY <1>3, <2>1, <2>2 DEF Taken, Continuation
<1> QED
  BY <1>1, <1>3, <1>4 DEF Taken

MarkAt(s, n) ==
    /\ IsSequence(SubSeq(s, 1, n)) => n = 3
    /\ SubSeq(s, 1, n) = BOM => IsSequence(SubSeq(s, 1, n))

LEMMA FirstBytes ==
    ASSUME NEW s \in Seq(Byte), s[1] = 239, NEW n \in 1 .. 4, n <= Len(s)
    PROVE  MarkAt(s, n)
<1>1. PICK t : t = SubSeq(s, 1, n)
  OBVIOUS
<1>2. t \in Seq(Byte) /\ Len(t) = n /\ t[1] = 239
  <2>1. 1 \in 1 .. Len(s) + 1 /\ n \in 1 - 1 .. Len(s) /\ Len(s) \in Nat
    BY LenProperties
  <2>2. /\ SubSeq(s, 1, n) \in Seq(Byte)
        /\ Len(SubSeq(s, 1, n)) = IF 1 <= n THEN n - 1 + 1 ELSE 0
        /\ \A i \in 1 .. n - 1 + 1 : SubSeq(s, 1, n)[i] = s[1 + i - 1]
    BY <2>1, SubSeqProperties
  <2>3. 1 \in 1 .. n - 1 + 1 /\ 1 + 1 - 1 = 1 /\ n - 1 + 1 = n /\ 1 <= n
    OBVIOUS
  <2> QED
    BY <1>1, <2>2, <2>3
<1>3. IsSequence(t) => n = 3
  BY <1>2, MarkIsSequence
<1>4. t = BOM => IsSequence(t)
  BY <1>2, MarkIsSequence
<1> QED
  BY <1>1, <1>3, <1>4, Zenon DEF MarkAt

\* Between a place of what is behind the mark and the same place of the file.
LEMMA BehindMark ==
    ASSUME NEW s \in Seq(Byte), Len(s) >= 3,
           NEW m \in 0 .. Len(s) - 3, NEW n \in 0 .. Len(s) - 3, m < n
    PROVE  /\ SubSeq(SubSeq(s, 4, Len(s)), m + 1, n) = SubSeq(s, (m + 3) + 1, n + 3)
           /\ Len(SubSeq(s, 4, Len(s))) = Len(s) - 3
<1>1. Len(s) \in Nat
  BY LenProperties
<1>2. Len(SubSeq(s, 4, Len(s))) = Len(s) - 3
  <2>1. Len(SubSeq(s, 4, Len(s))) = IF 4 <= Len(s) THEN Len(s) - 4 + 1 ELSE 0
    BY <1>1, SubSeqProperties
  <2> QED
    BY <1>1, <2>1
<1>3. /\ 4 \in 1 .. Len(s) /\ Len(s) \in 1 .. Len(s)
      /\ m + 1 \in 1 .. Len(s) - 4 + 1 /\ n \in 1 .. Len(s) - 4 + 1
  BY <1>1
<1>4. SubSeq(SubSeq(s, 4, Len(s)), m + 1, n) = SubSeq(s, 4 + (m + 1) - 1, 4 + n - 1)
  BY <1>1, <1>3, SubSeqOfSubSeq
<1>5. 4 + (m + 1) - 1 = (m + 3) + 1 /\ 4 + n - 1 = n + 3
  OBVIOUS
<1> QED
  BY <1>2, <1>4, <1>5

\* Bytes are a text with the byte order mark before them if they are without.
LEMMA MarkedText ==
    ASSUME NEW s \in Seq(Byte), Len(s) >= 3, SubSeq(s, 1, 3) = BOM
    PROVE  IsText(s) <=> IsText(SubSeq(s, 4, Len(s)))
<1> DEFINE t == SubSeq(s, 4, Len(s))
           N == Len(s)
<1>0. /\ N \in Nat /\ N >= 3
      /\ 0 \in 0 .. N - 3 /\ \A k \in 1 .. N : s[k] \in Byte
  BY LenProperties, ElementOfSeq
<1>1. Len(t) = N - 3 /\ t \in Seq(Byte)
  <2>1. /\ Len(t) = IF 4 <= N THEN N - 4 + 1 ELSE 0
        /\ t \in Seq(Byte)
    BY <1>0, SubSeqProperties
  <2> QED
    BY <1>0, <2>1
<1>2. \A m, n \in 0 .. N - 3 : m < n =>
        SubSeq(t, m + 1, n) = SubSeq(s, (m + 3) + 1, n + 3)
  BY <1>0, BehindMark
<1>3. s[1] = 239
  <2>1. SubSeq(s, 1, 3)[1] = s[1 + 1 - 1]
    <3>1. 1 \in 1 .. 3 - 1 + 1 /\ 1 \in 1 .. N /\ 3 \in 1 - 1 .. N
      BY <1>0
    <3> QED
      BY <1>0, <3>1, SubSeqProperties
  <2>2. BOM[1] = 239
    BY DEF BOM
  <2>3. 1 + 1 - 1 = 1
    OBVIOUS
  <2> QED
    BY <2>1, <2>2, <2>3, Zenon
<1>4. ASSUME NEW n \in 1 .. 4, n <= N
      PROVE  MarkAt(s, n)
  BY <1>3, <1>4, FirstBytes
<1> HIDE DEF t, N
<1>5. ASSUME IsText(s) PROVE IsText(t)
  <2>1. PICK ends \in SUBSET (0 .. N) :
          /\ {0, N} \subseteq ends
          /\ \A m \in ends \ {N} : \E n \in ends \cap (m + 1 .. m + 4) :
               IsSequence(SubSeq(s, m + 1, n))
    BY <1>5 DEF IsText, N
  <2> DEFINE behind == {m \in 0 .. N - 3 : m + 3 \in ends}
  <2>2. 3 \in ends
    <3>1. PICK n \in ends \cap (0 + 1 .. 0 + 4) : IsSequence(SubSeq(s, 0 + 1, n))
      BY <1>0, <2>1
    <3>2. n \in 1 .. 4 /\ n <= N /\ IsSequence(SubSeq(s, 1, n))
      BY <2>1, <3>1
    <3>3. n = 3
      BY <1>4, <3>2 DEF MarkAt
    <3> QED
      BY <3>1, <3>3
  <2>3. 0 \in behind /\ N - 3 \in behind
    BY <1>0, <2>1, <2>2
  <2>4. ASSUME NEW m \in behind \ {N - 3}
        PROVE  \E n \in behind \cap (m + 1 .. m + 4) : IsSequence(SubSeq(t, m + 1, n))
    <3>1. m \in 0 .. N - 3 /\ m + 3 \in ends /\ m + 3 # N
      BY <1>0
    <3>2. PICK k \in ends \cap ((m + 3) + 1 .. (m + 3) + 4) :
            IsSequence(SubSeq(s, (m + 3) + 1, k))
      BY <2>1, <3>1
    <3>3. PICK n \in 0 .. N - 3 : n + 3 = k /\ m < n /\ n \in m + 1 .. m + 4
      <4>1. k \in 0 .. N /\ k \in (m + 3) + 1 .. (m + 3) + 4
        BY <2>1, <3>2
      <4>2. /\ k - 3 \in 0 .. N - 3 /\ (k - 3) + 3 = k /\ m < k - 3
            /\ k - 3 \in m + 1 .. m + 4
        BY <1>0, <3>1, <4>1
      <4> QED
        BY <4>2
    <3>4. SubSeq(t, m + 1, n) = SubSeq(s, (m + 3) + 1, k)
      BY <1>2, <3>1, <3>3
    <3> QED
      BY <3>2, <3>3, <3>4
  <2> HIDE DEF behind
  <2>5. behind \in SUBSET (0 .. N - 3)
    BY DEF behind
  <2> QED
    BY <1>1, <2>3, <2>4, <2>5 DEF IsText
<1>6. ASSUME IsText(t) PROVE IsText(s)
  <2>1. PICK behind \in SUBSET (0 .. N - 3) :
          /\ {0, N - 3} \subseteq behind
          /\ \A m \in behind \ {N - 3} : \E n \in behind \cap (m + 1 .. m + 4) :
               IsSequence(SubSeq(t, m + 1, n))
    BY <1>1, <1>6 DEF IsText
  <2> DEFINE ends == {0} \cup {k \in 3 .. N : k - 3 \in behind}
  <2>2. 0 \in ends /\ 3 \in ends /\ N \in ends /\ ends \in SUBSET (0 .. N)
    BY <1>0, <2>1
  <2>3. ASSUME NEW k \in ends \ {N}
        PROVE  \E n \in ends \cap (k + 1 .. k + 4) : IsSequence(SubSeq(s, k + 1, n))
    <3>1. CASE k = 0
      <4>1. IsSequence(SubSeq(s, 1, 3))
        <5>1. 3 \in 1 .. 4 /\ 3 <= N
          BY <1>0
        <5> QED
          BY <1>4, <5>1, Zenon DEF MarkAt
      <4>2. 3 \in ends \cap (k + 1 .. k + 4) /\ k + 1 = 1
        BY <2>2, <3>1
      <4> QED
        BY <4>1, <4>2
    <3>2. CASE k # 0
      <4>1. PICK m \in behind : k = m + 3 /\ m \in 0 .. N - 3 /\ m # N - 3
        <5>1. k \in 3 .. N /\ k - 3 \in behind /\ k # N
          BY <3>2
        <5>2. k = (k - 3) + 3 /\ k - 3 # N - 3
          BY <1>0, <5>1
        <5> QED
          BY <2>1, <5>1, <5>2
      <4>2. PICK n \in behind \cap (m + 1 .. m + 4) : IsSequence(SubSeq(t, m + 1, n))
        BY <2>1, <4>1
      <4>3. n \in 0 .. N - 3 /\ m < n /\ n \in m + 1 .. m + 4
        BY <2>1, <4>1, <4>2
      <4>4. SubSeq(t, m + 1, n) = SubSeq(s, k + 1, n + 3)
        BY <1>2, <4>1, <4>3
      <4>5. n + 3 \in 3 .. N /\ (n + 3) - 3 = n /\ n + 3 \in k + 1 .. k + 4
        BY <1>0, <4>1, <4>3
      <4>6. n + 3 \in ends \cap (k + 1 .. k + 4)
        BY <4>2, <4>5
      <4> HIDE DEF ends
      <4> QED
        BY <4>2, <4>4, <4>6
    <3> QED
      BY <3>1, <3>2
  <2> HIDE DEF ends
  <2> QED
    BY <2>2, <2>3 DEF IsText, N
<1> QED
  BY <1>5, <1>6 DEF t, N

\* What the mark is removed from is a text if the file is, and then it holds
\* all of the file.
LEMMA BodyHolds ==
    ASSUME NEW file \in Files
    PROVE  /\ Illegal(Body(file)) <=> ~ IsText(file)
           /\ Promise!Holds(lenientDecode(Body(file)), file)
<1>1. file \in Seq(Byte)
  BY FilesAssumption DEF Byte
<1>2. PICK s \in Seq(Byte) : s = Body(file)
  BY <1>1, BodyIsFile
<1>3. IsText(s) <=> IsText(file)
  <2>1. CASE IsPrefix(BOM, file)
    <3>1. PICK f \in Seq(Byte) : f = file
      BY <1>1
    <3>2. /\ Len(f) >= 3 /\ SubSeq(f, 1, 3) = BOM
          /\ Body(f) = SubSeq(f, 4, Len(f))
      BY <2>1, <3>1, BodyIsFile
    <3>3. IsText(f) <=> IsText(SubSeq(f, 4, Len(f)))
      BY <3>2, MarkedText
    <3> QED
      BY <1>2, <3>1, <3>2, <3>3, Zenon
  <2>2. CASE ~ IsPrefix(BOM, file)
    BY <1>2, <2>2 DEF Body
  <2> QED
    BY <2>1, <2>2
<1>4. /\ Illegal(s) <=> ~ IsText(s)
      /\ IsText(s) => lenientEncode(lenientDecode(s)) = s
  BY Utf8IsDecoded
<1>5. lenientDecode(s) \in Seq(Nat)
  BY LenientTypes, ValidIsNat
<1>6. file = (IF IsPrefix(BOM, file) THEN BOM ELSE <<>>) \o s
  BY <1>1, <1>2, BodyIsFile
<1>7. Promise!Holds(lenientDecode(s), file)
  <2>1. Promise!IsPrefix(BOM, file) <=> IsPrefix(BOM, file)
    BY DEF Promise!IsPrefix, IsPrefix
  <2> QED
    BY <1>3, <1>4, <1>5, <1>6, <2>1, Zenon DEF Promise!Holds
<1> QED
  BY <1>2, <1>3, <1>4, <1>7, Zenon

\* A load gives a new tape, or none from a stream that is not good, and refuses
\* what is no text.
LEMMA LoadsTape ==
    ASSUME StreamInv, StreamInv', NEW file \in Files, NEW lenient \in BOOLEAN,
           NEW from \in {"buffer", "stream", "badStream"}, load(file, lenient, from)
    PROVE  Promise!Load \/ Promise!LoadNothing \/ Promise!Refuse
<1>0. /\ last'.call = "load" /\ last'.file = file /\ last'.lenient = lenient
      /\ last'.from = from
  BY DEF load
<1>1. Illegal(Body(file)) <=> ~ IsText(file)
  BY BodyHolds
<1>2. ASSUME UNCHANGED <<data, p>> PROVE UNCHANGED cut
  BY <1>2 DEF cut
<1>3. CASE from = "badStream"
  <2>1. UNCHANGED <<data, p>> /\ last'.result = <<>>
    BY <1>3 DEF load, NoResult
  <2> QED
    BY <1>0, <1>2, <1>3, <2>1, Zenon DEF Promise!LoadNothing, Promise!Done
<1>4. CASE from # "badStream" /\ ~ lenient /\ Illegal(Body(file))
  <2>1. last'.result = <<"thrown">>
    BY <1>4 DEF load, Thrown
  <2>2. CASE from # "stream"
    <3>1. UNCHANGED <<data, p>>
      BY <1>4, <2>2 DEF load
    <3> QED
      BY <1>0, <1>1, <1>2, <1>4, <2>1, <2>2, <3>1, Zenon
         DEF Promise!Refuse, Promise!Thrown, Promise!Strict
  <2>3. CASE from = "stream"
    <3>1. data' = <<>> /\ p' = p
      BY <1>4, <2>3 DEF load
    <3>2. Before(data', p') = <<>> /\ After(data', p') = <<>>
      BY <3>1, EmptyTape DEF StreamInv
    <3>3. p' \in Nat /\ Len(data') \in Nat
      BY StreamTypes
    <3>4. (p' > Len(data')) \in BOOLEAN
      BY <3>3, Greater
    <3> QED
      BY <1>0, <1>1, <1>4, <2>1, <2>3, <3>2, <3>4, TapeOfStream, Zenon
         DEF Promise!Refuse, Promise!Thrown, Promise!Strict
  <2> QED
    BY <2>2, <2>3
<1>5. CASE from # "badStream" /\ (lenient \/ ~ Illegal(Body(file)))
  <2>1. /\ data' = lenientDecode(Body(file)) /\ p' = 0 /\ last'.result = <<>>
    BY <1>5 DEF load, NoResult
  <2>2. data' \in Seq(Valid)
    BY <2>1, BodyTypes
  <2>3. Before(data', p') = <<>> /\ After(data', p') = data' /\ ~ (p' > Len(data'))
    BY <2>1, <2>2, UnreadTape
  <2>4. p' \in Nat /\ Len(data') \in Nat
    BY StreamTypes
  <2>5. (p' > Len(data')) = FALSE
    BY <2>3, <2>4, Greater
  <2>6. Promise!Holds(data', file)
    BY <2>1, BodyHolds
  <2> QED
    BY <1>0, <1>1, <1>5, <2>1, <2>3, <2>5, <2>6, TapeOfStream, Zenon
       DEF Promise!Load, Promise!Done, Promise!Strict
<1> QED
  BY <1>3, <1>4, <1>5
\* The tape of a text that the position lies in, or that is empty.
LEMMA TapeOfText ==
    ASSUME NEW d \in Seq(Valid), NEW q \in Nat, q > Len(d) => d = <<>>
    PROVE  /\ Before(d, q) \in Seq(Valid) /\ After(d, q) \in Seq(Valid)
           /\ Before(d, q) \o After(d, q) = d
           /\ Len(Before(d, q)) = (IF q <= Len(d) THEN q ELSE Len(d))
           /\ Len(After(d, q)) = (IF q <= Len(d) THEN Len(d) - q ELSE 0)
           /\ \A k \in 1 .. Len(Before(d, q)) : Before(d, q)[k] = d[k]
           /\ \A k \in 1 .. Len(After(d, q)) : After(d, q)[k] = d[q + k]
<1>1. CASE q <= Len(d)
  BY <1>1, TapeOf
<1>2. CASE ~ (q <= Len(d))
  <2>1. d = <<>>
    BY <1>2
  <2>2. Before(d, q) = <<>> /\ After(d, q) = <<>>
    BY <2>1, EmptyTape
  <2>3. <<>> \in Seq(Valid) /\ Len(<<>>) = 0 /\ <<>> \o <<>> = <<>>
    OBVIOUS
  <2>4. Len(Before(d, q)) = 0 /\ Len(After(d, q)) = 0 /\ Len(d) = 0
    BY <2>1, <2>2, <2>3, Zenon
  <2>5. /\ Before(d, q) \in Seq(Valid) /\ After(d, q) \in Seq(Valid)
        /\ Before(d, q) \o After(d, q) = d
    BY <2>1, <2>2, <2>3, Zenon
  <2> QED
    BY <1>2, <2>4, <2>5
<1> QED
  BY <1>1, <1>2

LEMMA StreamTape ==
    ASSUME StreamInv
    PROVE  /\ Before(data, p) \in Seq(Valid) /\ After(data, p) \in Seq(Valid)
           /\ Before(data, p) \o After(data, p) = data
           /\ Len(Before(data, p)) = (IF p <= Len(data) THEN p ELSE Len(data))
           /\ Len(After(data, p)) = (IF p <= Len(data) THEN Len(data) - p ELSE 0)
           /\ \A k \in 1 .. Len(Before(data, p)) : Before(data, p)[k] = data[k]
           /\ \A k \in 1 .. Len(After(data, p)) : After(data, p)[k] = data[p + k]
           /\ p \in Nat /\ Len(data) \in Nat /\ (p > Len(data) => Len(data) = 0)
  BY TapeOfText DEF StreamInv

LEMMA StreamTapeNext ==
    ASSUME StreamInv'
    PROVE  /\ Before(data', p') \in Seq(Valid) /\ After(data', p') \in Seq(Valid)
           /\ Before(data', p') \o After(data', p') = data'
           /\ Len(Before(data', p')) = (IF p' <= Len(data') THEN p' ELSE Len(data'))
           /\ p' \in Nat
  BY TapeOfText DEF StreamInv

\* The tape takes the lesser of two numbers as the stream does.
LEMMA SameLeast ==
    ASSUME NEW a, NEW b
    PROVE  Promise!Min({a, b}) = Min({a, b})
  BY Zenon DEF Promise!Min, Min

\* A step that seeks a place seeks it on the tape.
LEMMA SeeksTape ==
    ASSUME StreamInv, StreamInv', UNCHANGED data,
           last'.call = "seek", last'.result = <<>>, last'.index \in Nat,
           p' = (IF last'.index <= p THEN last'.index
                 ELSE IF p < Len(data) THEN Min({last'.index, Len(data)}) ELSE p)
    PROVE  Promise!Seek
<1>1. Len(Before(data', p')) = (IF p' <= Len(data) THEN p' ELSE Len(data))
  BY StreamTapeNext
<1>2. Len(Before(data, p)) + Len(After(data, p)) = Len(data)
  BY StreamTape
<1>3. p' \in Nat /\ p \in Nat /\ Len(data) \in Nat /\ (p > Len(data) => Len(data) = 0)
  BY StreamTape, StreamTapeNext
<1>4. /\ (IF p' <= Len(data) THEN p' ELSE Len(data)) = Min({last'.index, Len(data)})
      /\ p' > Len(data) => p > Len(data)
  BY <1>3, LeastOfTwo
<1>5. Before(data', p') \o After(data', p') = Before(data, p) \o After(data, p)
  BY StreamTape, StreamTapeNext
<1>6. Len(Before(data', p'))
        = Min({last'.index, Len(Before(data, p)) + Len(After(data, p))})
  BY <1>1, <1>2, <1>4
<1>7. p' > Len(data') => p > Len(data)
  BY <1>4
<1> QED
  BY <1>5, <1>6, <1>7, TapeOfStream, SameLeast, Zenon DEF Promise!Seek, Promise!Done

\* A step that consumes a character reads it from the tape.
LEMMA ReadCharacter ==
    ASSUME NEW d \in Seq(Valid), NEW q \in Nat, q < Len(d)
    PROVE  /\ Before(d, q + 1) = Append(Before(d, q), Head(After(d, q)))
           /\ After(d, q + 1) = Tail(After(d, q))
           /\ After(d, q) # <<>>
<1>1. q + 1 \in Nat /\ q + 1 <= Len(d) /\ q <= Len(d) /\ Len(d) \in Nat
  OBVIOUS
<1>2. /\ Before(d, q) \in Seq(Valid) /\ Len(Before(d, q)) = q
      /\ \A k \in 1 .. q : Before(d, q)[k] = d[k]
      /\ After(d, q) \in Seq(Valid) /\ Len(After(d, q)) = Len(d) - q
      /\ \A k \in 1 .. Len(d) - q : After(d, q)[k] = d[q + k]
  BY <1>1, TapeOf
<1>3. /\ Before(d, q + 1) \in Seq(Valid) /\ Len(Before(d, q + 1)) = q + 1
      /\ \A k \in 1 .. q + 1 : Before(d, q + 1)[k] = d[k]
      /\ After(d, q + 1) \in Seq(Valid) /\ Len(After(d, q + 1)) = Len(d) - (q + 1)
      /\ \A k \in 1 .. Len(d) - (q + 1) : After(d, q + 1)[k] = d[(q + 1) + k]
  BY <1>1, TapeOf
<1> DEFINE b == Before(d, q)
           r == After(d, q)
           b1 == Before(d, q + 1)
           r1 == After(d, q + 1)
<1> HIDE DEF b, r, b1, r1
<1>4. r # <<>>
  BY <1>1, <1>2 DEF r
<1>5. Head(r) = r[1]
  BY <1>2, <1>4 DEF r
<1>6. r[1] = d[q + 1] /\ d[q + 1] \in Valid
  BY <1>1, <1>2 DEF r
<1>7. b1 = Append(b, Head(r))
  <2> DEFINE a == Append(b, d[q + 1])
  <2>1. /\ a \in Seq(Valid) /\ Len(a) = q + 1
        /\ \A k \in 1 .. q : a[k] = b[k]
        /\ a[q + 1] = d[q + 1]
    BY <1>2, <1>6, AppendProperties DEF b
  <2> HIDE DEF a
  <2>2. \A k \in 1 .. q + 1 : a[k] = d[k]
    BY <1>1, <1>2, <2>1 DEF b
  <2>3. b1 \in Seq(Valid) /\ Len(b1) = q + 1 /\ \A k \in 1 .. q + 1 : b1[k] = d[k]
    BY <1>3 DEF b1
  <2>4. b1 = a
    BY <2>1, <2>2, <2>3, SeqEqual
  <2> QED
    BY <1>5, <1>6, <2>4 DEF a
<1>8. r1 = Tail(r)
  <2>1. /\ Tail(r) \in Seq(Valid) /\ Len(Tail(r)) = Len(d) - (q + 1)
        /\ \A k \in 1 .. Len(d) - (q + 1) : Tail(r)[k] = r[k + 1]
    BY <1>1, <1>2, <1>4, HeadTailProperties DEF r
  <2>2. \A k \in 1 .. Len(d) - (q + 1) : r[k + 1] = d[(q + 1) + k]
    <3> TAKE k \in 1 .. Len(d) - (q + 1)
    <3>1. k + 1 \in 1 .. Len(d) - q /\ q + (k + 1) = (q + 1) + k
      BY <1>1
    <3> QED
      BY <1>2, <3>1 DEF r
  <2>3. /\ r1 \in Seq(Valid) /\ Len(r1) = Len(d) - (q + 1)
        /\ \A k \in 1 .. Len(d) - (q + 1) : r1[k] = d[(q + 1) + k]
    BY <1>3 DEF r1
  <2> QED
    BY <2>1, <2>2, <2>3, SeqEqual
<1> QED
  BY <1>4, <1>7, <1>8 DEF b, r, b1, r1
LEMMA ResetIsSeek ==
    ASSUME StreamInv, StreamInv', reset
    PROVE  Promise!Seek
<1>1. /\ last'.call = "seek" /\ last'.result = <<>> /\ last'.index = 0
      /\ UNCHANGED data /\ p' = 0
  BY DEF reset, NoResult
<1>2. 0 \in Nat /\ 0 <= p
  BY StreamTape
<1> QED
  BY <1>1, <1>2, SeeksTape

LEMMA SeekIsSeek ==
    ASSUME StreamInv, StreamInv', NEW n \in Sizes, seek(n)
    PROVE  Promise!Seek
<1>1. /\ last'.call = "seek" /\ last'.result = <<>> /\ last'.index = n
      /\ UNCHANGED data
      /\ p' = IF n <= p THEN n
              ELSE IF p < Len(data) THEN Min({n, Len(data)}) ELSE p
  BY DEF seek, NoResult
<1>2. n \in Nat
  BY DEF Sizes
<1> QED
  BY <1>1, <1>2, SeeksTape

LEMMA ConsumeIsConsume ==
    ASSUME StreamInv, StreamInv', consume
    PROVE  Promise!Consume
<1>1. last'.call = "consume" /\ UNCHANGED data
  BY DEF consume
<1>2. p \in Nat /\ Len(data) \in Nat /\ data \in Seq(Valid)
  BY StreamTypes
<1>3. CASE p >= Len(data)
  <2>1. last'.result = <<"thrown">> /\ p' = p
    BY <1>3 DEF consume, Thrown
  <2>2. Len(After(data, p)) = 0 /\ After(data, p) \in Seq(Valid)
    BY <1>3, StreamTape
  <2>3. After(data, p) = <<>>
    BY <2>2, EmptySeq
  <2>4. UNCHANGED cut
    BY <1>1, <2>1 DEF cut
  <2> QED
    BY <1>1, <2>1, <2>3, <2>4, TapeOfStream, Zenon
       DEF Promise!Consume, Promise!Thrown
<1>4. CASE ~ (p >= Len(data))
  <2>1. last'.result = <<>> /\ p' = p + 1
    BY <1>4 DEF consume, NoResult
  <2>2. /\ Before(data, p + 1) = Append(Before(data, p), Head(After(data, p)))
        /\ After(data, p + 1) = Tail(After(data, p))
        /\ After(data, p) # <<>>
    <3>1. p < Len(data)
      BY <1>2, <1>4
    <3> QED
      BY <1>2, <3>1, ReadCharacter, Zenon
  <2>3. p + 1 \in Nat /\ ~ (p > Len(data)) /\ ~ (p + 1 > Len(data))
    BY <1>2, <1>4
  <2>4. (p > Len(data)) = FALSE /\ (p + 1 > Len(data)) = FALSE
    BY <1>2, <2>3, Greater
  <2>5. (p' > Len(data')) = (p > Len(data))
    BY <1>1, <2>1, <2>4, Zenon
  <2>6. /\ Before(data', p') = Append(Before(data, p), Head(After(data, p)))
        /\ After(data', p') = Tail(After(data, p))
    BY <1>1, <2>1, <2>2, Zenon
  <2> QED
    BY <1>1, <2>1, <2>2, <2>5, <2>6, TapeOfStream, Zenon
       DEF Promise!Consume, Promise!Done
<1> QED
  BY <1>3, <1>4

\* The position that LA looks at, on the tape.
LEMMA LAIsLookAhead ==
    ASSUME StreamInv, NEW i \in Arguments, LA(i)
    PROVE  Promise!LookAhead
<1> DEFINE b == Before(data, p)
           r == After(data, p)
           back == Len(b) + 1 + i
           found == CASE i = 0 -> 0
                      [] i > 0 -> IF i <= Len(r) THEN r[i] ELSE EOF
                      [] OTHER -> IF back >= 1 THEN b[back] ELSE EOF
           offset == IF i < 0 THEN i + 1 ELSE i
           position == p + offset - 1
           looked == IF i = 0 THEN 0
                     ELSE IF position < 0 \/ position >= Len(data) THEN EOF
                     ELSE data[position + 1]
<1>1. last'.call = "LA" /\ last'.i = i /\ last'.result = <<looked>>
      /\ UNCHANGED <<data, p>>
  BY DEF LA, Result
<1>2. /\ Len(b) = (IF p <= Len(data) THEN p ELSE Len(data))
      /\ Len(r) = (IF p <= Len(data) THEN Len(data) - p ELSE 0)
      /\ \A k \in 1 .. Len(b) : b[k] = data[k]
      /\ \A k \in 1 .. Len(r) : r[k] = data[p + k]
      /\ p \in Nat /\ Len(data) \in Nat /\ (p > Len(data) => Len(data) = 0)
  BY StreamTape
<1>3. i \in Int
  BY ArgumentTypes
<1> HIDE DEF b, r
<1>4. looked = found
  <2>1. CASE i = 0
    BY <2>1
  <2>2. CASE i > 0
    <3>1. position = p + i - 1 /\ position + 1 = p + i
      BY <1>2, <1>3, <2>2
    <3>2. i <= Len(r) <=> ~ (position < 0 \/ position >= Len(data))
      BY <1>2, <1>3, <2>2, <3>1
    <3>3. i <= Len(r) => r[i] = data[position + 1]
      BY <1>2, <1>3, <2>2, <3>1
    <3>4. found = (IF i <= Len(r) THEN r[i] ELSE EOF) /\ i # 0
      BY <1>3, <2>2
    <3> HIDE DEF found, position
    <3> QED
      BY <3>2, <3>3, <3>4, Zenon
  <2>3. CASE i < 0
    <3>1. position = p + i /\ position + 1 = p + 1 + i
      BY <1>2, <1>3, <2>3
    <3>2. back >= 1 <=> ~ (position < 0 \/ position >= Len(data))
      BY <1>2, <1>3, <2>3, <3>1
    <3>3. back >= 1 => b[back] = data[position + 1]
      BY <1>2, <1>3, <2>3, <3>1
    <3>4. found = (IF back >= 1 THEN b[back] ELSE EOF) /\ i # 0
      BY <1>3, <2>3
    <3> HIDE DEF found, position, back
    <3> QED
      BY <3>2, <3>3, <3>4, Zenon
  <2> QED
    BY <1>3, <2>1, <2>2, <2>3
<1>5. UNCHANGED cut
  BY <1>1 DEF cut
<1> QED
  BY <1>1, <1>4, <1>5, TapeOfStream, Zenon
     DEF b, r, Promise!LookAhead, Promise!Returned

LEMMA IndexIsIndex ==
    ASSUME StreamInv, index
    PROVE  Promise!Index
<1>1. last'.call = "index" /\ last'.result = <<p>> /\ UNCHANGED <<data, p>>
  BY DEF index, Result
<1>2. p > Len(data) \/ Len(Before(data, p)) = p
  BY StreamTape
<1>3. UNCHANGED cut
  BY <1>1 DEF cut
<1> QED
  BY <1>1, <1>2, <1>3, TapeOfStream, Zenon DEF Promise!Index, Promise!Returned
LEMMA Wraps ==
    ASSUME NEW w \in Nat, NEW x \in Int, -w < x, x < w
    PROVE  x % w = IF x >= 0 THEN x ELSE x + w
  OBVIOUS

\* The last place that getText copies.  Its size_t arithmetic wraps around if
\* the end comes before the start, and substr takes what is then asked for, more
\* than there is, as all of the rest.
LEMMA LastCopied ==
    ASSUME NEW length \in Nat, length < WORD,
           NEW start \in Nat, start < length,
           NEW end \in Nat, end < WORD
    PROVE  LET stop == IF end >= length THEN (length - 1) % WORD ELSE end
               count == (stop - start + 1) % WORD
           IN Min({start + count, length}) =
                IF end < start - 1 THEN length ELSE Min({end + 1, length})
<1> DEFINE stop == IF end >= length THEN (length - 1) % WORD ELSE end
           count == (stop - start + 1) % WORD
<1>0. WORD \in Nat
  BY WordAssumption
<1>1. Min({end + 1, length}) = IF end + 1 <= length THEN end + 1 ELSE length
  BY LeastOfTwo
<1>2. length - 1 \in Int /\ -WORD < length - 1 /\ length - 1 < WORD /\ length - 1 >= 0
  BY <1>0
<1>3. (length - 1) % WORD = length - 1
  BY <1>0, <1>2, Wraps
<1>4. stop = (IF end >= length THEN length - 1 ELSE end) /\ stop \in Nat
  BY <1>2, <1>3
<1> HIDE DEF stop
<1>5. PICK x \in Int : x = stop - start + 1
  BY <1>4
<1>6. -WORD < x /\ x < WORD
  BY <1>0, <1>4, <1>5
<1>7. count = (IF x >= 0 THEN x ELSE x + WORD)
  <2>1. count = x % WORD
    BY <1>5
  <2> QED
    BY <1>0, <1>6, <2>1, Wraps
<1> HIDE DEF count
<1>8. count \in Nat
  BY <1>0, <1>5, <1>6, <1>7
<1>9. Min({start + count, length})
        = IF start + count <= length THEN start + count ELSE length
  BY <1>8, LeastOfTwo
<1>10. (IF start + count <= length THEN start + count ELSE length)
         = IF end < start - 1 THEN length
           ELSE IF end + 1 <= length THEN end + 1 ELSE length
  BY <1>0, <1>4, <1>5, <1>7
<1>11. Min({start + count, length}) =
         IF end < start - 1 THEN length ELSE Min({end + 1, length})
  BY <1>1, <1>9, <1>10
<1> QED
  BY <1>11 DEF count, stop

LEMMA Copied ==
    ASSUME NEW d \in Seq(Valid), Len(d) < WORD,
           NEW start \in Int, NEW end \in Int, end < WORD
    PROVE  LET stop == IF end >= Len(d) THEN (Len(d) - 1) % WORD ELSE end
               count == (stop - start + 1) % WORD
               text == IF start < 0 \/ end < 0 \/ start >= Len(d) THEN <<>>
                       ELSE SubSeq(d, start + 1, Min({start + count, Len(d)}))
               last_ == IF end < start - 1 THEN Len(d) ELSE Min({end + 1, Len(d)})
           IN /\ text = IF start < 0 \/ end < 0 THEN <<>>
                        ELSE SubSeq(d, start + 1, last_)
              /\ \A k \in DOMAIN text : isValid(text[k])
<1> DEFINE stop == IF end >= Len(d) THEN (Len(d) - 1) % WORD ELSE end
           count == (stop - start + 1) % WORD
           text == IF start < 0 \/ end < 0 \/ start >= Len(d) THEN <<>>
                   ELSE SubSeq(d, start + 1, Min({start + count, Len(d)}))
           last_ == IF end < start - 1 THEN Len(d) ELSE Min({end + 1, Len(d)})
           none == start < 0 \/ end < 0
           wanted == /\ text = IF none THEN <<>> ELSE SubSeq(d, start + 1, last_)
                     /\ \A k \in DOMAIN text : isValid(text[k])
<1>0. Len(d) \in Nat /\ DOMAIN <<>> = {}
  OBVIOUS
<1>1. ASSUME none PROVE wanted
  <2>1. text = <<>>
    BY <1>1, Zenon
  <2> HIDE DEF text, last_, none
  <2>2. DOMAIN text = {}
    BY <1>0, <2>1, Zenon
  <2> QED
    BY <1>1, <2>1, <2>2, Zenon
<1>2. ASSUME start \in Nat, end \in Nat, ~ none, start >= Len(d) PROVE wanted
  <2>1. text = <<>>
    BY <1>2, Zenon
  <2>2. last_ \in Int /\ last_ < start + 1
    BY <1>0, <1>2, LeastOfTwo
  <2> HIDE DEF text, last_, none
  <2>3. SubSeq(d, start + 1, last_) = <<>>
    BY <2>2, SubSeqEmpty
  <2>4. DOMAIN text = {}
    BY <1>0, <2>1, Zenon
  <2> QED
    BY <1>2, <2>1, <2>3, <2>4, Zenon
<1>3. ASSUME start \in Nat, end \in Nat, ~ none, start < Len(d) PROVE wanted
  <2>1. Min({start + count, Len(d)}) = last_
    BY <1>0, <1>3, LastCopied
  <2>2. last_ \in Int /\ last_ <= Len(d)
    BY <1>0, <1>3, LeastOfTwo
  <2>3. ~ (start < 0 \/ end < 0 \/ start >= Len(d))
    BY <1>0, <1>3
  <2>4. text = SubSeq(d, start + 1, Min({start + count, Len(d)}))
    BY <2>3, Zenon
  <2> HIDE DEF text, last_, count, none
  <2>5. text = SubSeq(d, start + 1, last_)
    BY <2>1, <2>4, Zenon
  <2>6. start + 1 \in Int /\ \A k \in start + 1 .. last_ : d[k] \in Valid
    BY <1>0, <1>3, <2>2
  <2>7. text \in Seq(Valid)
    BY <2>2, <2>5, <2>6, SubSeqProperties
  <2>8. \A k \in DOMAIN text : isValid(text[k])
    BY <2>7 DEF Valid
  <2> QED
    BY <1>3, <2>5, <2>8, Zenon
<1>4. none \/ (start \in Nat /\ end \in Nat /\ (start >= Len(d) \/ start < Len(d)))
  BY <1>0
<1>5. wanted
  <2> HIDE DEF wanted, none
  <2> QED
    BY <1>1, <1>2, <1>3, <1>4
<1> QED
  BY <1>5, Zenon

LEMMA GetTextIsGetText ==
    ASSUME StreamInv, NEW start \in Arguments, NEW end \in Arguments, getText(start, end)
    PROVE  Promise!GetText
<1> DEFINE stop == IF end >= Len(data) THEN (Len(data) - 1) % WORD ELSE end
           count == (stop - start + 1) % WORD
           text == IF start < 0 \/ end < 0 \/ start >= Len(data) THEN <<>>
                   ELSE SubSeq(data, start + 1, Min({start + count, Len(data)}))
           tape == Before(data, p) \o After(data, p)
           end1 == IF end < start - 1 THEN Len(tape) ELSE Min({end + 1, Len(tape)})
<1>1. /\ last'.call = "getText" /\ last'.start = start /\ last'.end = end
      /\ last'.result = IF \A k \in DOMAIN text : isValid(text[k])
                          THEN <<lenientEncode(text)>> ELSE <<"thrown">>
      /\ UNCHANGED <<data, p>>
  BY DEF getText, Result, Thrown
<1>2. tape = data
  BY StreamTape
<1>3. /\ text = IF start < 0 \/ end < 0 THEN <<>> ELSE SubSeq(tape, start + 1, end1)
      /\ \A k \in DOMAIN text : isValid(text[k])
  <2>1. data \in Seq(Valid) /\ Len(data) < WORD
    BY DEF StreamInv
  <2>2. start \in Int /\ end \in Int /\ end < WORD
    BY ArgumentTypes
  <2> QED
    BY <1>2, <2>1, <2>2, Copied, ZenonT(40)
<1> HIDE DEF text
<1>4. last'.result = <<lenientEncode(IF start < 0 \/ end < 0 THEN <<>>
                                      ELSE SubSeq(tape, start + 1, end1))>>
  BY <1>1, <1>3, Zenon
<1>5. UNCHANGED cut
  BY <1>1 DEF cut
<1>6. end1 = IF end < start - 1 THEN Len(tape) ELSE Promise!Min({end + 1, Len(tape)})
  BY SameLeast, Zenon
<1> QED
  BY <1>1, <1>4, <1>5, <1>6, TapeOfStream, Zenon
     DEF Promise!GetText, Promise!Returned

\* Every step of the stream is one of the tape.
LEMMA StepsAreTape ==
    ASSUME StreamInv, StreamInv', [Next]_vars
    PROVE  [Promise!Next]_(Promise!vars)
<1>1. ASSUME NEW file \in Files, NEW lenient \in BOOLEAN,
             NEW from \in {"buffer", "stream", "badStream"}, load(file, lenient, from)
      PROVE  Promise!Next
  BY <1>1, LoadsTape, Zenon DEF Promise!Next
<1>2. CASE reset
  BY <1>2, ResetIsSeek, Zenon DEF Promise!Next
<1>3. CASE consume
  BY <1>3, ConsumeIsConsume, Zenon DEF Promise!Next
<1>4. CASE index
  BY <1>4, IndexIsIndex, Zenon DEF Promise!Next
<1>5. ASSUME NEW n \in Sizes, seek(n) PROVE Promise!Next
  BY <1>5, SeekIsSeek, Zenon DEF Promise!Next
<1>6. ASSUME NEW i \in Arguments, LA(i) PROVE Promise!Next
  BY <1>6, LAIsLookAhead, Zenon DEF Promise!Next
<1>7. ASSUME NEW start \in Arguments, NEW end \in Arguments, getText(start, end)
      PROVE  Promise!Next
  BY <1>7, GetTextIsGetText, Zenon DEF Promise!Next
<1>8. CASE UNCHANGED vars
  <2>1. UNCHANGED cut
    BY <1>8 DEF vars, cut
  <2> QED
    BY <1>8, <2>1, Zenon DEF vars, Promise!vars
<1> QED
  BY <1>1, <1>2, <1>3, <1>4, <1>5, <1>6, <1>7, <1>8, Zenon DEF Next

LEMMA StartsAsTape ==
    ASSUME Init
    PROVE  StreamInv /\ Promise!Init
<1>1. data = <<>> /\ p = 0 /\ last.call = "none"
  BY DEF Init
<1>2. StreamInv
  BY <1>1, EmptyText DEF StreamInv
<1>3. Before(data, p) = <<>> /\ After(data, p) = <<>>
  BY <1>1, EmptyTape
<1>4. p \in Nat /\ Len(data) \in Nat /\ ~ (p > Len(data))
  BY <1>1, EmptyText
<1>5. (p > Len(data)) = FALSE
  BY <1>4, Greater
<1> QED
  BY <1>1, <1>2, <1>3, <1>5, TapeOfStream, Zenon DEF Promise!Init

\* Whatever text is loaded, strictly or not, and in whatever order it is consumed
\* and sought, every call of the stream answers as a tape of characters would; a
\* text loaded is all of the file but the byte order mark, and only what is no
\* text is refused.
THEOREM StreamIsTape == Spec => ImplementsTape
<1>1. Init => StreamInv /\ Promise!Init
  BY StartsAsTape
<1>2. StreamInv /\ [Next]_vars => StreamInv'
  BY StreamKept
<1>3. StreamInv /\ StreamInv' /\ [Next]_vars => [Promise!Next]_(Promise!vars)
  BY StepsAreTape
<1> QED
  BY <1>1, <1>2, <1>3, PTL DEF Spec, ImplementsTape, Promise!Spec
=============================================================================
