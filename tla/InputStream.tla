---------------------------- MODULE InputStream ----------------------------
(***************************************************************************)
(* compiler/inputStream.cpp: a text decoded to code points, and a position *)
(* in it.  One action is one call, on a stream made by InputStream().      *)
(***************************************************************************)
EXTENDS Utf8

CONSTANTS
    Files,      \* the byte sequences that are loaded
    Samples,    \* those on which the decoders are compared with UTF-8
    WORD,       \* stands for 2^64, the number of values of a size_t
    MaxArgument \* bound: arguments go no further beyond the ends of a text

\* What IntStream::EOF, the largest size_t, is as an ssize_t.
EOF == -1

ASSUME FilesAssumption == Files # {} /\ Files \cup Samples \subseteq Seq(0 .. 255)
ASSUME WordAssumption ==
    /\ WORD \in Nat /\ MaxArgument \in Nat
    /\ \A file \in Files : Len(file) + MaxArgument < WORD

VARIABLES
    data,   \* _data
    p,
    last    \* the last call, its arguments, and what it returned or threw

vars == <<data, p, last>>

Arguments == -MaxArgument .. Max({Len(file) : file \in Files}) + MaxArgument
Sizes == Arguments \cap Nat

Result(value) == <<value>>
Thrown == <<"thrown">>
NoResult == <<>>

\* The byte order mark is not part of the text.
BOM == <<239, 187, 191>>
Body(file) == IF IsPrefix(BOM, file) THEN SubSeq(file, 4, Len(file)) ELSE file
-----------------------------------------------------------------------------
Init == data = <<>> /\ p = 0 /\ last = [call |-> "none"]

\* load and the constructors.  From an istream the old text is cleared first,
\* and nothing happens at all if the istream is not good.
load(file, lenient, from) ==
    LET throws == ~ lenient /\ Illegal(Body(file))
    IN /\ IF from = "badStream" THEN UNCHANGED <<data, p>>
          ELSE IF throws
            THEN data' = (IF from = "stream" THEN <<>> ELSE data) /\ p' = p
          ELSE data' = lenientDecode(Body(file)) /\ p' = 0
       /\ last' = [call |-> "load", file |-> file, lenient |-> lenient, from |-> from,
                   result |-> IF throws /\ from # "badStream" THEN Thrown ELSE NoResult]

reset ==
    /\ p' = 0
    /\ last' = [call |-> "seek", index |-> 0, result |-> NoResult]
    /\ UNCHANGED data

consume ==
    /\ IF p >= Len(data) THEN p' = p ELSE p' = p + 1
    /\ last' = [call |-> "consume",
                result |-> IF p >= Len(data) THEN Thrown ELSE NoResult]
    /\ UNCHANGED data

\* Mutant: seek goes forward without regard to the end.
seek_PastEnd(index) ==
    /\ p' = index
    /\ last' = [call |-> "seek", index |-> index, result |-> NoResult]
    /\ UNCHANGED data

\* Forward, by consume, only up to the end.
seek(index) ==
    /\ p' = IF index <= p THEN index
            ELSE IF p < Len(data) THEN Min({index, Len(data)}) ELSE p
    /\ last' = [call |-> "seek", index |-> index, result |-> NoResult]
    /\ UNCHANGED data

LA(i) ==
    LET offset == IF i < 0 THEN i + 1 ELSE i
        position == p + offset - 1
        found == IF i = 0 THEN 0
                 ELSE IF position < 0 \/ position >= Len(data) THEN EOF
                 ELSE data[position + 1]
    IN /\ last' = [call |-> "LA", i |-> i, result |-> Result(found)]
       /\ UNCHANGED <<data, p>>

index == last' = [call |-> "index", result |-> Result(p)] /\ UNCHANGED <<data, p>>

\* The arithmetic is that of size_t, and substr cuts the count at the end.
getText(start, end) ==
    LET stop == IF end >= Len(data) THEN (Len(data) - 1) % WORD ELSE end
        count == (stop - start + 1) % WORD
        text == IF start < 0 \/ end < 0 \/ start >= Len(data) THEN <<>>
                ELSE SubSeq(data, start + 1, Min({start + count, Len(data)}))
    IN /\ last' = [call |-> "getText", start |-> start, end |-> end,
                   result |-> IF \A k \in DOMAIN text : isValid(text[k])
                                THEN Result(lenientEncode(text)) ELSE Thrown]
       /\ UNCHANGED <<data, p>>

Next ==
    \/ \E file \in Files, lenient \in BOOLEAN,
          from \in {"buffer", "stream", "badStream"} : load(file, lenient, from)
    \/ reset \/ consume \/ index
    \/ \E n \in Sizes : seek(n)
    \/ \E i \in Arguments : LA(i)
    \/ \E start, end \in Arguments : getText(start, end)

Spec == Init /\ [][Next]_vars
-----------------------------------------------------------------------------
\* By definition of UTF-8: a sequence of bytes of the right form whose value
\* needs that many bytes and is a code point.
IsSequence(s) ==
    LET first == <<0 .. 127, 192 .. 223, 224 .. 239, 240 .. 247>>[Len(s)]
        least == <<0, 128, 2048, 65536>>[Len(s)]
    IN /\ s[1] \in first
       /\ \A k \in 2 .. Len(s) : s[k] \in Continuation
       /\ bits(s) >= least /\ isValid(bits(s))

\* A text can be cut into sequences: from each place in ends one of them leads
\* to the next.
IsText(s) ==
    \E ends \in SUBSET (0 .. Len(s)) :
        /\ {0, Len(s)} \subseteq ends
        /\ \A m \in ends \ {Len(s)} : \E n \in ends \cap (m + 1 .. m + 4) :
             IsSequence(SubSeq(s, m + 1, n))

cut == Min({p, Len(data)})

Promise == INSTANCE Tape WITH
             before <- SubSeq(data, 1, cut), rest <- SubSeq(data, cut + 1, Len(data)),
             lost <- p > Len(data), Mark <- BOM, Encoded <- lenientEncode

\* The stream is a tape of characters: a load that is not lenient takes the
\* files that are UTF-8 and no others, the byte order mark is not part of the
\* text and all the rest is, and whatever is loaded and in whatever order it is
\* consumed and sought, each call answers from the same text and the same
\* position.  Only a file that is no text, loaded from an istream, empties the
\* tape and leaves index() beyond its end.
ImplementsTape == Promise!Spec

\* The decoders take what is UTF-8 and nothing else, and lose none of it: what
\* is decoded is encoded to the same bytes.  Of other bytes the lenient one
\* makes valid code points as well, and an ASCII character that comes after
\* them is never taken for a part of a sequence that was cut off.
DecodesUtf8 ==
    last.call = "none" => \A s \in Samples :
        LET decoded == lenientDecode(s)
        IN /\ Illegal(s) <=> ~ IsText(s)
           /\ IsText(s) => lenientEncode(decoded) = s
           /\ \A k \in DOMAIN decoded : isValid(decoded[k])
           /\ lenientDecode(Append(s, 65)) = Append(decoded, 65)
=============================================================================
