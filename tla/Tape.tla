-------------------------------- MODULE Tape --------------------------------
(***************************************************************************)
(* What a stream of characters promises its reader: a tape that was read   *)
(* up to a point.  last is the call made last, with its arguments and its  *)
(* result, <<"thrown">> if there was none.                                 *)
(***************************************************************************)
EXTENDS Integers, SequencesExt

CONSTANTS EOF,
          Mark,         \* the bytes a file may begin with that are not its text's
          IsText(_),    \* bytes that are a text
          Encoded(_)    \* the bytes of a sequence of characters

VARIABLES before, rest, \* the characters that were read, and the others
          lost,         \* the position is not known: a load has failed
          last

vars == <<before, rest, lost, last>>

Returned(result) == last'.result = <<result>>
Thrown == last'.result = <<"thrown">>
Done == last'.result = <<>>

Init == before = <<>> /\ rest = <<>> /\ lost = FALSE /\ last.call = "none"

\* The characters of a file: all of its bytes, when they are a text.
Holds(text, file) ==
    /\ text \in Seq(Nat)
    /\ IsText(file) =>
         file = (IF IsPrefix(Mark, file) THEN Mark ELSE <<>>) \o Encoded(text)

Strict == ~ last'.lenient

\* A load gives a tape to read from its beginning.
Load ==
    /\ last'.call = "load" /\ last'.from # "badStream" /\ Done
    /\ Strict => IsText(last'.file)
    /\ before' = <<>> /\ Holds(rest', last'.file) /\ lost' = FALSE

LoadNothing ==
    /\ last'.call = "load" /\ last'.from = "badStream" /\ Done
    /\ UNCHANGED <<before, rest, lost>>

\* A file that is no text leaves the old tape, or an empty one if it came from
\* a stream.
Refuse ==
    /\ last'.call = "load" /\ last'.from # "badStream" /\ Thrown
    /\ Strict /\ ~ IsText(last'.file)
    /\ IF last'.from = "stream" THEN before' = <<>> /\ rest' = <<>> /\ lost' \in BOOLEAN
       ELSE UNCHANGED <<before, rest, lost>>

Consume ==
    /\ last'.call = "consume"
    /\ IF rest = <<>> THEN Thrown /\ UNCHANGED <<before, rest>>
       ELSE /\ Done
            /\ before' = Append(before, Head(rest))
            /\ rest' = Tail(rest)
    /\ lost' = lost

\* Anywhere on the tape, or to its end if that comes first.
Seek ==
    /\ last'.call = "seek" /\ Done
    /\ before' \o rest' = before \o rest
    /\ Len(before') = Min({last'.index, Len(before) + Len(rest)})
    /\ lost' => lost

\* LA(1) is read next, LA(-1) was read last, LA(0) is nothing.
LookAhead ==
    /\ last'.call = "LA"
    /\ LET i == last'.i
           back == Len(before) + 1 + i
       IN Returned(CASE i = 0 -> 0
                     [] i > 0 -> IF i <= Len(rest) THEN rest[i] ELSE EOF
                     [] OTHER -> IF back >= 1 THEN before[back] ELSE EOF)
    /\ UNCHANGED <<before, rest, lost>>

Index ==
    /\ last'.call = "index"
    /\ lost \/ Returned(Len(before))
    /\ UNCHANGED <<before, rest, lost>>

\* The characters from start to end, both counted from 0.  If end comes before
\* start by more than one, all from start on.
GetText ==
    /\ last'.call = "getText"
    /\ LET tape == before \o rest
           start == last'.start + 1
           end == IF last'.end < last'.start - 1 THEN Len(tape)
                  ELSE Min({last'.end + 1, Len(tape)})
       IN Returned(Encoded(IF last'.start < 0 \/ last'.end < 0 THEN <<>>
                           ELSE SubSeq(tape, start, end)))
    /\ UNCHANGED <<before, rest, lost>>

Next == \/ Load \/ LoadNothing \/ Refuse \/ Consume \/ Seek
        \/ LookAhead \/ Index \/ GetText

Spec == Init /\ [][Next]_vars
=============================================================================
