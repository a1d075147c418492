--------------------------- MODULE MCInputStream ---------------------------
(***************************************************************************)
(* Instances of InputStream for TLC.                                       *)
(***************************************************************************)
EXTENDS InputStream

\* Nothing, one letter, two behind a byte order mark, three of one to three
\* bytes, and what is no text, the last of them behind a byte order mark.
MCFiles ==
    {<<>>, <<97>>, BOM \o <<97, 98>>, <<97, 195, 169, 226, 130, 172>>,
     <<97, 255>>, BOM \o <<195>>}

\* The first and the last byte of each kind: ASCII, the four ranges of second
\* bytes, those that begin sequences of every length, and those that begin none.
MCBytes == {127, 128, 143, 144, 159, 160, 191, 193, 194, 224, 237, 239, 240, 244, 245}

MCSamples == SeqOf(MCBytes, 4)
=============================================================================
