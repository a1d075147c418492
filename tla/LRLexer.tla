------------------------------ MODULE LRLexer ------------------------------
(***************************************************************************)
(* dwd/lexer/LRlexer.cpp: tokenize, character by character.  A character   *)
(* of Letter may stand for several letters of the text, as long as none is *)
(* put together from others; a token's value is its sequence of them.      *)
(***************************************************************************)
EXTENDS Grammar

CONSTANTS
    Letter,         \* what isalpha and isdigit admit
    UNDERSCORE,     \* part of a word, but not its beginning
    Space,
    STRING_SYMBOL,
    TOKENSYMBOL     \* all other characters are of no kind

ASSUME CharactersAssumption ==
    /\ Letter \cap (Space \cup STRING_SYMBOL \cup TOKENSYMBOL) = {}
    /\ Space \cap (STRING_SYMBOL \cup TOKENSYMBOL) = {}
    /\ STRING_SYMBOL \cap TOKENSYMBOL = {}
    /\ UNDERSCORE \notin Letter \cup Space \cup STRING_SYMBOL \cup TOKENSYMBOL
    /\ END \in TOKENSYMBOL

Token(type, value) == [type |-> type, value |-> value]

\* Mutant: the word is looked up among the symbols.
isTerminal_Symbols(keywords, word) == Len(word) = 1 /\ word[1] \in TOKENSYMBOL

isTerminal(keywords, word) == Len(word) = 1 /\ word[1] \in keywords

Word(keywords, word) ==
    Token(IF isTerminal(keywords, word) THEN "KEYWORD" ELSE "IDENTIFIER", word)

\* tokens.back().value += c
Lengthened(given, c) ==
    [given EXCEPT ![Len(given)].value = Append(@, c)]

\* tokenize on one more character.  openString is <<>>, or holds the quote that
\* was opened; inWord says that readWord has not met the end of the word.
Lex(lexer, c) ==
    LET given == lexer.tokens
        Go(more) == [lexer EXCEPT !.tokens = more, !.inWord = FALSE]
    IN IF lexer.undefined THEN lexer
       ELSE IF lexer.openString = <<c>> THEN [lexer EXCEPT !.openString = <<>>]
       ELSE IF lexer.openString # <<>> THEN Go(Lengthened(given, c))
       ELSE IF lexer.inWord /\ c \in Letter \cup {UNDERSCORE}
         THEN [lexer EXCEPT !.tokens =
                 Append(Front(@), Word(lexer.keywords, Append(Last(@).value, c)))]
       ELSE IF c \in Letter
         THEN [lexer EXCEPT !.tokens = Append(@, Word(lexer.keywords, <<c>>)),
                            !.inWord = TRUE]
       ELSE IF c \in Space THEN Go(given)
       ELSE IF c \in STRING_SYMBOL
         THEN [Go(Append(given, Token("IDENTIFIER", <<>>)))
                 EXCEPT !.openString = <<c>>]
       ELSE IF c \in TOKENSYMBOL THEN Go(Append(given, Token("SYMBOL", <<c>>)))
       \* Without a token there is no back() to append to.
       ELSE IF given = <<>> THEN [lexer EXCEPT !.undefined = TRUE]
       ELSE Go(Lengthened(given, c))

\* Mutant: only a symbol is followed by the end marker.
Ended_Symbols(given) ==
    IF given # <<>> /\ Last(given).type = "SYMBOL" /\ Last(given).value # <<END>>
      THEN Append(given, Token("SYMBOL", <<END>>)) ELSE given

\* The end marker is added unless the last value looks like it.
Ended(given) ==
    IF given # <<>> /\ Last(given).value # <<END>>
      THEN Append(given, Token("SYMBOL", <<END>>)) ELSE given

\* The loop of tokenize: the lexer after every number of characters.
lexing(keywords, text) ==
    LET upTo[n \in 0 .. Len(text)] ==
          IF n = 0
            THEN [keywords |-> keywords, tokens |-> <<>>, openString |-> <<>>,
                  inWord |-> FALSE, undefined |-> FALSE]
            ELSE Lex(upTo[n - 1], text[n])
    IN upTo

\* setInput and tokenize, by a lexer made with these terminals.
tokenize(keywords, text) ==
    LET lexer == lexing(keywords, text)[Len(text)]
    IN [tokens |-> Ended(lexer.tokens), undefined |-> lexer.undefined]
=============================================================================
