------------------------------ MODULE Settings ------------------------------
(***************************************************************************)
(* language/config.py and LanguageApp's keyword tests: which words of the  *)
(* environment become keywords, and which inputs contain one.              *)
(*                                                                         *)
(* Whether a keyword occurs is a question about characters, so texts are   *)
(* sequences of them here. " " is any white space, and Upper says which    *)
(* characters have another in lower case. A variable of the environment is *)
(* the sequence of its pieces between commas; an unset one is one empty    *)
(* piece.                                                                  *)
(***************************************************************************)
EXTENDS Sequences, FiniteSetsExt, Integers

CONSTANTS
    Upper,          \* a function from capitals to small letters
    StopDefault,    \* STOP_KEYWORDS_DEFAULT
    TrashDefault    \* TRASH_KEYWORDS_DEFAULT

ASSUME DefaultsAssumption ==
    \A words \in {StopDefault, TrashDefault} :
        words \in Seq(Seq(STRING)) /\ words # <<>> /\ <<>> \notin {words[i] : i \in DOMAIN words}

\* A small letter is a character too.
ASSUME UpperAssumption == \A c \in DOMAIN Upper : Upper[c] \in STRING

\* str.strip
Strip(word) ==
    LET ink == {i \in DOMAIN word : word[i] # " "} IN
    IF ink = {} THEN <<>> ELSE SubSeq(word, Min(ink), Max(ink))

\* str.lower
Lower(word) ==
    [i \in DOMAIN word |-> IF word[i] \in DOMAIN Upper THEN Upper[word[i]] ELSE word[i]]

\* Fault: empty pieces count.
EveryPiece(word) == TRUE

\* if s.strip()
NotEmpty(word) == word # <<>>

\* _parse_stop_keywords, _parse_trash_keywords. The lists are only ever asked
\* whether some word of theirs occurs: they are sets here.
Keywords(pieces, default) ==
    LET words == {word \in {Strip(pieces[i]) : i \in DOMAIN pieces} : NotEmpty(word)} IN
    IF words = {} THEN {default[i] : i \in DOMAIN default} ELSE words

\* Python's `in` on texts
Occurs(word, text) ==
    \E i \in 0..(Len(text) - Len(word)) : SubSeq(text, i + 1, i + Len(word)) = word

\* any(kw.lower() in text for kw in ...)
ContainsAny(words, text) == \E word \in words : Occurs(Lower(word), Lower(text))

\* Config: the keywords' variables, whether there is an API key, whether
\* COORDINATOR_ENABLED and INSTRUCTION_PUB_ENABLED are "1"
IsStopIntent(config, text) == ContainsAny(Keywords(config.stop, StopDefault), text)
IsTrashIntent(config, text) == ContainsAny(Keywords(config.trash, TrashDefault), text)

\* Config.validate raises
Invalid(config) == ~config.key \/ config.coordinator
=============================================================================
