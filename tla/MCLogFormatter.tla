--------------------------- MODULE MCLogFormatter ---------------------------
(* Short patterns over a small alphabet, and the spellings of short sentences. *)
EXTENDS LogFormatter

Letters == {"m", "p", "r", "c", "t", "n", "d", "f", "l", "T", "F", "q"}

\* Two fields of the table, a letter that is no field, and the rest.
Alphabet == {"m", "q", "percent", "lbrace", "rbrace", "other"}
ShortPatterns == UNION {[1 .. n -> Alphabet] : n \in 0 .. 5}

Token(type, str, fmt) == [type |-> type, str |-> str, fmt |-> fmt]
Fields == {Token("field", <<c>>, <<>>) : c \in DOMAIN s_format_items}
Formatted == {Token("field", <<c>>, fmt) : c \in {"d", "m"}, fmt \in {<<"other">>, <<"percent", "m">>, <<"lbrace">>}}
Texts == {Token("text", str, <<>>) : str \in {<<"other">>, <<"q", "other">>, <<"rbrace">>}}
Tokens == Fields \cup Formatted \cup Texts
FewTokens == {Token("field", <<"m">>, <<>>), Token("field", <<"d">>, <<"percent", "m">>),
              Token("field", <<"d">>, <<>>), Token("text", <<"other">>, <<>>),
              Token("text", <<"q", "other">>, <<>>)}

\* Sentences of the shape of the default pattern (log.h:177) and of
\* tests/config.yml:4.
F(c) == Token("field", <<c>>, <<>>)
X == Token("text", <<"other">>, <<>>)
DefaultPattern ==
    <<Token("field", <<"d">>, <<"percent", "m", "other", "percent", "d">>), F("T"), F("t"), F("T"),
      F("F"), F("T"), X, F("p"), X, F("T"), X, F("c"), X, F("T"), F("f"), X, F("l"), F("T"), F("m")>>
TestPattern ==
    <<Token("text", <<"other", "other">>, <<>>), F("d"), X, F("T"), X, F("p"), X, F("m"), X, F("c"),
      X, F("f"), X, F("l")>>

AllSentences == UNION {[1 .. n -> Tokens] : n \in 0 .. 2} \cup [1 .. 3 -> FewTokens]
                \cup {DefaultPattern, TestPattern}

SentencePatterns == {s[2] : s \in Spellings}
AllPatterns == ShortPatterns \cup SentencePatterns
SomePatterns == {<<"percent", "m">>, <<"percent", "percent", "other">>}
=============================================================================
