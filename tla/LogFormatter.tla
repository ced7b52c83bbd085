---------------------------- MODULE LogFormatter ----------------------------
(***************************************************************************)
(* LogFormatter of server/log.{h,cpp}: init() parses m_pattern, character  *)
(* by character, into the items that format() prints one after the other.  *)
(* The constructor and setPattern() run it.                                *)
(*                                                                         *)
(* A pattern is a sequence of characters. One step is one round of init's  *)
(* outer loop (text) or inner loop (a field). Positions count from 1.      *)
(***************************************************************************)
EXTENDS Naturals, SequencesExt

CONSTANTS
    Alpha,         \* the characters isalpha() accepts
    Patterns,      \* what formatters are constructed with
    Replacements,  \* what setPattern() is called with
    MaxPatterns,   \* bound on the patterns one formatter is given
    Sentences      \* sequences of texts and fields the parser is compared on

VARIABLES
    m_pattern,
    m_items,      \* the FormatItem objects: a class and its argument
    vec,          \* init's list of texts and fields
    literal_str,
    parsing,      \* is init() running?
    i,            \* init's index
    j,            \* the index inside a field, 0 outside
    field_str,
    fmt_begin,    \* where the field's {format} begins, 0 before it
    given         \* history: the patterns this formatter was given

locals == <<vec, literal_str, parsing, i, j, field_str, fmt_begin>>
vars == <<m_pattern, m_items, locals, given>>

\* The letters, %, { and }, and what else there is in a pattern.
Chars == Alpha \cup {"percent", "lbrace", "rbrace", "other"}

\* What vec lists.
Entries == [type : {"text", "field", "error"}, str : Seq(Chars), fmt : Seq(Chars)]

ASSUME FormatterAssumption ==
    /\ MaxPatterns \in Nat \ {0}
    /\ Patterns \cup Replacements \subseteq Seq(Chars)
    /\ {"percent", "lbrace", "rbrace", "other"} \cap Alpha = {}
    /\ Sentences \subseteq Seq(Entries)

----------------------------------------------------------------------------
(* The items.                                                              *)

s_format_items ==
    [m |-> "MessageFormatItem", p |-> "LevelFormatItem", r |-> "ElapsedFormatItem",
     c |-> "NameFormatItem", t |-> "ThreadIdFormatItem", n |-> "NewLineFormatItem",
     d |-> "TimeFormatItem", f |-> "FilenameFormatItem", l |-> "LineFormatItem",
     T |-> "TabFormatItem", F |-> "FiberIdFormatItem"]

\* What one entry of vec becomes. A field that is not in the table, and a field
\* whose format is not closed, print an error text.
Item(entry) ==
    CASE entry.type = "error" -> [class |-> "StringFormatItem", arg |-> <<"pattern_error">>]
      [] entry.type = "text" -> [class |-> "StringFormatItem", arg |-> entry.str]
      [] entry.type = "field" ->
           IF Len(entry.str) = 1 /\ entry.str[1] \in DOMAIN s_format_items
           THEN [class |-> s_format_items[entry.str[1]], arg |-> entry.fmt]
           ELSE [class |-> "StringFormatItem", arg |-> <<"error_format">> \o entry.str]

Items(entries) == [k \in DOMAIN entries |-> Item(entries[k])]

\* FormatItem::format of each class: which member of the event or the logger,
\* or which text, it writes. An empty time format is replaced by the default.
Written(item) ==
    CASE item.class = "StringFormatItem" -> [k \in DOMAIN item.arg |-> [char |-> item.arg[k]]]
      [] item.class = "TimeFormatItem" ->
           <<[member |-> "time", as |-> IF item.arg = <<>> THEN <<"default">> ELSE item.arg]>>
      [] item.class = "MessageFormatItem" -> <<[member |-> "content"]>>
      [] item.class = "LevelFormatItem" -> <<[member |-> "level"]>>
      [] item.class = "ElapsedFormatItem" -> <<[member |-> "elapse"]>>
      [] item.class = "NameFormatItem" -> <<[member |-> "name"]>>
      [] item.class = "ThreadIdFormatItem" -> <<[member |-> "threadId"]>>
      [] item.class = "FiberIdFormatItem" -> <<[member |-> "fiberId"]>>
      [] item.class = "FilenameFormatItem" -> <<[member |-> "file"]>>
      [] item.class = "LineFormatItem" -> <<[member |-> "line"]>>
      [] item.class = "NewLineFormatItem" -> <<[char |-> "newline"]>>
      [] item.class = "TabFormatItem" -> <<[char |-> "tab"]>>

\* LogFormatter::format
Format == FlattenSeq([k \in DOMAIN m_items |-> Written(m_items[k])])

----------------------------------------------------------------------------
(* init().                                                                 *)

Init ==
    /\ m_pattern \in Patterns
    /\ m_items = <<>>
    /\ vec = <<>> /\ literal_str = <<>>
    /\ parsing = TRUE /\ i = 1 /\ j = 0
    /\ field_str = <<>> /\ fmt_begin = 0
    /\ given = <<m_pattern>>

Size == Len(m_pattern)
Scanning == parsing /\ j = 0

\* A character before a %.
Text ==
    /\ Scanning /\ i <= Size
    /\ m_pattern[i] # "percent"
    /\ literal_str' = Append(literal_str, m_pattern[i])
    /\ i' = i + 1
    /\ UNCHANGED <<m_pattern, m_items, vec, parsing, j, field_str, fmt_begin, given>>

\* A % before a %: it is text, and the next round looks at the second one.
Percent ==
    /\ Scanning /\ i < Size
    /\ m_pattern[i] = "percent" /\ m_pattern[i + 1] = "percent"
    /\ literal_str' = Append(literal_str, "percent")
    /\ i' = i + 1
    /\ UNCHANGED <<m_pattern, m_items, vec, parsing, j, field_str, fmt_begin, given>>

Field ==
    /\ Scanning /\ i <= Size
    /\ m_pattern[i] = "percent"
    /\ ~(i < Size /\ m_pattern[i + 1] = "percent")
    /\ j' = i + 1
    /\ field_str' = <<>> /\ fmt_begin' = 0
    /\ UNCHANGED <<m_pattern, m_items, vec, literal_str, parsing, i, given>>

\* Mutant: the text before a field is kept for the next one as well.
Push_KeepsText(entry, last) ==
    /\ vec' = (IF literal_str = <<>> THEN vec
               ELSE Append(vec, [type |-> "text", str |-> literal_str, fmt |-> <<>>])) \o <<entry>>
    /\ i' = last + 1
    /\ j' = 0
    /\ UNCHANGED <<m_pattern, m_items, literal_str, parsing, field_str, fmt_begin, given>>

\* Mutant: the scan goes on one character after the next.
Push_Skips(entry, last) ==
    /\ vec' = (IF literal_str = <<>> THEN vec
               ELSE Append(vec, [type |-> "text", str |-> literal_str, fmt |-> <<>>])) \o <<entry>>
    /\ literal_str' = <<>>
    /\ i' = last + 2
    /\ j' = 0
    /\ UNCHANGED <<m_pattern, m_items, parsing, field_str, fmt_begin, given>>

\* The end of a round with a field: the text before it and the field are
\* listed, and the scan goes on after position last.
Push(entry, last) ==
    /\ vec' = (IF literal_str = <<>> THEN vec
               ELSE Append(vec, [type |-> "text", str |-> literal_str, fmt |-> <<>>])) \o <<entry>>
    /\ literal_str' = <<>>
    /\ i' = last + 1
    /\ j' = 0
    /\ UNCHANGED <<m_pattern, m_items, parsing, field_str, fmt_begin, given>>

InField == j # 0 /\ j <= Size
Between(a, b) == SubSeq(m_pattern, a, b)

\* Neither a letter nor a brace ends a field that has no format.
FieldEnds ==
    /\ InField /\ fmt_begin = 0
    /\ m_pattern[j] \notin Alpha \cup {"lbrace", "rbrace"}
    /\ Push([type |-> "field", str |-> Between(i + 1, j - 1), fmt |-> <<>>], j - 1)

\* Mutant: fmt_status is not set.
FormatOpens_NoStatus ==
    /\ InField /\ fmt_begin = 0
    /\ m_pattern[j] = "lbrace"
    /\ field_str' = Between(i + 1, j - 1)
    /\ UNCHANGED <<m_pattern, m_items, vec, literal_str, parsing, i, j, fmt_begin, given>>

\* A brace opens the format; this round does not move on.
FormatOpens ==
    /\ InField /\ fmt_begin = 0
    /\ m_pattern[j] = "lbrace"
    /\ field_str' = Between(i + 1, j - 1)
    /\ fmt_begin' = j + 1
    /\ UNCHANGED <<m_pattern, m_items, vec, literal_str, parsing, i, j, given>>

FormatCloses ==
    /\ InField /\ fmt_begin # 0
    /\ m_pattern[j] = "rbrace"
    /\ Push([type |-> "field", str |-> field_str, fmt |-> Between(fmt_begin, j - 1)], j)

InsideField ==
    /\ InField
    /\ IF fmt_begin = 0 THEN m_pattern[j] \in Alpha \cup {"rbrace"} ELSE m_pattern[j] # "rbrace"
    /\ j' = j + 1
    /\ UNCHANGED <<m_pattern, m_items, vec, literal_str, parsing, i, field_str, fmt_begin, given>>

\* The pattern ends inside a field.
PatternEnds ==
    /\ j = Size + 1
    /\ Push(IF fmt_begin = 0
            THEN [type |-> "field", str |-> Between(i + 1, Size), fmt |-> <<>>]
            ELSE [type |-> "error", str |-> <<>>, fmt |-> <<>>],
            Size)

\* The last loop of init: the items are added to those there are. What
\* literal_str still holds is dropped.
Finish ==
    /\ Scanning /\ i = Size + 1
    /\ m_items' = m_items \o Items(vec)
    /\ parsing' = FALSE
    /\ UNCHANGED <<m_pattern, vec, literal_str, i, j, field_str, fmt_begin, given>>

\* setPattern(pattern): init again, with fresh locals.
SetPattern(pattern) ==
    /\ ~parsing
    /\ Len(given) < MaxPatterns
    /\ m_pattern' = pattern
    /\ given' = Append(given, pattern)
    /\ vec' = <<>> /\ literal_str' = <<>>
    /\ parsing' = TRUE /\ i' = 1 /\ j' = 0
    /\ field_str' = <<>> /\ fmt_begin' = 0
    /\ UNCHANGED m_items

Parse ==
    \/ Text \/ Percent \/ Field \/ FieldEnds \/ FormatOpens \/ FormatCloses \/ InsideField
    \/ PatternEnds \/ Finish

Next == Parse \/ \E pattern \in Replacements : SetPattern(pattern)

\* init() is a loop of the calling thread: it goes on as long as it can.
Spec == Init /\ [][Next]_vars /\ WF_vars(Parse)
----------------------------------------------------------------------------
(* Properties.                                                             *)

\* Every variable keeps its type, and init's two indices and the begin of a
\* format stay where m_pattern[i], m_pattern[j] and substr may use them.
TypeOK ==
    /\ m_pattern \in Seq(Chars)
    /\ vec \in Seq(Entries)
    /\ literal_str \in Seq(Chars)
    /\ parsing \in BOOLEAN
    /\ i \in 1 .. Size + 1
    /\ j # 0 => parsing /\ i < j /\ j <= Size + 1 /\ m_pattern[i] = "percent"
    /\ fmt_begin # 0 /\ j # 0 => i + 1 < fmt_begin /\ fmt_begin <= j + 1
    /\ field_str \in Seq(Chars)
    /\ Len(given) \in 1 .. MaxPatterns /\ Last(given) = m_pattern

\* How a text or a field is written in a pattern.
Spelling(entry) ==
    IF entry.type = "text" THEN entry.str
    ELSE <<"percent">> \o entry.str
         \o (IF entry.fmt = <<>> THEN <<>> ELSE <<"lbrace">> \o entry.fmt \o <<"rbrace">>)

Spelled(entries) == FlattenSeq([k \in DOMAIN entries |-> Spelling(entries[k])])

\* The reference: what log.h says each field stands for, and the comments of
\* the table in init for the two it leaves out. Of %p it is left open: log.h:111
\* says the process number, the class in the table writes the level.
Meaning(entry, process) ==
    LET members == [m |-> "content", p |-> process, r |-> "elapse", c |-> "name",
                    t |-> "threadId", F |-> "fiberId", f |-> "file", l |-> "line"]
        chars == [n |-> "newline", T |-> "tab"]
    IN  IF entry.type = "text" THEN [k \in DOMAIN entry.str |-> [char |-> entry.str[k]]]
        ELSE LET c == entry.str[1]
             IN  CASE c \in DOMAIN members -> <<[member |-> members[c]]>>
                   [] c \in DOMAIN chars -> <<[char |-> chars[c]]>>
                   [] c = "d" -> <<[member |-> "time",
                                    as |-> IF entry.fmt = <<>> THEN <<"default">> ELSE entry.fmt]>>

StandsFor(toks, process) == FlattenSeq([k \in DOMAIN toks |-> Meaning(toks[k], process)])

\* A field is a letter of the table, a format has no }. A text has no %: log.cpp:352
\* has %% for it, and init does not read that as one.
WellFormed(token) ==
    \/ /\ token.type = "text" /\ token.str # <<>> /\ token.fmt = <<>>
       /\ \A k \in DOMAIN token.str : token.str[k] # "percent"
    \/ /\ token.type = "field" /\ Len(token.str) = 1
       /\ token.str[1] \in Alpha \cap DOMAIN s_format_items
       /\ \A k \in DOMAIN token.fmt : token.fmt[k] # "rbrace"

\* Sentences whose spelling is not ambiguous: texts are not next to each other,
\* and a field without a format is not followed by a letter or a brace.
Delimited(toks) ==
    /\ \A k \in DOMAIN toks : WellFormed(toks[k])
    /\ \A k \in 1 .. Len(toks) - 1 :
         /\ toks[k].type = "text" => toks[k + 1].type = "field"
         /\ toks[k].type = "field" /\ toks[k].fmt = <<>> =>
                Spelling(toks[k + 1])[1] \notin Alpha \cup {"lbrace", "rbrace"}

Spellings == {<<toks, Spelled(toks)>> : toks \in {s \in Sentences : Delimited(s)}}

\* A sentence without a text at its end.
UpToLastField(toks) == IF toks # <<>> /\ Last(toks).type = "text" THEN Front(toks) ELSE toks

\* A formatter prints what its pattern spells: for every sentence of texts and
\* fields, init parses the pattern that spells it so that format() writes the
\* texts and what the fields stand for, in order. Only a text after the last
\* field may be missing (init drops it), and nothing is said of texts with a %.
\* After setPattern() it writes that last: the items of earlier patterns stay in
\* front.
PrintsWhatItSpells ==
    ~parsing => \E process \in {"level", "processId"} :
        \A s \in Spellings : s[2] = m_pattern =>
            \E toks \in {s[1], UpToLastField(s[1])} :
                IF Len(given) = 1 THEN Format = StandsFor(toks, process)
                ELSE IsSuffix(StandsFor(toks, process), Format)

\* Whatever the pattern, well-formed or not, init takes every character into
\* account once and in order: what it has listed and collected spells the part
\* of the pattern it has passed. Only the braces of an empty format, and a
\* format that is never closed, are not kept. From the first %% on nothing is
\* claimed: the comment at log.cpp:352 has it stand for one %, and init reads the
\* second one again.
ConsumedIsKept ==
    \/ \E k \in 1 .. Size - 1 : m_pattern[k] = "lbrace" /\ m_pattern[k + 1] = "rbrace"
    \/ \E k \in DOMAIN vec : vec[k].type = "error"
    \/ \E k \in 1 .. Size - 1 : k < i /\ m_pattern[k] = "percent" /\ m_pattern[k + 1] = "percent"
    \/ Spelled(vec) \o literal_str = SubSeq(m_pattern, 1, i - 1)

\* init() ends for every pattern: the rounds that step the index back, or leave
\* it where it is, do not repeat.
InitTerminates == parsing ~> ~parsing
=============================================================================
