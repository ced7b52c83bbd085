------------------------- MODULE LogFormatterProofs -------------------------
(***************************************************************************)
(* Proofs about LogFormatter::init, for any patterns over any alphabet.    *)
(* Between two rounds i and j are where m_pattern and substr may use them, *)
(* and what has been listed and collected spells what has been passed.     *)
(***************************************************************************)
EXTENDS LogFormatter, DataLemmas

\* Inside a format: where its brace is, and the field before it.
InFormat ==
    j # 0 /\ fmt_begin # 0 => /\ m_pattern[fmt_begin - 1] = "lbrace"
                              /\ field_str = SubSeq(m_pattern, i + 1, fmt_begin - 2)

ScanInv ==
    /\ TypeOK
    /\ j \in 0 .. Size + 1
    /\ fmt_begin \in Nat
    /\ InFormat

\* Types of the pattern's pieces.
LEMMA PatternTypes ==
    ASSUME ScanInv
    PROVE  /\ m_pattern \in Seq(Chars) /\ Size \in Nat /\ i \in Nat /\ i >= 1 /\ i <= Size + 1 /\ j \in Nat
           /\ DOMAIN m_pattern = 1 .. Size
           /\ \A k \in 1 .. Size : m_pattern[k] \in Chars
           /\ vec \in Seq(Entries) /\ literal_str \in Seq(Chars) /\ field_str \in Seq(Chars)
BY ElementOfSeq DEF ScanInv, TypeOK, Size

\* substr of the pattern.
LEMMA BetweenType ==
    ASSUME ScanInv, NEW a \in Nat, a >= 1, NEW b \in Int, b <= Size
    PROVE  SubSeq(m_pattern, a, b) \in Seq(Chars)
<1>1. \A k \in a .. b : m_pattern[k] \in Chars
  BY PatternTypes
<1> QED
  BY <1>1, SubSeqProperties

\* The end of a round with a field leaves the indices where they may be.
LEMMA PushTyped ==
    ASSUME ScanInv, NEW entry \in Entries, NEW last \in 0 .. Size, Push(entry, last)
    PROVE  ScanInv'
<1>1. /\ m_pattern' = m_pattern /\ i' = last + 1 /\ j' = 0 /\ literal_str' = <<>>
      /\ parsing' = parsing /\ field_str' = field_str /\ fmt_begin' = fmt_begin /\ given' = given
  BY DEF Push
<1>2. vec' \in Seq(Entries)
  <2> DEFINE e == [type |-> "text", str |-> literal_str, fmt |-> <<>>]
             v == IF literal_str = <<>> THEN vec ELSE Append(vec, e)
  <2>1. vec \in Seq(Entries) /\ literal_str \in Seq(Chars)
    BY PatternTypes
  <2>2. e \in Entries
    BY <2>1 DEF Entries
  <2> HIDE DEF e
  <2>3. v \in Seq(Entries)
    BY <2>1, <2>2
  <2>4. vec' = v \o <<entry>>
    BY DEF Push, e
  <2> QED
    BY <2>3, <2>4
<1>3. last + 1 \in 1 .. Size + 1
  BY PatternTypes
<1>4. 0 \in 0 .. Size + 1
  BY PatternTypes
<1> QED
  BY <1>1, <1>2, <1>3, <1>4 DEF ScanInv, TypeOK, InFormat, Size

\* A new formatter starts at the first character, outside any field.
LEMMA ScanInvInit == Init => ScanInv
<1> SUFFICES ASSUME Init PROVE ScanInv
  OBVIOUS
<1>1. m_pattern \in Seq(Chars) /\ Size \in Nat
  BY FormatterAssumption DEF Init, Size
<1>2. given = <<m_pattern>> /\ Len(given) \in 1 .. MaxPatterns /\ Last(given) = m_pattern
  BY FormatterAssumption DEF Init, Last
<1> QED
  BY <1>1, <1>2 DEF Init, ScanInv, TypeOK, InFormat

\* Rounds that do not end with a field.
LEMMA StepTyped ==
    ASSUME ScanInv, Text \/ Percent \/ Field \/ FormatOpens \/ InsideField \/ Finish
    PROVE  ScanInv'
<1> USE PatternTypes
<1>1. CASE Text
  <2>1. i + 1 \in 1 .. Size + 1 /\ m_pattern[i] \in Chars
    BY <1>1 DEF Text
  <2>2. literal_str' \in Seq(Chars)
    BY <1>1, <2>1 DEF Text
  <2> QED
    BY <1>1, <2>1, <2>2 DEF Text, Scanning, ScanInv, TypeOK, InFormat, Size
<1>2. CASE Percent
  <2>1. i + 1 \in 1 .. Size + 1 /\ "percent" \in Chars
    BY <1>2 DEF Percent, Chars
  <2>2. literal_str' \in Seq(Chars)
    BY <1>2, <2>1 DEF Percent
  <2> QED
    BY <1>2, <2>1, <2>2 DEF Percent, Scanning, ScanInv, TypeOK, InFormat, Size
<1>3. CASE Field
  <2>1. i + 1 \in 0 .. Size + 1 /\ i < i + 1 /\ i + 1 <= Size + 1 /\ i + 1 # 0
    BY <1>3 DEF Field
  <2> QED
    BY <1>3, <2>1 DEF Field, Scanning, ScanInv, TypeOK, InFormat, Size
<1>4. CASE FormatOpens
  <2>1. /\ j # 0 /\ j <= Size /\ m_pattern[j] = "lbrace" /\ i < j /\ parsing
    BY <1>4 DEF FormatOpens, InField, ScanInv, TypeOK
  <2>2. /\ field_str' = SubSeq(m_pattern, i + 1, j - 1) /\ fmt_begin' = j + 1
        /\ UNCHANGED <<m_pattern, m_items, vec, literal_str, parsing, i, j, given>>
    BY <1>4 DEF FormatOpens, Between
  <2>3. field_str' \in Seq(Chars)
    BY <2>1, <2>2, BetweenType
  <2>4. /\ fmt_begin' - 1 = j /\ fmt_begin' - 2 = j - 1 /\ fmt_begin' \in Nat
        /\ i + 1 < fmt_begin' /\ fmt_begin' <= j + 1
    BY <2>1, <2>2
  <2>5. InFormat'
    BY <2>1, <2>2, <2>4 DEF InFormat
  <2> QED
    BY <2>2, <2>3, <2>4, <2>5 DEF ScanInv, TypeOK, Size
<1>5. CASE InsideField
  <2>1. j # 0 /\ j <= Size /\ j' = j + 1 /\ j' # 0 /\ j' \in 0 .. Size + 1
    BY <1>5 DEF InsideField, InField
  <2>2. UNCHANGED <<m_pattern, m_items, vec, literal_str, parsing, i, field_str, fmt_begin, given>>
    BY <1>5 DEF InsideField
  <2>3. /\ parsing /\ i < j' /\ j' <= Size + 1 /\ m_pattern[i] = "percent"
        /\ fmt_begin # 0 => i + 1 < fmt_begin /\ fmt_begin <= j' + 1
    BY <2>1 DEF ScanInv, TypeOK
  <2>4. InFormat'
    BY <2>1, <2>2 DEF ScanInv, InFormat
  <2> QED
    BY <2>1, <2>2, <2>3, <2>4 DEF ScanInv, TypeOK, Size
<1>6. CASE Finish
  BY <1>6 DEF Finish, Scanning, ScanInv, TypeOK, InFormat, Size
<1> QED
  BY <1>1, <1>2, <1>3, <1>4, <1>5, <1>6

\* What the rounds that end a field list, and where the scan goes on.
LEMMA FieldEndsPush ==
    ASSUME ScanInv, FieldEnds
    PROVE  \E entry \in Entries : /\ entry = [type |-> "field", str |-> SubSeq(m_pattern, i + 1, j - 1), fmt |-> <<>>]
                                  /\ i <= j - 1 /\ j - 1 \in 1 .. Size
                                  /\ Push(entry, j - 1)
<1> DEFINE str == SubSeq(m_pattern, i + 1, j - 1)
           entry == [type |-> "field", str |-> str, fmt |-> <<>>]
<1>1. j # 0 /\ j <= Size /\ i < j /\ i \in Nat /\ i >= 1 /\ j \in Nat /\ Size \in Nat
  BY PatternTypes DEF FieldEnds, InField, ScanInv, TypeOK
<1>2. str \in Seq(Chars)
  <2>1. i + 1 \in Nat /\ i + 1 >= 1 /\ j - 1 \in Int /\ j - 1 <= Size
    BY <1>1
  <2> QED
    BY <2>1, BetweenType
<1>3. Push(entry, j - 1)
  BY DEF FieldEnds, Between
<1> HIDE DEF str
<1>4. entry \in Entries
  BY <1>2 DEF Entries
<1> QED
  BY <1>1, <1>3, <1>4 DEF str

\* Closing a format lists a field with the str and the format between the braces.
LEMMA FormatClosesPush ==
    ASSUME ScanInv, FormatCloses
    PROVE  \E entry \in Entries :
             /\ entry = [type |-> "field", str |-> SubSeq(m_pattern, i + 1, fmt_begin - 2),
                         fmt |-> SubSeq(m_pattern, fmt_begin, j - 1)]
             /\ j \in 1 .. Size /\ m_pattern[j] = "rbrace" /\ i + 1 < fmt_begin /\ fmt_begin <= j
             /\ m_pattern[fmt_begin - 1] = "lbrace"
             /\ Push(entry, j)
<1> DEFINE str == field_str
           fmt == SubSeq(m_pattern, fmt_begin, j - 1)
           entry == [type |-> "field", str |-> str, fmt |-> fmt]
<1>1. /\ j # 0 /\ j <= Size /\ i < j /\ i \in Nat /\ i >= 1 /\ j \in Nat /\ Size \in Nat
      /\ fmt_begin # 0 /\ fmt_begin \in Nat /\ i + 1 < fmt_begin /\ fmt_begin <= j + 1
      /\ m_pattern[j] = "rbrace" /\ m_pattern[fmt_begin - 1] = "lbrace"
      /\ field_str = SubSeq(m_pattern, i + 1, fmt_begin - 2)
  BY PatternTypes DEF FormatCloses, InField, ScanInv, TypeOK, InFormat
<1>2. fmt_begin <= j
  <2>1. fmt_begin - 1 # j
    BY <1>1
  <2> QED
    BY <1>1, <2>1
<1>3. str \in Seq(Chars) /\ fmt \in Seq(Chars)
  BY <1>1, BetweenType, PatternTypes
<1>4. Push(entry, j)
  BY DEF FormatCloses, Between
<1> HIDE DEF str, fmt
<1>5. entry \in Entries
  BY <1>3 DEF Entries
<1>6. entry = [type |-> "field", str |-> SubSeq(m_pattern, i + 1, fmt_begin - 2),
               fmt |-> SubSeq(m_pattern, fmt_begin, j - 1)]
  BY <1>1 DEF str, fmt
<1> HIDE DEF entry
<1>7. j \in 1 .. Size
  BY <1>1
<1> QED
  BY <1>1, <1>2, <1>4, <1>5, <1>6, <1>7

\* A pattern that ends inside a field lists it, or an error if its format is open.
LEMMA PatternEndsPush ==
    ASSUME ScanInv, PatternEnds
    PROVE  \E entry \in Entries :
             /\ entry = IF fmt_begin = 0
                        THEN [type |-> "field", str |-> SubSeq(m_pattern, i + 1, Size), fmt |-> <<>>]
                        ELSE [type |-> "error", str |-> <<>>, fmt |-> <<>>]
             /\ Size \in 1 .. Size /\ i \in 1 .. Size
             /\ Push(entry, Size)
<1> DEFINE str == SubSeq(m_pattern, i + 1, Size)
           entry == IF fmt_begin = 0 THEN [type |-> "field", str |-> str, fmt |-> <<>>]
                    ELSE [type |-> "error", str |-> <<>>, fmt |-> <<>>]
<1>1. j = Size + 1 /\ i < j /\ i \in Nat /\ i >= 1 /\ Size \in Nat
  BY PatternTypes DEF PatternEnds, ScanInv, TypeOK
<1>2. str \in Seq(Chars)
  <2>1. i + 1 \in Nat /\ i + 1 >= 1 /\ Size \in Int /\ Size <= Size
    BY <1>1
  <2> QED
    BY <2>1, BetweenType
<1>3. Push(entry, Size)
  BY DEF PatternEnds, Between
<1> HIDE DEF str
<1>4. entry \in Entries
  BY <1>2 DEF Entries
<1> QED
  BY <1>1, <1>3, <1>4 DEF str

\* setPattern starts again, on another pattern.
LEMMA SetPatternTyped ==
    ASSUME ScanInv, NEW pattern \in Replacements, SetPattern(pattern)
    PROVE  ScanInv'
<1>1. pattern \in Seq(Chars)
  BY FormatterAssumption
<1>2. Len(pattern) \in Nat
  BY <1>1
<1>3. Len(given') \in 1 .. MaxPatterns /\ Last(given') = pattern
  <2>1. given' = Append(given, pattern) /\ Len(given) < MaxPatterns /\ Len(given) \in Nat
    BY DEF SetPattern, ScanInv, TypeOK
  <2>2. Len(given') = Len(given) + 1 /\ given'[Len(given')] = pattern
    BY <2>1
  <2> QED
    BY <2>1, <2>2, FormatterAssumption DEF Last
<1> QED
  BY <1>1, <1>2, <1>3 DEF SetPattern, ScanInv, TypeOK, InFormat, Size

\* Every round, and setPattern, keeps the indices where they may be.
LEMMA ScanInvNext == ScanInv /\ [Next]_vars => ScanInv'
<1> SUFFICES ASSUME ScanInv, [Next]_vars PROVE ScanInv'
  OBVIOUS
<1>1. Size \in Nat
  BY PatternTypes
<1>2. CASE FieldEnds
  <2>1. PICK entry \in Entries : j - 1 \in 1 .. Size /\ Push(entry, j - 1)
    BY <1>2, FieldEndsPush
  <2> QED
    BY <1>1, <2>1, PushTyped
<1>3. CASE FormatCloses
  <2>1. PICK entry \in Entries : j \in 1 .. Size /\ Push(entry, j)
    BY <1>3, FormatClosesPush
  <2> QED
    BY <1>1, <2>1, PushTyped
<1>4. CASE PatternEnds
  <2>1. PICK entry \in Entries : Push(entry, Size)
    BY <1>4, PatternEndsPush
  <2> QED
    BY <1>1, <2>1, PushTyped
<1>5. CASE \E pattern \in Replacements : SetPattern(pattern)
  BY <1>5, SetPatternTyped
<1>6. CASE UNCHANGED vars
  BY <1>6 DEF vars, locals, ScanInv, TypeOK, InFormat, Size
<1> QED
  BY <1>2, <1>3, <1>4, <1>5, <1>6, StepTyped DEF Next, Parse

\* The indices of init are always where they may be.
LEMMA ScanInvAlways == Spec => []ScanInv
BY ScanInvInit, ScanInvNext, PTL DEF Spec

\* For any pattern init reads and cuts m_pattern within its bounds: its index
\* stays before the end, the index inside a field after the field's %, and the
\* begin of a format after the field's name.
THEOREM FormatterTypeOK == Spec => []TypeOK
BY ScanInvAlways, PTL DEF ScanInv

----------------------------------------------------------------------------
(* What has been listed and collected spells what has been passed.         *)

\* The pattern up to a position.
Passed(k) == SubSeq(m_pattern, 1, k)

\* The spelling of an entry is a sequence of characters.
LEMMA SpellingType == ASSUME NEW e \in Entries PROVE Spelling(e) \in Seq(Chars)
<1> DEFINE open == <<"percent">> \o e.str
           fmt == <<"lbrace">> \o e.fmt \o <<"rbrace">>
<1>1. e.str \in Seq(Chars) /\ e.fmt \in Seq(Chars)
  BY DEF Entries
<1>2. <<"percent">> \in Seq(Chars) /\ <<"lbrace">> \in Seq(Chars) /\ <<"rbrace">> \in Seq(Chars)
  BY DEF Chars
<1>3. open \in Seq(Chars)
  BY <1>1, <1>2
<1>4. fmt \in Seq(Chars)
  BY <1>1, <1>2
<1>5. Spelling(e) \in {e.str, open \o <<>>, open \o fmt}
  BY DEF Spelling
<1> HIDE DEF open, fmt
<1>6. open \o <<>> \in Seq(Chars) /\ open \o fmt \in Seq(Chars)
  BY <1>3, <1>4
<1> QED
  BY <1>1, <1>5, <1>6

\* The spelling of a list that has grown by one.
LEMMA SpelledAppend ==
    ASSUME NEW es \in Seq(Entries), NEW e \in Entries
    PROVE  /\ Spelled(es) \in Seq(Chars)
           /\ Spelled(Append(es, e)) = Spelled(es) \o Spelling(e)
<1> DEFINE s == [k \in DOMAIN es |-> Spelling(es[k])]
           t == [k \in DOMAIN Append(es, e) |-> Spelling(Append(es, e)[k])]
           n == Len(es)
<1>1. /\ DOMAIN es = 1 .. n /\ n \in Nat /\ \A k \in 1 .. n : es[k] \in Entries
      /\ DOMAIN Append(es, e) = 1 .. n + 1
      /\ \A k \in 1 .. n : Append(es, e)[k] = es[k]
      /\ Append(es, e)[n + 1] = e
  BY ElementOfSeq, AppendProperties
<1>2. s \in Seq(Seq(Chars)) /\ Len(s) = n
  <2>1. s = [k \in 1 .. n |-> s[k]] /\ \A k \in 1 .. n : s[k] \in Seq(Chars)
    BY <1>1, SpellingType
  <2> HIDE DEF s, n
  <2> QED
    BY <1>1, <2>1, FunctionIsSeq
<1>3. /\ DOMAIN t = 1 .. n + 1 /\ t = [k \in 1 .. n + 1 |-> t[k]]
      /\ \A k \in 1 .. n : t[k] = s[k]
      /\ t[n + 1] = Spelling(e)
  BY <1>1
<1> HIDE DEF s, t, n
<1>4. t = Append(s, Spelling(e))
  <2> DEFINE a == Append(s, Spelling(e))
  <2>1. /\ a \in Seq(Seq(Chars)) /\ Len(a) = n + 1 /\ a[n + 1] = Spelling(e)
        /\ \A k \in 1 .. n : a[k] = s[k]
    BY <1>2, SpellingType, AppendProperties
  <2> HIDE DEF a
  <2>2. a = [k \in 1 .. n + 1 |-> a[k]]
    BY <2>1
  <2>3. ASSUME NEW k \in 1 .. n + 1 PROVE a[k] = t[k]
    <3>1. n \in Nat
      BY <1>1
    <3>2. k \in 1 .. n \/ k = n + 1
      BY <3>1
    <3> QED
      BY <1>3, <2>1, <3>2
  <2>4. a = t
    BY <1>3, <2>2, <2>3
  <2> QED
    BY <2>4 DEF a
<1>5. FlattenSeq(t) = FlattenSeq(s) \o Spelling(e)
  BY <1>2, <1>4, FlattenAppend, SpellingType
<1>6. FlattenSeq(s) \in Seq(Chars)
  BY <1>2, FlattenType
<1> QED
  BY <1>5, <1>6 DEF Spelled, s, t

\* An empty list spells nothing.
LEMMA SpelledNothing == Spelled(<<>>) = <<>>
<1>1. [k \in DOMAIN <<>> |-> Spelling(<<>>[k])] = <<>>
  OBVIOUS
<1> QED
  BY <1>1 DEF Spelled, FlattenSeq

\* Passing one more character.
LEMMA PassedOne ==
    ASSUME ScanInv, i <= Size
    PROVE  Passed(i - 1) \o <<m_pattern[i]>> = Passed(i) /\ Passed(i - 1) \in Seq(Chars)
<1>1. m_pattern \in Seq(Chars) /\ i \in 1 .. Len(m_pattern) /\ 1 \in 1 .. Len(m_pattern)
  BY PatternTypes DEF Size
<1>2. SubSeq(m_pattern, 1, i) = SubSeq(m_pattern, 1, i - 1) \o <<m_pattern[i]>>
  BY <1>1, SubSeqRecursiveSecond
<1>3. SubSeq(m_pattern, 1, i - 1) \in Seq(Chars)
  BY PatternTypes, BetweenType
<1> QED
  BY <1>2, <1>3 DEF Passed

\* Passing up to a later position.
LEMMA PassedMore ==
    ASSUME ScanInv, NEW last \in Nat, i <= last, last <= Size
    PROVE  Passed(i - 1) \o SubSeq(m_pattern, i, last) = Passed(last)
<1>1. /\ m_pattern \in Seq(Chars) /\ 1 \in 1 .. Len(m_pattern) + 1
      /\ i - 1 \in 1 - 1 .. Len(m_pattern) /\ last \in i - 1 .. Len(m_pattern) /\ (i - 1) + 1 = i
  BY PatternTypes DEF Size
<1>2. SubSeq(m_pattern, 1, i - 1) \o SubSeq(m_pattern, (i - 1) + 1, last) = SubSeq(m_pattern, 1, last)
  BY <1>1, ConcatAdjacentSubSeq
<1> QED
  BY <1>1, <1>2 DEF Passed

\* What init has listed and collected spells what it has passed, with a %% read
\* as a % that is text and the begin of what comes next: the claim of
\* ConsumedIsKept, of every pattern, so that it is inductive.
Accounted ==
    \/ \E k \in 1 .. Size - 1 : m_pattern[k] = "lbrace" /\ m_pattern[k + 1] = "rbrace"
    \/ \E k \in DOMAIN vec : vec[k].type = "error"
    \/ Spelled(vec) \o literal_str = SubSeq(m_pattern, 1, i - 1)

\* A round that ends a field keeps its spelling.
LEMMA PushKeeps ==
    ASSUME ScanInv, Accounted, NEW entry \in Entries, NEW last \in Nat, i <= last, last <= Size,
           Push(entry, last),
           \/ entry.type = "error"
           \/ \E k \in 1 .. Size - 1 : m_pattern[k] = "lbrace" /\ m_pattern[k + 1] = "rbrace"
           \/ Spelling(entry) = SubSeq(m_pattern, i, last)
    PROVE  Accounted'
<1> DEFINE e == [type |-> "text", str |-> literal_str, fmt |-> <<>>]
           v == IF literal_str = <<>> THEN vec ELSE Append(vec, e)
<1>1. vec \in Seq(Entries) /\ literal_str \in Seq(Chars) /\ e \in Entries
  BY PatternTypes DEF Entries
<1>2. vec' = v \o <<entry>> /\ literal_str' = <<>> /\ i' = last + 1 /\ m_pattern' = m_pattern
  BY DEF Push
<1>3. e.str = literal_str /\ e.type = "text"
  OBVIOUS
<1> HIDE DEF e
<1>4. v \in Seq(Entries) /\ Spelled(v) = Spelled(vec) \o literal_str /\ Spelled(v) \in Seq(Chars)
      /\ DOMAIN vec \subseteq DOMAIN v /\ \A k \in DOMAIN vec : v[k] = vec[k]
  <2>1. CASE literal_str = <<>>
    BY <1>1, <2>1, SpelledAppend
  <2>2. CASE literal_str # <<>>
    <3>1. Spelling(e) = literal_str
      BY <1>3 DEF Spelling
    <3>2. Spelled(v) = Spelled(vec) \o literal_str
      BY <1>1, <2>2, <3>1, SpelledAppend
    <3>3. v \in Seq(Entries) /\ DOMAIN vec \subseteq DOMAIN v /\ \A k \in DOMAIN vec : v[k] = vec[k]
      BY <1>1, <2>2, AppendProperties
    <3>4. Spelled(v) \in Seq(Chars)
      BY <3>3, <1>1, SpelledAppend
    <3> QED
      BY <3>2, <3>3, <3>4
  <2> QED
    BY <2>1, <2>2
<1> HIDE DEF v
<1>5. vec' = Append(v, entry)
  BY <1>2, <1>4
<1>6. CASE \E k \in 1 .. Size - 1 : m_pattern[k] = "lbrace" /\ m_pattern[k + 1] = "rbrace"
  BY <1>2, <1>6 DEF Accounted, Size
<1>7. CASE entry.type = "error"
  <2>1. Len(v) + 1 \in DOMAIN Append(v, entry) /\ Append(v, entry)[Len(v) + 1] = entry
    BY <1>4, AppendProperties
  <2>2. \E k \in DOMAIN vec' : vec'[k].type = "error"
    BY <1>5, <1>7, <2>1
  <2> QED
    BY <2>2 DEF Accounted
<1>8. CASE \E k \in DOMAIN vec : vec[k].type = "error"
  <2>1. PICK k \in DOMAIN vec : vec[k].type = "error"
    BY <1>8
  <2>2. k \in DOMAIN Append(v, entry) /\ Append(v, entry)[k] = vec[k]
    BY <1>4, <2>1, AppendProperties
  <2>3. \E m \in DOMAIN vec' : vec'[m].type = "error"
    BY <1>5, <2>1, <2>2
  <2> QED
    BY <2>3 DEF Accounted
<1>9. CASE /\ Spelling(entry) = SubSeq(m_pattern, i, last)
           /\ Spelled(vec) \o literal_str = SubSeq(m_pattern, 1, i - 1)
  <2>1. Spelled(vec') = Spelled(v) \o Spelling(entry)
    BY <1>4, <1>5, SpelledAppend
  <2>2. Spelled(vec') = Passed(i - 1) \o SubSeq(m_pattern, i, last)
    BY <1>4, <1>9, <2>1 DEF Passed
  <2>3. Spelled(vec') = Passed(last)
    BY <2>2, PassedMore
  <2>4. Spelled(vec') \o literal_str' = SubSeq(m_pattern', 1, i' - 1)
    <3>1. Passed(last) \in Seq(Chars)
      BY BetweenType DEF Passed
    <3>2. Passed(last) \o <<>> = Passed(last) /\ (last + 1) - 1 = last
      BY <3>1
    <3> QED
      BY <1>2, <2>3, <3>2 DEF Passed
  <2> QED
    BY <2>4 DEF Accounted, Spelled, Spelling
<1> QED
  BY <1>6, <1>7, <1>8, <1>9 DEF Accounted

\* A field without a format spells the % and what follows.
LEMMA PlainSpelling ==
    ASSUME ScanInv, NEW last \in Nat, i <= last, last <= Size, m_pattern[i] = "percent",
           NEW entry, entry = [type |-> "field", str |-> SubSeq(m_pattern, i + 1, last), fmt |-> <<>>]
    PROVE  Spelling(entry) = SubSeq(m_pattern, i, last)
<1> DEFINE str == SubSeq(m_pattern, i + 1, last)
<1>1. str \in Seq(Chars) /\ <<"percent">> \in Seq(Chars)
  <2>1. i + 1 \in Nat /\ i + 1 >= 1 /\ last \in Int /\ last <= Size
    BY PatternTypes
  <2>2. SubSeq(m_pattern, i + 1, last) \in Seq(Chars)
    BY <2>1, BetweenType
  <2>3. <<"percent">> \in Seq(Chars)
    BY DEF Chars
  <2> QED
    BY <2>2, <2>3
<1>2. SubSeq(m_pattern, i, last) = <<"percent">> \o str
  <2>1. m_pattern \in Seq(Chars) /\ i \in 1 .. Len(m_pattern) /\ last \in i .. Len(m_pattern)
    BY PatternTypes DEF Size
  <2> QED
    BY <2>1, SubSeqRecursiveFirst
<1>3. entry.type = "field" /\ entry.str = str /\ entry.fmt = <<>>
  OBVIOUS
<1> HIDE DEF str
<1>4. Spelling(entry) = <<"percent">> \o str \o <<>>
  BY <1>3 DEF Spelling
<1> DEFINE open == <<"percent">> \o str
<1>5. open \in Seq(Chars)
  BY <1>1
<1>6. Spelling(entry) = open \o <<>> /\ SubSeq(m_pattern, i, last) = open
  BY <1>2, <1>4
<1> HIDE DEF open
<1>7. open \o <<>> = open
  BY <1>5, ConcatEmptySeq
<1> QED
  BY <1>6, <1>7

\* A field with a format spells its braces as well, but for an empty format.
LEMMA FormatSpelling ==
    ASSUME ScanInv, i + 1 < fmt_begin, fmt_begin < j, j <= Size,
           m_pattern[i] = "percent", m_pattern[fmt_begin - 1] = "lbrace", m_pattern[j] = "rbrace",
           NEW entry, entry = [type |-> "field", str |-> SubSeq(m_pattern, i + 1, fmt_begin - 2),
                               fmt |-> SubSeq(m_pattern, fmt_begin, j - 1)]
    PROVE  Spelling(entry) = SubSeq(m_pattern, i, j)
<1> DEFINE str == SubSeq(m_pattern, i + 1, fmt_begin - 2)
           fmt == SubSeq(m_pattern, fmt_begin, j - 1)
           open == <<"percent">> \o str
           close == <<"lbrace">> \o fmt \o <<"rbrace">>
<1>1. /\ fmt_begin \in Nat /\ j \in Nat /\ i \in Nat /\ i >= 1 /\ Size \in Nat /\ Size = Len(m_pattern)
      /\ m_pattern \in Seq(Chars)
  BY PatternTypes DEF ScanInv, Size
<1>2. str \in Seq(Chars) /\ fmt \in Seq(Chars)
  <2>1. /\ i + 1 \in Nat /\ i + 1 >= 1 /\ fmt_begin - 2 \in Int /\ fmt_begin - 2 <= Size
        /\ fmt_begin >= 1 /\ j - 1 \in Int /\ j - 1 <= Size
    BY <1>1
  <2> QED
    BY <1>1, <2>1, BetweenType
<1>3. <<"percent">> \in Seq(Chars) /\ <<"lbrace">> \in Seq(Chars) /\ <<"rbrace">> \in Seq(Chars)
  BY DEF Chars
<1>4. fmt # <<>>
  <2>1. \A k \in fmt_begin .. j - 1 : m_pattern[k] \in Chars
    BY <1>1, PatternTypes
  <2>2. Len(fmt) = (j - 1) - fmt_begin + 1
    BY <1>1, <2>1, SubSeqProperties
  <2>3. Len(fmt) # 0
    BY <1>1, <2>2
  <2> HIDE DEF fmt
  <2> QED
    BY <1>2, <2>3
<1>5. SubSeq(m_pattern, i, fmt_begin - 2) = open
  <2>1. i \in 1 .. Len(m_pattern) /\ fmt_begin - 2 \in i .. Len(m_pattern)
    BY <1>1
  <2> QED
    BY <1>1, <2>1, SubSeqRecursiveFirst
<1>6. SubSeq(m_pattern, fmt_begin - 1, j) = close
  <2>1. fmt_begin - 1 \in 1 .. Len(m_pattern) /\ j \in fmt_begin - 1 .. Len(m_pattern)
    BY <1>1
  <2>2. SubSeq(m_pattern, fmt_begin - 1, j) = <<"lbrace">> \o SubSeq(m_pattern, (fmt_begin - 1) + 1, j)
    BY <1>1, <2>1, SubSeqRecursiveFirst
  <2>3. (fmt_begin - 1) + 1 = fmt_begin /\ fmt_begin \in 1 .. Len(m_pattern) /\ j \in fmt_begin .. Len(m_pattern)
    BY <1>1
  <2>4. SubSeq(m_pattern, fmt_begin, j) = fmt \o <<"rbrace">>
    BY <1>1, <2>3, SubSeqRecursiveSecond
  <2> HIDE DEF fmt
  <2>5. <<"lbrace">> \o (fmt \o <<"rbrace">>) = <<"lbrace">> \o fmt \o <<"rbrace">>
    BY <1>2, <1>3, ConcatAssociative
  <2> QED
    BY <2>2, <2>3, <2>4, <2>5
<1>7. SubSeq(m_pattern, i, fmt_begin - 2) \o SubSeq(m_pattern, fmt_begin - 1, j) = SubSeq(m_pattern, i, j)
  <2>1. /\ i \in 1 .. Len(m_pattern) + 1 /\ fmt_begin - 2 \in i - 1 .. Len(m_pattern)
        /\ j \in fmt_begin - 2 .. Len(m_pattern) /\ (fmt_begin - 2) + 1 = fmt_begin - 1
    BY <1>1
  <2> QED
    BY <1>1, <2>1, ConcatAdjacentSubSeq
<1>8. entry.type = "field" /\ entry.str = str /\ entry.fmt = fmt
  OBVIOUS
<1> HIDE DEF str, fmt
<1>9. Spelling(entry) = open \o close
  BY <1>4, <1>8 DEF Spelling
<1> QED
  BY <1>5, <1>6, <1>7, <1>9

\* Rounds on text.
LEMMA TextKeeps ==
    ASSUME ScanInv, Accounted, Text \/ Percent
    PROVE  Accounted'
<1>1. /\ i <= Size /\ literal_str' = Append(literal_str, m_pattern[i]) /\ i' = i + 1
      /\ UNCHANGED <<m_pattern, vec>>
  BY PatternTypes DEF Text, Percent
<1>2. /\ vec \in Seq(Entries) /\ literal_str \in Seq(Chars) /\ m_pattern[i] \in Chars
      /\ i' - 1 = i
  BY <1>1, PatternTypes
<1>3. CASE Spelled(vec) \o literal_str = Passed(i - 1)
  <2>1. Spelled(vec) \in Seq(Chars)
    <3>1. [type |-> "text", str |-> <<>>, fmt |-> <<>>] \in Entries
      BY DEF Entries
    <3> QED
      BY <1>2, <3>1, SpelledAppend
  <2>2. Append(literal_str, m_pattern[i]) = literal_str \o <<m_pattern[i]>> /\ <<m_pattern[i]>> \in Seq(Chars)
    BY <1>2, AppendIsConcat
  <2>3. Spelled(vec) \o (literal_str \o <<m_pattern[i]>>) = (Spelled(vec) \o literal_str) \o <<m_pattern[i]>>
    BY <1>2, <2>1, <2>2, ConcatAssociative
  <2>4. Spelled(vec) \o literal_str' = Passed(i)
    BY <1>1, <1>3, <2>2, <2>3, PassedOne
  <2> QED
    BY <1>1, <1>2, <2>4 DEF Accounted, Passed, Spelled, Spelling
<1>4. CASE Spelled(vec) \o literal_str # Passed(i - 1)
  BY <1>1, <1>4 DEF Accounted, Passed, Size
<1> QED
  BY <1>3, <1>4

\* Nothing after nothing.
LEMMA NothingAdded == <<>> \o <<>> = <<>>
<1>1. <<>> \in Seq(Chars)
  OBVIOUS
<1> QED
  BY <1>1, ConcatEmptySeq

\* Every round, and setPattern, keeps what has been consumed.
LEMMA ConsumedNext ==
    ASSUME ScanInv, Accounted, [Next]_vars
    PROVE  Accounted'
<1>1. CASE Text \/ Percent
  BY <1>1, TextKeeps
<1>2. CASE FieldEnds
  <2>1. PICK entry \in Entries : /\ entry = [type |-> "field", str |-> SubSeq(m_pattern, i + 1, j - 1), fmt |-> <<>>]
                                 /\ i <= j - 1 /\ j - 1 \in 1 .. Size
                                 /\ Push(entry, j - 1)
    BY <1>2, FieldEndsPush
  <2>2. m_pattern[i] = "percent" /\ j - 1 \in Nat /\ j - 1 <= Size
    BY <1>2, <2>1, PatternTypes DEF FieldEnds, InField, ScanInv, TypeOK
  <2>3. Spelling(entry) = SubSeq(m_pattern, i, j - 1)
    BY <2>1, <2>2, PlainSpelling
  <2> QED
    BY <2>1, <2>2, <2>3, PushKeeps
<1>3. CASE FormatCloses
  <2>1. PICK entry \in Entries :
             /\ entry = [type |-> "field", str |-> SubSeq(m_pattern, i + 1, fmt_begin - 2),
                         fmt |-> SubSeq(m_pattern, fmt_begin, j - 1)]
             /\ j \in 1 .. Size /\ m_pattern[j] = "rbrace" /\ i + 1 < fmt_begin /\ fmt_begin <= j
             /\ m_pattern[fmt_begin - 1] = "lbrace"
             /\ Push(entry, j)
    BY <1>3, FormatClosesPush
  <2>2. m_pattern[i] = "percent" /\ j \in Nat /\ j <= Size /\ i <= j /\ fmt_begin \in Nat
    BY <1>3, <2>1, PatternTypes DEF FormatCloses, InField, ScanInv, TypeOK
  <2>3. CASE fmt_begin = j
    <3>1. j - 1 \in 1 .. Size - 1 /\ (j - 1) + 1 = j
      BY <2>1, <2>2, <2>3, PatternTypes
    <3>2. \E k \in 1 .. Size - 1 : m_pattern[k] = "lbrace" /\ m_pattern[k + 1] = "rbrace"
      BY <2>1, <2>3, <3>1
    <3> QED
      BY <2>1, <2>2, <3>2, PushKeeps
  <2>4. CASE fmt_begin < j
    <3>1. Spelling(entry) = SubSeq(m_pattern, i, j)
      BY <2>1, <2>2, <2>4, FormatSpelling
    <3> QED
      BY <2>1, <2>2, <3>1, PushKeeps
  <2> QED
    BY <2>1, <2>2, <2>3, <2>4
<1>4. CASE PatternEnds
  <2>1. PICK entry \in Entries :
             /\ entry = IF fmt_begin = 0
                        THEN [type |-> "field", str |-> SubSeq(m_pattern, i + 1, Size), fmt |-> <<>>]
                        ELSE [type |-> "error", str |-> <<>>, fmt |-> <<>>]
             /\ Size \in 1 .. Size /\ i \in 1 .. Size
             /\ Push(entry, Size)
    BY <1>4, PatternEndsPush
  <2>2. m_pattern[i] = "percent" /\ Size \in Nat /\ i <= Size
    BY <1>4, <2>1, PatternTypes DEF PatternEnds, ScanInv, TypeOK
  <2>3. entry.type = "error" \/ Spelling(entry) = SubSeq(m_pattern, i, Size)
    <3>1. CASE fmt_begin = 0
      BY <2>1, <2>2, <3>1, PlainSpelling, SMTT(30)
    <3>2. CASE fmt_begin # 0
      BY <2>1, <3>2
    <3> QED
      BY <3>1, <3>2
  <2>4. PICK last \in Nat : last = Size
    BY <2>2
  <2>5. i <= last /\ last <= Size /\ Push(entry, last)
    BY <2>1, <2>2, <2>4
  <2>6. entry.type = "error" \/ Spelling(entry) = SubSeq(m_pattern, i, last)
    BY <2>3, <2>4
  <2> QED
    BY <2>5, <2>6, PushKeeps
<1>5. CASE \E pattern \in Replacements : SetPattern(pattern)
  <2>1. PICK pattern \in Replacements : /\ vec' = <<>> /\ literal_str' = <<>> /\ i' = 1
                                        /\ m_pattern' = pattern
    BY <1>5 DEF SetPattern
  <2>2. Spelled(vec') \o literal_str' = SubSeq(m_pattern', 1, i' - 1)
    <3>1. SubSeq(m_pattern', 1, i' - 1) = <<>>
      <4>1. i' - 1 = 0
        BY <2>1
      <4>2. SubSeq(m_pattern', 1, 0) = <<>>
        BY SubSeqEmpty
      <4> QED
        BY <4>1, <4>2
    <3>2. Spelled(vec') = <<>>
      BY <2>1, SpelledNothing
    <3>3. Spelled(vec') \o literal_str' = <<>>
      BY <2>1, <3>2, NothingAdded
    <3> QED
      BY <3>1, <3>3
  <2> QED
    BY <2>2 DEF Accounted, Spelled, Spelling
<1>6. CASE UNCHANGED <<m_pattern, vec, literal_str, i>>
  BY <1>6 DEF Accounted, Spelled, Spelling, Size
<1> QED
  BY <1>1, <1>2, <1>3, <1>4, <1>5, <1>6
     DEF Next, Parse, Field, FormatOpens, InsideField, Finish, vars, locals

\* Whatever the pattern and its alphabet, well-formed or not, init takes every
\* character into account once and in order: what it has listed and collected
\* spells the part of the pattern it has passed, but for the braces of an empty
\* format and a format that is never closed, and up to the first %% only.
THEOREM FormatterConsumes == Spec => []ConsumedIsKept
<1>1. Init => Accounted
  <2> SUFFICES ASSUME Init PROVE Spelled(vec) \o literal_str = SubSeq(m_pattern, 1, i - 1)
    BY DEF Accounted
  <2>1. vec = <<>> /\ literal_str = <<>> /\ i - 1 = 0
    BY DEF Init
  <2>2. SubSeq(m_pattern, 1, i - 1) = <<>>
    <3>1. SubSeq(m_pattern, 1, 0) = <<>>
      BY SubSeqEmpty
    <3> QED
      BY <2>1, <3>1
  <2>3. Spelled(vec) = <<>>
    BY <2>1, SpelledNothing
  <2> QED
    BY <2>1, <2>2, <2>3, NothingAdded
<1>2. Accounted => ConsumedIsKept
  BY DEF Accounted, ConsumedIsKept
<1> QED
  BY <1>1, <1>2, ConsumedNext, ScanInvAlways, PTL DEF Spec

----------------------------------------------------------------------------
(* What a formatter prints. The rounds of init are compared with a reading   *)
(* of the sentence, token after token, and the items with what they write.   *)

\* How much of a sentence its first k tokens spell: token k + 1 begins after that.
Before(toks, k) == Len(Spelled(SubSeq(toks, 1, k)))

\* The first k tokens.
LEMMA FirstTokens ==
    ASSUME NEW toks \in Seq(Entries), NEW k \in 0 .. Len(toks)
    PROVE  /\ SubSeq(toks, 1, k) \in Seq(Entries) /\ Len(SubSeq(toks, 1, k)) = k
           /\ Spelled(SubSeq(toks, 1, k)) \in Seq(Chars) /\ Before(toks, k) \in Nat
           /\ k < Len(toks) => /\ toks[k + 1] \in Entries /\ Spelling(toks[k + 1]) \in Seq(Chars)
                               /\ SubSeq(toks, 1, k + 1) = Append(SubSeq(toks, 1, k), toks[k + 1])
                               /\ Before(toks, k + 1) = Before(toks, k) + Len(Spelling(toks[k + 1]))
<1>1. Len(toks) \in Nat /\ \A x \in 1 .. Len(toks) : toks[x] \in Entries
  BY ElementOfSeq
<1>2. SubSeq(toks, 1, k) \in Seq(Entries) /\ Len(SubSeq(toks, 1, k)) = k
  <2>1. \A x \in 1 .. k : toks[x] \in Entries
    BY <1>1
  <2> QED
    BY <2>1, SubSeqProperties
<1> DEFINE u == SubSeq(toks, 1, k)
<1> HIDE DEF u
<1>3. u \in Seq(Entries) /\ Len(u) = k
  BY <1>2 DEF u
<1>4. Spelled(u) \in Seq(Chars)
  <2>1. [type |-> "text", str |-> <<>>, fmt |-> <<>>] \in Entries
    BY DEF Entries
  <2> QED
    BY <1>3, <2>1, SpelledAppend
<1>5. Before(toks, k) = Len(Spelled(u)) /\ Before(toks, k) \in Nat
  BY <1>4 DEF Before, u
<1>6. ASSUME k < Len(toks)
      PROVE  /\ toks[k + 1] \in Entries /\ Spelling(toks[k + 1]) \in Seq(Chars)
             /\ SubSeq(toks, 1, k + 1) = Append(u, toks[k + 1])
             /\ Before(toks, k + 1) = Before(toks, k) + Len(Spelling(toks[k + 1]))
  <2>1. k + 1 \in 1 .. Len(toks) /\ 1 \in 1 .. Len(toks) /\ (k + 1) - 1 = k
    BY <1>1, <1>6
  <2> DEFINE e == toks[k + 1]
             sp == Spelling(e)
  <2>2. e \in Entries /\ sp \in Seq(Chars)
    BY <1>1, <2>1, SpellingType
  <2>3. SubSeq(toks, 1, k + 1) = u \o <<e>>
    BY <2>1, SubSeqRecursiveSecond DEF u
  <2> HIDE DEF e
  <2>4. u \o <<e>> = Append(u, e)
    BY <1>3, <2>2, AppendIsConcat
  <2>5. Spelled(Append(u, e)) = Spelled(u) \o sp
    BY <1>3, <2>2, SpelledAppend
  <2> DEFINE su == Spelled(u)
  <2> HIDE DEF sp, su
  <2>6. Len(su \o sp) = Len(su) + Len(sp)
    BY <1>4, <2>2, ConcatProperties DEF su
  <2> QED
    BY <1>5, <2>2, <2>3, <2>4, <2>5, <2>6 DEF Before, e, sp, su
<1> QED
  BY <1>2, <1>4, <1>5, <1>6 DEF u

\* More tokens continue what fewer spell.
LEMMA SpelledGrows ==
    ASSUME NEW toks \in Seq(Entries), NEW k \in 0 .. Len(toks)
    PROVE  /\ Before(toks, k) <= Len(Spelled(toks))
           /\ \A x \in 1 .. Before(toks, k) : Spelled(toks)[x] = Spelled(SubSeq(toks, 1, k))[x]
<1> DEFINE n == Len(toks)
           sp(m) == Spelled(SubSeq(toks, 1, m))
           Grown(m) == Len(sp(k)) <= Len(sp(m)) /\ \A x \in 1 .. Len(sp(k)) : sp(m)[x] = sp(k)[x]
           B == {m \in Nat : k <= m /\ m <= n => Grown(m)}
<1>1. n \in Nat /\ k \in Nat
  BY ElementOfSeq
<1>2. \A m \in 0 .. n : sp(m) \in Seq(Chars) /\ Len(sp(m)) \in Nat
  BY FirstTokens
<1>3. ASSUME NEW m \in Nat, m \in B PROVE m + 1 \in B
  <2> SUFFICES ASSUME k <= m + 1, m + 1 <= n PROVE Grown(m + 1)
    OBVIOUS
  <2>1. CASE k = m + 1
    BY <2>1, <1>1, <1>2
  <2>2. CASE k <= m
    <3>1. Grown(m) /\ m \in 0 .. n /\ m < Len(toks)
      BY <1>1, <1>3, <2>2
    <3> DEFINE e == Spelling(toks[m + 1])
    <3>2. sp(m + 1) = sp(m) \o e /\ e \in Seq(Chars) /\ sp(m) \in Seq(Chars)
      <4>1. /\ toks[m + 1] \in Entries /\ e \in Seq(Chars) /\ SubSeq(toks, 1, m) \in Seq(Entries)
            /\ SubSeq(toks, 1, m + 1) = Append(SubSeq(toks, 1, m), toks[m + 1])
        BY <3>1, FirstTokens
      <4> QED
        BY <4>1, SpelledAppend
    <3> DEFINE a == sp(m)
               b == sp(k)
               c == sp(m + 1)
    <3>3. a \in Seq(Chars) /\ b \in Seq(Chars) /\ c = a \o e /\ e \in Seq(Chars)
          /\ Len(b) <= Len(a) /\ \A x \in 1 .. Len(b) : a[x] = b[x]
      <4>1. b \in Seq(Chars)
        BY <1>1, <1>2
      <4> QED
        BY <3>1, <3>2, <4>1
    <3> HIDE DEF a, b, c, e
    <3>4. /\ Len(c) = Len(a) + Len(e) /\ Len(a) \in Nat /\ Len(e) \in Nat /\ Len(b) \in Nat
          /\ \A x \in 1 .. Len(a) : c[x] = a[x]
      BY <3>3, ConcatProperties
    <3>5. Len(b) <= Len(c) /\ \A x \in 1 .. Len(b) : c[x] = b[x]
      BY <3>3, <3>4
    <3> QED
      BY <3>5 DEF b, c
  <2> QED
    BY <1>1, <2>1, <2>2
<1>4. 0 \in B
  <2>1. k <= 0 => k = 0
    BY <1>1
  <2> QED
    BY <2>1, <1>1, <1>2
<1> HIDE DEF B
<1>5. \A m \in Nat : m \in B => m + 1 \in B
  BY <1>3
<1>6. n \in B
  BY <1>1, <1>4, <1>5, Induction
<1>7. Grown(n)
  <2> HIDE DEF Grown
  <2> QED
    BY <1>1, <1>6 DEF B
<1>8. SubSeq(toks, 1, n) = toks
  BY SubSeqFull
<1> HIDE DEF n
<1> QED
  BY <1>7, <1>8 DEF Before, n

\* Where the characters of a token are in what a sentence spells.
LEMMA TokenPlaced ==
    ASSUME NEW toks \in Seq(Entries), NEW k \in Nat, k < Len(toks)
    PROVE  /\ toks[k + 1] \in Entries /\ Spelling(toks[k + 1]) \in Seq(Chars)
           /\ Before(toks, k) \in Nat
           /\ Before(toks, k + 1) = Before(toks, k) + Len(Spelling(toks[k + 1]))
           /\ Before(toks, k + 1) <= Len(Spelled(toks))
           /\ \A x \in 1 .. Len(Spelling(toks[k + 1])) :
                Spelled(toks)[Before(toks, k) + x] = Spelling(toks[k + 1])[x]
           /\ SubSeq(toks, 1, k + 1) = Append(SubSeq(toks, 1, k), toks[k + 1])
<1> DEFINE e == Spelling(toks[k + 1])
           a == Spelled(SubSeq(toks, 1, k))
           c == Spelled(SubSeq(toks, 1, k + 1))
<1>1. k \in 0 .. Len(toks) /\ k + 1 \in 0 .. Len(toks)
  BY ElementOfSeq
<1>2. /\ toks[k + 1] \in Entries /\ e \in Seq(Chars) /\ a \in Seq(Chars)
      /\ SubSeq(toks, 1, k + 1) = Append(SubSeq(toks, 1, k), toks[k + 1])
      /\ SubSeq(toks, 1, k) \in Seq(Entries)
      /\ Before(toks, k) \in Nat
      /\ Before(toks, k + 1) = Before(toks, k) + Len(e)
  BY <1>1, FirstTokens
<1>3. c = a \o e
  BY <1>2, SpelledAppend
<1>4. /\ Before(toks, k + 1) <= Len(Spelled(toks))
      /\ \A x \in 1 .. Before(toks, k + 1) : Spelled(toks)[x] = c[x]
  BY <1>1, SpelledGrows
<1>5. Before(toks, k) = Len(a)
  BY DEF Before
<1> HIDE DEF e, a, c
<1>6. \A x \in 1 .. Len(e) : c[Len(a) + x] = e[x]
  BY <1>2, <1>3, ConcatProperties
<1>7. Len(e) \in Nat
  BY <1>2
<1>8. ASSUME NEW x \in 1 .. Len(e) PROVE Spelled(toks)[Before(toks, k) + x] = e[x]
  <2>1. Before(toks, k) + x \in 1 .. Before(toks, k + 1)
    BY <1>2, <1>7
  <2> QED
    BY <1>4, <1>5, <1>6, <2>1
<1> QED
  BY <1>2, <1>4, <1>8 DEF e

\* All tokens spell the whole.
LEMMA AllTokens ==
    ASSUME NEW toks \in Seq(Entries)
    PROVE  Before(toks, Len(toks)) = Len(Spelled(toks)) /\ SubSeq(toks, 1, Len(toks)) = toks
BY SubSeqFull DEF Before

\* The characters of a field with a format, one by one.
LEMMA Bracketed ==
    ASSUME NEW c \in Chars, NEW f \in Seq(Chars), NEW sp,
           sp = <<"percent">> \o <<c>> \o (<<"lbrace">> \o f \o <<"rbrace">>)
    PROVE  /\ Len(sp) = Len(f) + 4 /\ sp[1] = "percent" /\ sp[2] = c /\ sp[3] = "lbrace"
           /\ sp[Len(f) + 4] = "rbrace"
           /\ \A x \in 1 .. Len(f) : sp[x + 3] = f[x]
<1>0. PICK p, q, l, r : p = "percent" /\ q = c /\ l = "lbrace" /\ r = "rbrace"
  OBVIOUS
<1>a. p \in Chars /\ q \in Chars /\ l \in Chars /\ r \in Chars
  BY <1>0 DEF Chars
<1>1. ASSUME NEW x \in Chars PROVE <<x>> \in Seq(Chars) /\ Len(<<x>>) = 1 /\ <<x>>[1] = x
  OBVIOUS
<1>2. PICK u, v, w, z : u = <<p>> /\ v = <<q>> /\ w = <<l>> /\ z = <<r>>
  OBVIOUS
<1>3. /\ u \in Seq(Chars) /\ Len(u) = 1 /\ u[1] = p
      /\ v \in Seq(Chars) /\ Len(v) = 1 /\ v[1] = q
      /\ w \in Seq(Chars) /\ Len(w) = 1 /\ w[1] = l
      /\ z \in Seq(Chars) /\ Len(z) = 1 /\ z[1] = r
  BY <1>1, <1>2, <1>a
<1>4. PICK n, open, b, close, all : n = Len(f) /\ open = u \o v /\ b = w \o f /\ close = b \o z
                                   /\ all = open \o close
  OBVIOUS
<1>5. n \in Nat /\ all = open \o close /\ sp = all
  BY <1>0, <1>2, <1>4
<1>6. open \in Seq(Chars) /\ Len(open) = 2 /\ open[1] = p /\ open[2] = q
  <2>0. u \in Seq(Chars) /\ v \in Seq(Chars) /\ open = u \o v
    BY <1>3, <1>4
  <2>1. /\ open \in Seq(Chars) /\ Len(open) = Len(u) + Len(v)
        /\ \A x \in 1 .. Len(u) : open[x] = u[x]
        /\ \A x \in 1 .. Len(v) : open[x + Len(u)] = v[x]
    BY <2>0, Concatenated
  <2> QED
    BY <1>3, <2>1
<1>7. b \in Seq(Chars) /\ Len(b) = 1 + n /\ b[1] = l /\ \A x \in 1 .. n : b[x + 1] = f[x]
  <2>0. w \in Seq(Chars) /\ f \in Seq(Chars) /\ b = w \o f
    BY <1>3, <1>4
  <2>1. /\ b \in Seq(Chars) /\ Len(b) = Len(w) + Len(f)
        /\ \A x \in 1 .. Len(w) : b[x] = w[x]
        /\ \A x \in 1 .. Len(f) : b[x + Len(w)] = f[x]
    BY <2>0, Concatenated
  <2> QED
    BY <1>3, <1>4, <1>5, <2>1
<1>8. /\ close \in Seq(Chars) /\ Len(close) = n + 2 /\ close[1] = l /\ close[n + 2] = r
      /\ \A x \in 1 .. n : close[x + 1] = f[x]
  <2>0. b \in Seq(Chars) /\ z \in Seq(Chars) /\ close = b \o z
    BY <1>3, <1>4, <1>7
  <2>1. /\ close \in Seq(Chars) /\ Len(close) = Len(b) + Len(z)
        /\ \A x \in 1 .. Len(b) : close[x] = b[x]
        /\ \A x \in 1 .. Len(z) : close[x + Len(b)] = z[x]
    BY <2>0, Concatenated
  <2>2. close[1 + Len(b)] = z[1] /\ 1 + Len(b) = n + 2
    BY <1>3, <1>5, <1>7, <2>1
  <2> QED
    BY <1>3, <1>5, <1>7, <2>1, <2>2
<1>9. /\ Len(all) = 2 + (n + 2) /\ \A x \in 1 .. 2 : all[x] = open[x]
      /\ \A x \in 1 .. n + 2 : all[x + 2] = close[x]
  <2>0. open \in Seq(Chars) /\ close \in Seq(Chars) /\ all = open \o close
    BY <1>5, <1>6, <1>8
  <2>1. /\ all \in Seq(Chars) /\ Len(all) = Len(open) + Len(close)
        /\ \A x \in 1 .. Len(open) : all[x] = open[x]
        /\ \A x \in 1 .. Len(close) : all[x + Len(open)] = close[x]
    BY <2>0, Concatenated
  <2>2. Len(open) = 2 /\ Len(close) = n + 2
    BY <1>6, <1>8
  <2> QED
    BY <1>5, <2>1, <2>2
<1>10. ASSUME NEW x \in 1 .. n PROVE all[x + 3] = f[x]
  <2>1. x + 1 \in 1 .. n + 2 /\ (x + 1) + 2 = x + 3
    BY <1>5
  <2>2. all[(x + 1) + 2] = close[x + 1]
    BY <1>9, <2>1
  <2> QED
    BY <1>8, <2>1, <2>2
<1>11. Len(all) = n + 4 /\ all[1] = p /\ all[2] = q /\ all[3] = l /\ all[n + 4] = r
  <2>1. /\ 1 \in 1 .. n + 2 /\ n + 2 \in 1 .. n + 2 /\ 1 + 2 = 3
        /\ (n + 2) + 2 = n + 4 /\ 2 + (n + 2) = n + 4
    BY <1>5
  <2>2. all[1 + 2] = close[1] /\ all[(n + 2) + 2] = close[n + 2]
    BY <1>9, <2>1
  <2>3. all[1] = open[1] /\ all[2] = open[2]
    BY <1>9
  <2>4. Len(all) = n + 4
    BY <1>9, <2>1
  <2>5. all[3] = l /\ all[n + 4] = r
    BY <1>5, <1>8, <2>1, <2>2
  <2>6. all[1] = p /\ all[2] = q
    BY <1>6, <2>3
  <2> QED
    BY <2>4, <2>5, <2>6
<1> QED
  BY <1>0, <1>4, <1>5, <1>10, <1>11

\* How a field of the table is spelled, character by character.
LEMMA FieldSpelling ==
    ASSUME NEW token \in Entries, token.type = "field", WellFormed(token)
    PROVE  LET sp == Spelling(token)
               n == Len(token.fmt)
           IN  /\ token.str = <<token.str[1]>> /\ token.str[1] \in Alpha /\ n \in Nat
               /\ sp[1] = "percent" /\ sp[2] = token.str[1]
               /\ token.fmt = <<>> => Len(sp) = 2
               /\ token.fmt # <<>> =>
                    /\ Len(sp) = n + 4 /\ n > 0
                    /\ sp[3] = "lbrace" /\ sp[n + 4] = "rbrace"
                    /\ \A x \in 1 .. n : sp[x + 3] = token.fmt[x] /\ token.fmt[x] # "rbrace"
<1>1. PICK s, f, c, sp : s = token.str /\ f = token.fmt /\ c = token.str[1] /\ sp = Spelling(token)
  OBVIOUS
<1>2. s \in Seq(Chars) /\ f \in Seq(Chars)
  BY <1>1 DEF Entries
<1>3. Len(s) = 1 /\ c \in Alpha /\ c = s[1] /\ \A x \in DOMAIN f : f[x] # "rbrace"
  BY <1>1 DEF WellFormed
<1>4. s = <<c>> /\ c \in Chars
  BY <1>2, <1>3 DEF Chars
<1>5. Len(f) \in Nat /\ DOMAIN f = 1 .. Len(f) /\ (f # <<>> => Len(f) > 0)
  BY <1>2
<1>6. {"percent", "lbrace", "rbrace"} \subseteq Chars
  BY DEF Chars
<1>7. sp = <<"percent">> \o s \o (IF f = <<>> THEN <<>> ELSE <<"lbrace">> \o f \o <<"rbrace">>)
  BY <1>1 DEF Spelling
<1>8. CASE f = <<>>
  <2>1. <<"percent">> \in Seq(Chars) /\ <<c>> \in Seq(Chars)
    BY <1>4, <1>6
  <2>2. PICK u, v, open : u = <<"percent">> /\ v = <<c>> /\ open = u \o v
    OBVIOUS
  <2>5. u \in Seq(Chars) /\ v \in Seq(Chars) /\ Len(u) = 1 /\ Len(v) = 1 /\ u[1] = "percent" /\ v[1] = c
    BY <2>1, <2>2
  <2>6. open \in Seq(Chars) /\ Len(open) = 2 /\ open[1] = "percent" /\ open[2] = c
    <3>0. u \in Seq(Chars) /\ v \in Seq(Chars) /\ open = u \o v
      BY <2>2, <2>5
    <3>1. /\ open \in Seq(Chars) /\ Len(open) = Len(u) + Len(v)
          /\ \A x \in 1 .. Len(u) : open[x] = u[x]
          /\ \A x \in 1 .. Len(v) : open[x + Len(u)] = v[x]
      BY <3>0, Concatenated
    <3> QED
      BY <2>5, <3>1
  <2>3. sp = open \o <<>>
    BY <1>4, <1>7, <1>8, <2>2
  <2>4. sp = open
    BY <2>3, <2>6, ConcatEmptySeq
  <2> QED
    BY <1>1, <1>3, <1>4, <1>5, <1>8, <2>4, <2>6
<1>9. CASE f # <<>>
  <2>1. sp = <<"percent">> \o <<c>> \o (<<"lbrace">> \o f \o <<"rbrace">>)
    BY <1>4, <1>7, <1>9
  <2>2. /\ Len(sp) = Len(f) + 4 /\ sp[1] = "percent" /\ sp[2] = c /\ sp[3] = "lbrace"
        /\ sp[Len(f) + 4] = "rbrace"
        /\ \A x \in 1 .. Len(f) : sp[x + 3] = f[x]
    BY <1>2, <1>4, <2>1, Bracketed
  <2>3. /\ c \in Alpha /\ f \in Seq(Chars) /\ Len(f) \in Nat
        /\ \A x \in 1 .. Len(f) : f[x] # "rbrace"
    BY <1>2, <1>3, <1>5
  <2>4. s = <<c>> /\ Len(f) > 0
    BY <1>4, <1>5, <1>9
  <2>5. PICK n : n = Len(f)
    OBVIOUS
  <2>6. /\ s = <<c>> /\ c \in Alpha /\ n \in Nat /\ sp[1] = "percent" /\ sp[2] = c
        /\ Len(sp) = n + 4 /\ n > 0 /\ sp[3] = "lbrace" /\ sp[n + 4] = "rbrace"
        /\ \A x \in 1 .. n : sp[x + 3] = f[x] /\ f[x] # "rbrace"
    BY <2>2, <2>3, <2>4, <2>5
  <2> QED
    BY <1>1, <1>9, <2>5, <2>6, SMTT(30)
<1> QED
  BY <1>8, <1>9

\* How a text is spelled.
LEMMA TextSpelling ==
    ASSUME NEW token \in Entries, token.type # "field", WellFormed(token)
    PROVE  /\ token.type = "text" /\ Spelling(token) = token.str /\ token.fmt = <<>>
           /\ token.str \in Seq(Chars) /\ Len(token.str) \in Nat \ {0}
           /\ \A x \in 1 .. Len(token.str) : token.str[x] # "percent"
           /\ token = [type |-> "text", str |-> token.str, fmt |-> <<>>]
<1>1. token.type = "text" /\ token.str # <<>> /\ token.fmt = <<>> /\ token.str \in Seq(Chars)
  BY DEF WellFormed, Entries
<1>2. \A k \in DOMAIN token.str : token.str[k] # "percent"
  BY <1>1 DEF WellFormed
<1>3. Spelling(token) = token.str
  BY <1>1 DEF Spelling
<1>4. token = [type |-> "text", str |-> token.str, fmt |-> <<>>]
  BY <1>1 DEF Entries
<1> DEFINE s == token.str
<1>5. Len(s) \in Nat \ {0} /\ DOMAIN s = 1 .. Len(s)
  <2> HIDE DEF s
  <2>1. s \in Seq(Chars) /\ s # <<>>
    BY <1>1 DEF s
  <2> QED
    BY <2>1
<1> QED
  BY <1>1, <1>2, <1>3, <1>4, <1>5

\* vec with the text that has been collected.
Collected == IF literal_str = <<>> THEN vec
             ELSE Append(vec, [type |-> "text", str |-> literal_str, fmt |-> <<>>])

\* The rounds are at the token after the first k, perhaps inside it if it is a field.
AtToken(toks, k) ==
    /\ i = Before(toks, k) + 1
    /\ Collected = SubSeq(toks, 1, k)
    /\ j # 0 => /\ k < Len(toks) /\ toks[k + 1].type = "field"
                /\ IF fmt_begin = 0 THEN j <= i + 2
                   ELSE /\ toks[k + 1].fmt # <<>> /\ field_str = toks[k + 1].str
                        /\ fmt_begin = i + 3 /\ j <= Before(toks, k + 1)

\* The rounds are inside the text after the first k tokens.
InText(toks, k) ==
    /\ j = 0 /\ k < Len(toks) /\ toks[k + 1].type # "field"
    /\ vec = SubSeq(toks, 1, k)
    /\ \E d \in 1 .. Len(toks[k + 1].str) - 1 : /\ i = Before(toks, k) + d + 1
                                                /\ literal_str = SubSeq(toks[k + 1].str, 1, d)

\* init is reading the sentence, token after token.
Reading(toks) == \E k \in 0 .. Len(toks) : AtToken(toks, k) \/ InText(toks, k)

\* A sentence that the pattern spells and that is not ambiguous.
Spells(toks) == toks \in Seq(Entries) /\ Delimited(toks) /\ Spelled(toks) = m_pattern

\* Where the characters of its tokens are in the pattern.
LEMMA TokenRead ==
    ASSUME NEW toks, Spells(toks), NEW k \in Nat, k < Len(toks)
    PROVE  /\ toks[k + 1] \in Entries /\ WellFormed(toks[k + 1])
           /\ Spelling(toks[k + 1]) \in Seq(Chars)
           /\ Before(toks, k) \in Nat
           /\ Before(toks, k + 1) = Before(toks, k) + Len(Spelling(toks[k + 1]))
           /\ Before(toks, k + 1) <= Size
           /\ \A x \in 1 .. Len(Spelling(toks[k + 1])) :
                m_pattern[Before(toks, k) + x] = Spelling(toks[k + 1])[x]
           /\ SubSeq(toks, 1, k + 1) = Append(SubSeq(toks, 1, k), toks[k + 1])
           /\ SubSeq(toks, 1, k) \in Seq(Entries)
           /\ k \in 0 .. Len(toks) /\ k + 1 \in 0 .. Len(toks)
<1>1. /\ toks \in Seq(Entries) /\ Spelled(toks) = m_pattern /\ Len(toks) \in Nat
      /\ DOMAIN toks = 1 .. Len(toks)
  BY DEF Spells
<1>2. k + 1 \in DOMAIN toks /\ k \in 0 .. Len(toks) /\ k + 1 \in 0 .. Len(toks)
  BY <1>1
<1>3. WellFormed(toks[k + 1])
  BY <1>2 DEF Spells, Delimited
<1>4. SubSeq(toks, 1, k) \in Seq(Entries)
  BY <1>1, <1>2, FirstTokens
<1> QED
  BY <1>1, <1>2, <1>3, <1>4, TokenPlaced DEF Size

\* A round that ends on a token.
LEMMA TokenReached ==
    ASSUME NEW toks, NEW k \in 0 .. Len(toks), i' = Before(toks, k) + 1,
           Collected' = SubSeq(toks, 1, k), j' = 0
    PROVE  Reading(toks)'
BY DEF Reading, AtToken

\* A sentence spells characters.
LEMMA SpelledType ==
    ASSUME NEW toks \in Seq(Entries)
    PROVE  Spelled(toks) \in Seq(Chars)
<1>1. [type |-> "text", str |-> <<>>, fmt |-> <<>>] \in Entries
  BY DEF Entries
<1> QED
  BY <1>1, SpelledAppend

\* Where a character of a text is.
LEMMA TextPlaced ==
    ASSUME NEW toks, Spells(toks), NEW k \in Nat, k < Len(toks), toks[k + 1].type # "field",
           NEW s, s = toks[k + 1].str, NEW b, b = Before(toks, k), NEW x \in 1 .. Len(s)
    PROVE  m_pattern[b + x] = s[x] /\ s[x] # "percent" /\ b + x <= Size
<1>1. PICK token, n : token = toks[k + 1] /\ n = Len(s)
  OBVIOUS
<1>2. /\ token \in Entries /\ WellFormed(token) /\ b \in Nat /\ token.type # "field"
      /\ b + Len(Spelling(token)) <= Size
      /\ \A y \in 1 .. Len(Spelling(token)) : m_pattern[b + y] = Spelling(token)[y]
  BY <1>1, TokenRead
<1>3. Spelling(token) = s /\ n \in Nat /\ s[x] # "percent"
  BY <1>1, <1>2, TextSpelling
<1>4. m_pattern[b + x] = s[x] /\ b + n <= Size
  BY <1>1, <1>2, <1>3
<1>5. x \in Nat /\ x <= n /\ Size \in Int
  <2>1. m_pattern \in Seq(Chars)
    BY SpelledType DEF Spells
  <2> QED
    BY <1>1, <1>3, <2>1 DEF Size
<1> QED
  BY <1>2, <1>3, <1>4, <1>5

\* The next position.
LEMMA PlusOne == \A b, d \in Nat : b + d + 1 = b + (d + 1)
OBVIOUS

\* A character of a text.
LEMMA TextRead ==
    ASSUME ScanInv, NEW toks, Spells(toks), NEW k \in Nat, k < Len(toks), j = 0,
           toks[k + 1].type # "field", vec = SubSeq(toks, 1, k),
           NEW d \in Nat, d < Len(toks[k + 1].str), i = Before(toks, k) + d + 1,
           literal_str = SubSeq(toks[k + 1].str, 1, d),
           Parse
    PROVE  Reading(toks)'
<1> DEFINE token == toks[k + 1]
           s == token.str
<1>1. /\ token \in Entries /\ WellFormed(token) /\ Before(toks, k) \in Nat
      /\ Before(toks, k + 1) = Before(toks, k) + Len(Spelling(token))
      /\ Before(toks, k + 1) <= Size
      /\ \A x \in 1 .. Len(Spelling(token)) : m_pattern[Before(toks, k) + x] = Spelling(token)[x]
      /\ SubSeq(toks, 1, k + 1) = Append(SubSeq(toks, 1, k), token)
      /\ k \in 0 .. Len(toks) /\ k + 1 \in 0 .. Len(toks)
  BY TokenRead
<1>2. /\ token.type = "text" /\ Spelling(token) = s /\ s \in Seq(Chars) /\ Len(s) \in Nat
      /\ \A x \in 1 .. Len(s) : s[x] # "percent"
      /\ token = [type |-> "text", str |-> s, fmt |-> <<>>]
  BY <1>1, TextSpelling
<1>0. d \in Nat /\ d < Len(s) /\ literal_str = SubSeq(s, 1, d) /\ i = Before(toks, k) + d + 1
  OBVIOUS
<1> HIDE DEF token
<1>a. PICK b, n : b = Before(toks, k) /\ n = Len(s)
  OBVIOUS
<1>b. /\ b \in Nat /\ n \in Nat /\ d \in Nat /\ d < n /\ i = b + d + 1
      /\ Before(toks, k + 1) = b + n /\ b + n <= Size
      /\ \A x \in 1 .. n : m_pattern[b + x] = s[x] /\ s[x] # "percent"
  BY <1>0, <1>1, <1>2, <1>a
<1>3. m_pattern[i] = s[d + 1] /\ m_pattern[i] # "percent" /\ i <= Size
  <2>1. PICK x : x = d + 1
    OBVIOUS
  <2>2. d \in Nat /\ n \in Nat /\ d < n /\ b \in Nat /\ i = b + d + 1
    BY <1>b
  <2>3. x \in 1 .. n
    BY <2>1, <2>2
  <2>4. i = b + x
    BY <2>1, <2>2, PlusOne, Zenon
  <2>5. \A y \in 1 .. n : m_pattern[b + y] = s[y] /\ s[y] # "percent"
    BY <1>b
  <2>6. m_pattern[b + x] = s[x] /\ s[x] # "percent"
    BY <2>3, <2>5, Zenon
  <2>7. PICK last : last = Size
    OBVIOUS
  <2>8. last \in Nat /\ b + n <= last
    BY <1>b, <2>7, PatternTypes
  <2>9. b + x <= last
    BY <2>2, <2>3, <2>8
  <2> QED
    BY <2>1, <2>4, <2>6, <2>7, <2>9
<1>4. Text
  BY <1>3, PatternTypes
     DEF Parse, Percent, Field, FieldEnds, FormatOpens, FormatCloses, InsideField, InField, PatternEnds, Finish
<1>5. i' = i + 1 /\ j' = 0 /\ vec' = vec /\ literal_str' = Append(literal_str, s[d + 1])
  BY <1>3, <1>4 DEF Text
<1>6. literal_str' = SubSeq(s, 1, d + 1) /\ literal_str' # <<>>
  <2>1. 1 \in 1 .. Len(s) /\ d + 1 \in 1 .. Len(s) /\ (d + 1) - 1 = d
    BY <1>0, <1>2
  <2>2. SubSeq(s, 1, d + 1) = SubSeq(s, 1, d) \o <<s[d + 1]>>
    BY <1>2, <2>1, SubSeqRecursiveSecond
  <2>3. SubSeq(s, 1, d) \in Seq(Chars) /\ s[d + 1] \in Chars
    <3>1. \A x \in 1 .. Len(s) : s[x] \in Chars
      BY <1>2, ElementOfSeq
    <3>2. \A x \in 1 .. d : s[x] \in Chars
      BY <1>0, <1>2, <3>1
    <3> QED
      BY <2>1, <3>1, <3>2, SubSeqProperties
  <2> DEFINE t == SubSeq(s, 1, d)
             c == s[d + 1]
  <2>4. literal_str = t
    BY <1>0
  <2> HIDE DEF t, c
  <2>5. Append(t, c) = t \o <<c>> /\ Append(t, c) # <<>>
    <3>1. t \in Seq(Chars) /\ c \in Chars
      BY <2>3 DEF t, c
    <3>2. Append(t, c) = t \o <<c>>
      BY <3>1, AppendIsConcat
    <3> QED
      BY <3>1, <3>2, AppendProperties
  <2>6. Append(t, c) = SubSeq(s, 1, d + 1)
    BY <2>2, <2>5 DEF t, c
  <2> QED
    BY <1>5, <2>4, <2>5, <2>6 DEF c
<1>7. CASE d + 1 < Len(s)
  <2>1. d + 1 \in 1 .. Len(s) - 1 /\ i' = Before(toks, k) + (d + 1) + 1
    <3>1. d + 1 < n /\ i' = i + 1
      BY <1>5, <1>7, <1>a
    <3>2. d + 1 \in 1 .. n - 1 /\ i' = b + (d + 1) + 1
      BY <1>b, <3>1
    <3> QED
      BY <1>a, <3>2
  <2>2. InText(toks, k)'
    BY <1>5, <1>6, <2>1 DEF InText, token
  <2> QED
    BY <1>1, <2>2 DEF Reading
<1>8. CASE d + 1 = Len(s)
  <2>1. i' = Before(toks, k + 1) + 1
    BY <1>0, <1>1, <1>2, <1>5, <1>8
  <2>2. literal_str' = s
    BY <1>2, <1>6, <1>8, SubSeqFull
  <2>3. Collected' = SubSeq(toks, 1, k + 1)
    BY <1>1, <1>2, <1>5, <1>6, <2>2 DEF Collected
  <2> QED
    BY <1>1, <1>5, <2>1, <2>3, TokenReached
<1>9. d + 1 <= Len(s)
  BY <1>0, <1>2
<1> QED
  BY <1>2, <1>7, <1>8, <1>9

\* Where a field of the sentence is in the pattern.
LEMMA FieldPlaced ==
    ASSUME NEW toks, Spells(toks), NEW k \in Nat, k < Len(toks), toks[k + 1].type = "field",
           NEW b, b = Before(toks, k), NEW e, e = Before(toks, k + 1),
           NEW c, c = toks[k + 1].str[1]
    PROVE  /\ b \in Nat /\ m_pattern[b + 1] = "percent" /\ m_pattern[b + 2] = c /\ c \in Alpha
           /\ e <= Size /\ e \in Nat /\ b + 2 <= e
           /\ toks[k + 1].fmt = <<>> => e = b + 2
<1>1. PICK token, sp, l, f : token = toks[k + 1] /\ sp = Spelling(token) /\ l = Len(sp) /\ f = token.fmt
  OBVIOUS
<1>2. /\ token \in Entries /\ WellFormed(token) /\ b \in Nat /\ e = b + l /\ e <= Size
      /\ \A x \in 1 .. l : m_pattern[b + x] = sp[x]
  BY <1>1, TokenRead
<1>3. c \in Alpha /\ sp[1] = "percent" /\ sp[2] = c
  BY <1>1, <1>2, FieldSpelling
<1>4. l \in Nat /\ l >= 2 /\ (f = <<>> => l = 2)
  <2>1. PICK n : n = Len(f)
    OBVIOUS
  <2>2. n \in Nat /\ (f = <<>> => l = 2) /\ (f # <<>> => l = n + 4)
    BY <1>1, <1>2, <2>1, FieldSpelling
  <2> QED
    BY <2>2
<1>5. 1 \in 1 .. l /\ 2 \in 1 .. l
  BY <1>4
<1>6. m_pattern[b + 1] = "percent" /\ m_pattern[b + 2] = c
  BY <1>2, <1>3, <1>5
<1>7. b \in Nat /\ e \in Nat /\ e <= Size /\ b + 2 <= e /\ (f = <<>> => e = b + 2)
  BY <1>2, <1>4
<1> QED
  BY <1>1, <1>3, <1>6, <1>7

\* A field of the sentence has one letter.
LEMMA FieldRecord ==
    ASSUME NEW toks, Spells(toks), NEW k \in Nat, k < Len(toks), toks[k + 1].type = "field",
           NEW c, c = toks[k + 1].str[1], NEW f, f = toks[k + 1].fmt, NEW n, n = Len(f)
    PROVE  /\ toks[k + 1].str = <<c>> /\ f \in Seq(Chars) /\ n \in Nat
           /\ toks[k + 1] = [type |-> "field", str |-> <<c>>, fmt |-> f]
<1>1. PICK token, s : token = toks[k + 1] /\ s = token.str
  OBVIOUS
<1>2. token \in Entries /\ WellFormed(token)
  BY <1>1, TokenRead
<1>3. s = <<c>> /\ n \in Nat
  BY <1>1, <1>2, FieldSpelling
<1>4. token = [type |-> "field", str |-> s, fmt |-> f] /\ f \in Seq(Chars)
  BY <1>1, <1>2 DEF Entries
<1> QED
  BY <1>1, <1>3, <1>4

\* The same of a field with a format.
LEMMA FormatPlaced ==
    ASSUME NEW toks, Spells(toks), NEW k \in Nat, k < Len(toks), toks[k + 1].type = "field",
           NEW b, b = Before(toks, k), NEW f, f = toks[k + 1].fmt, f # <<>>, NEW n, n = Len(f),
           NEW e, e = Before(toks, k + 1)
    PROVE  /\ e = b + n + 4 /\ n > 0 /\ m_pattern[b + 3] = "lbrace" /\ m_pattern[e] = "rbrace"
           /\ \A x \in 1 .. n : m_pattern[b + 3 + x] = f[x] /\ f[x] # "rbrace"
<1>1. PICK token, sp, l : token = toks[k + 1] /\ sp = Spelling(token) /\ l = Len(sp)
  OBVIOUS
<1>2. /\ token \in Entries /\ WellFormed(token) /\ b \in Nat /\ e = b + l
      /\ \A x \in 1 .. l : m_pattern[b + x] = sp[x]
  BY <1>1, TokenRead
<1>3. /\ n \in Nat /\ l = n + 4 /\ n > 0 /\ sp[3] = "lbrace" /\ sp[n + 4] = "rbrace"
      /\ \A x \in 1 .. n : sp[x + 3] = f[x] /\ f[x] # "rbrace"
  BY <1>1, <1>2, FieldSpelling
<1>4. 3 \in 1 .. l /\ n + 4 \in 1 .. l /\ b + (n + 4) = e /\ e = b + n + 4
  <2>1. b \in Nat /\ n \in Nat /\ l = n + 4 /\ e = b + l
    BY <1>2, <1>3
  <2> QED
    BY <2>1, SMTT(30)
<1>5. m_pattern[b + 3] = "lbrace" /\ m_pattern[b + (n + 4)] = "rbrace"
  BY <1>2, <1>3, <1>4
<1>6. ASSUME NEW x \in 1 .. n PROVE m_pattern[b + 3 + x] = f[x] /\ f[x] # "rbrace"
  <2>1. b \in Nat /\ n \in Nat /\ l = n + 4
    BY <1>2, <1>3
  <2>2. x + 3 \in 1 .. l /\ b + (x + 3) = b + 3 + x
    BY <2>1, SMTT(30)
  <2>3. m_pattern[b + (x + 3)] = sp[x + 3]
    BY <1>2, <2>2
  <2> QED
    BY <1>3, <2>2, <2>3
<1> QED
  BY <1>3, <1>4, <1>5, <1>6

\* What follows a field without a format does not continue it.
LEMMA FieldDelimited ==
    ASSUME NEW toks, Spells(toks), NEW k \in Nat, k + 1 < Len(toks), toks[k + 1].type = "field",
           toks[k + 1].fmt = <<>>, NEW e, e = Before(toks, k + 1)
    PROVE  /\ m_pattern[e + 1] \notin Alpha \cup {"lbrace", "rbrace"}
           /\ e + 1 <= Size
<1>1. PICK token, sp, l : token = toks[(k + 1) + 1] /\ sp = Spelling(token) /\ l = Len(sp)
  OBVIOUS
<1>2. /\ token \in Entries /\ WellFormed(token) /\ e \in Nat /\ l \in Nat
      /\ e + l <= Size
      /\ \A x \in 1 .. l : m_pattern[e + x] = sp[x]
  BY <1>1, TokenRead
<1>3. 1 \in 1 .. l
  <2>1. CASE token.type = "field"
    <3>1. Len(token.fmt) \in Nat /\ (l = 2 \/ l = Len(token.fmt) + 4)
      BY <1>1, <1>2, <2>1, FieldSpelling
    <3> QED
      BY <3>1
  <2>2. CASE token.type # "field"
    BY <1>1, <1>2, <2>2, TextSpelling
  <2> QED
    BY <2>1, <2>2
<1>4. sp[1] \notin Alpha \cup {"lbrace", "rbrace"}
  <2>1. Len(toks) \in Nat
    BY DEF Spells
  <2>2. k + 1 \in 1 .. Len(toks) - 1
    BY <2>1
  <2> QED
    BY <1>1, <2>2 DEF Spells, Delimited
<1>5. Size \in Nat
  <2>1. m_pattern \in Seq(Chars)
    BY SpelledType DEF Spells
  <2> QED
    BY <2>1 DEF Size
<1>6. m_pattern[e + 1] = sp[1]
  BY <1>2, <1>3
<1>7. e + 1 <= Size
  BY <1>2, <1>3, <1>5
<1> QED
  BY <1>4, <1>6, <1>7

\* The end of a round that lists the next token.
LEMMA FieldPushed ==
    ASSUME ScanInv, NEW toks, Spells(toks), NEW k \in Nat, k < Len(toks),
           Collected = SubSeq(toks, 1, k),
           NEW entry, entry = toks[k + 1], NEW last, last = Before(toks, k + 1), Push(entry, last)
    PROVE  Reading(toks)'
<1>1. vec' = Collected \o <<entry>> /\ literal_str' = <<>> /\ i' = last + 1 /\ j' = 0
  BY DEF Push, Collected
<1>2. /\ SubSeq(toks, 1, k) \in Seq(Entries) /\ entry \in Entries
      /\ SubSeq(toks, 1, k + 1) = Append(SubSeq(toks, 1, k), entry)
      /\ k + 1 \in 0 .. Len(toks)
  BY TokenRead
<1>3. PICK u : u = SubSeq(toks, 1, k)
  OBVIOUS
<1>4. u \in Seq(Entries) /\ entry \in Entries
  BY <1>2, <1>3
<1>5. Append(u, entry) = u \o <<entry>>
  BY <1>4, AppendIsConcat
<1>6. Collected' = SubSeq(toks, 1, k + 1)
  BY <1>1, <1>2, <1>3, <1>5 DEF Collected
<1> QED
  BY <1>1, <1>2, <1>6, TokenReached

\* What a round inside a field may be.
LEMMA FieldRounds ==
    ASSUME Parse, j # 0
    PROVE  \/ FieldEnds /\ fmt_begin = 0 /\ j <= Size /\ m_pattern[j] \notin Alpha \cup {"lbrace", "rbrace"}
           \/ FormatOpens /\ fmt_begin = 0 /\ j <= Size /\ m_pattern[j] = "lbrace"
           \/ FormatCloses /\ fmt_begin # 0 /\ j <= Size /\ m_pattern[j] = "rbrace"
           \/ InsideField /\ fmt_begin = 0 /\ j <= Size /\ m_pattern[j] \in Alpha \cup {"rbrace"}
           \/ InsideField /\ fmt_begin # 0 /\ j <= Size /\ m_pattern[j] # "rbrace"
           \/ PatternEnds /\ j = Size + 1
<1>1. ~Text /\ ~Percent /\ ~Field /\ ~Finish
  BY DEF Text, Percent, Field, Finish, Scanning
<1>2. FieldEnds => fmt_begin = 0 /\ j <= Size /\ m_pattern[j] \notin Alpha \cup {"lbrace", "rbrace"}
  BY DEF FieldEnds, InField
<1>3. FormatOpens => fmt_begin = 0 /\ j <= Size /\ m_pattern[j] = "lbrace"
  BY DEF FormatOpens, InField
<1>4. FormatCloses => fmt_begin # 0 /\ j <= Size /\ m_pattern[j] = "rbrace"
  BY DEF FormatCloses, InField
<1>5. InsideField => \/ fmt_begin = 0 /\ j <= Size /\ m_pattern[j] \in Alpha \cup {"rbrace"}
                     \/ fmt_begin # 0 /\ j <= Size /\ m_pattern[j] # "rbrace"
  BY DEF InsideField, InField
<1>6. PatternEnds => j = Size + 1
  BY DEF PatternEnds
<1> QED
  BY <1>1, <1>2, <1>3, <1>4, <1>5, <1>6 DEF Parse

\* A round inside a field that has no format yet.
LEMMA PlainFieldRead ==
    ASSUME ScanInv, NEW toks, Spells(toks), NEW k \in Nat, AtToken(toks, k), j # 0, fmt_begin = 0,
           Parse
    PROVE  Reading(toks)'
<1>1. /\ k < Len(toks) /\ toks[k + 1].type = "field" /\ j <= i + 2
      /\ Collected = SubSeq(toks, 1, k) /\ i = Before(toks, k) + 1
  BY DEF AtToken
<1>2. /\ Size \in Nat /\ i \in Nat /\ j \in Nat /\ i < j /\ j <= Size + 1 /\ parsing
      /\ m_pattern \in Seq(Chars)
  BY PatternTypes DEF ScanInv, TypeOK
<1>3. PICK b, c, f, n, e, token : /\ b = Before(toks, k) /\ token = toks[k + 1] /\ c = token.str[1]
                                  /\ f = token.fmt /\ n = Len(f) /\ e = Before(toks, k + 1)
  OBVIOUS
<1>4. /\ b \in Nat /\ n \in Nat /\ i = b + 1 /\ e \in Nat /\ e <= Size /\ b + 2 <= e
      /\ m_pattern[b + 2] = c /\ c \in Alpha
      /\ token = [type |-> "field", str |-> <<c>>, fmt |-> f] /\ token.str = <<c>>
      /\ f = <<>> => e = b + 2
      /\ f # <<>> => e = b + n + 4 /\ n > 0 /\ m_pattern[b + 3] = "lbrace"
  <2>1. /\ b \in Nat /\ i = b + 1 /\ e \in Nat /\ e <= Size /\ b + 2 <= e
        /\ m_pattern[b + 2] = c /\ c \in Alpha
        /\ f = <<>> => e = b + 2
    BY <1>1, <1>3, FieldPlaced
  <2>2. n \in Nat /\ token = [type |-> "field", str |-> <<c>>, fmt |-> f] /\ token.str = <<c>>
    BY <1>1, <1>3, FieldRecord
  <2>3. ASSUME f # <<>> PROVE e = b + n + 4 /\ n > 0 /\ m_pattern[b + 3] = "lbrace"
    BY <1>1, <1>3, <2>3, FormatPlaced, SMTT(30)
  <2> QED
    BY <2>1, <2>2, <2>3
<1>5. k \in 0 .. Len(toks) /\ k + 1 \in 0 .. Len(toks)
  BY <1>1, TokenRead
<1>6. {"percent", "lbrace", "rbrace", "other"} \cap Alpha = {}
  BY FormatterAssumption
<1>7. b + 2 <= e
  BY <1>4
<1>8. SubSeq(m_pattern, i + 1, i + 1) = <<c>>
  <2>1. PICK a : a = b + 2
    OBVIOUS
  <2>2. i + 1 = a /\ a \in 1 .. Len(m_pattern)
    BY <1>2, <1>4, <1>7, <2>1 DEF Size
  <2>3. SubSeq(m_pattern, a, a) = <<m_pattern[a]>>
    BY <1>2, <2>2, OneOf
  <2> QED
    BY <1>4, <2>1, <2>2, <2>3
<1>9. CASE j = i + 1
  <2>1. j = b + 2 /\ j <= Size /\ j # Size + 1 /\ m_pattern[j] \in Alpha
    BY <1>2, <1>4, <1>7, <1>9
  <2>2. InsideField
    BY <1>6, <2>1, FieldRounds
  <2>3. /\ j' = j + 1 /\ UNCHANGED <<vec, literal_str, i, fmt_begin, field_str>>
    BY <2>2 DEF InsideField
  <2>4. j' <= i + 2 /\ j' # 0
    BY <1>2, <1>9, <2>3
  <2>5. AtToken(toks, k)'
    BY <1>1, <2>3, <2>4 DEF AtToken, Collected
  <2> QED
    BY <1>5, <2>5 DEF Reading
<1>10. CASE j = i + 2 /\ f # <<>>
  <2>1. j = b + 3 /\ j <= Size /\ j # Size + 1 /\ m_pattern[j] = "lbrace"
    BY <1>2, <1>4, <1>10
  <2>2. FormatOpens
    BY <1>6, <2>1, FieldRounds
  <2>3. /\ fmt_begin' = j + 1 /\ field_str' = SubSeq(m_pattern, i + 1, j - 1)
        /\ UNCHANGED <<vec, literal_str, i, j>>
    BY <2>2 DEF FormatOpens, Between
  <2>4. j - 1 = i + 1 /\ fmt_begin' = i + 3 /\ fmt_begin' # 0 /\ j <= e
    BY <1>2, <1>4, <1>10, <2>3
  <2>5. field_str' = token.str
    BY <1>4, <1>8, <2>3, <2>4
  <2>6. AtToken(toks, k)'
    BY <1>1, <1>3, <1>10, <2>3, <2>4, <2>5 DEF AtToken, Collected
  <2> QED
    BY <1>5, <2>6 DEF Reading
<1>11. CASE j = i + 2 /\ f = <<>>
  <2>1. j = e + 1 /\ e = i + 1 /\ e = j - 1
    BY <1>2, <1>4, <1>11
  <2>2. PICK entry : entry = [type |-> "field", str |-> SubSeq(m_pattern, i + 1, i + 1), fmt |-> <<>>]
    OBVIOUS
  <2>3. entry = token
    BY <1>4, <1>8, <1>11, <2>2
  <2>4. Push(entry, e)
    <3>1. CASE e = Size
      <4>1. PatternEnds
        BY <1>2, <2>1, <3>1, FieldRounds
      <4> QED
        BY <2>1, <2>2, <3>1, <4>1 DEF PatternEnds, Between
    <3>2. CASE e # Size
      <4>1. k + 1 < Len(toks)
        <5>1. SUFFICES ASSUME k + 1 = Len(toks) PROVE FALSE
          BY <1>1, <1>5
        <5>2. toks \in Seq(Entries) /\ Spelled(toks) = m_pattern
          BY DEF Spells
        <5>3. e = Len(m_pattern)
          BY <1>3, <5>1, <5>2, AllTokens
        <5> QED
          BY <3>2, <5>3 DEF Size
      <4>2. m_pattern[j] \notin Alpha \cup {"lbrace", "rbrace"} /\ j <= Size
        BY <1>1, <1>3, <1>11, <2>1, <4>1, FieldDelimited
      <4>3. FieldEnds
        BY <1>2, <4>2, FieldRounds
      <4> QED
        BY <2>1, <2>2, <4>3 DEF FieldEnds, Between
    <3> QED
      BY <3>1, <3>2
  <2> QED
    BY <1>1, <1>3, <2>3, <2>4, FieldPushed
<1>12. j = i + 1 \/ j = i + 2
  BY <1>1, <1>2
<1> QED
  BY <1>9, <1>10, <1>11, <1>12

\* A round inside a format.
LEMMA FormatRead ==
    ASSUME ScanInv, NEW toks, Spells(toks), NEW k \in Nat, AtToken(toks, k), j # 0, fmt_begin # 0,
           Parse
    PROVE  Reading(toks)'
<1>1. /\ k < Len(toks) /\ toks[k + 1].type = "field" /\ toks[k + 1].fmt # <<>>
      /\ field_str = toks[k + 1].str /\ fmt_begin = i + 3 /\ j <= Before(toks, k + 1)
      /\ Collected = SubSeq(toks, 1, k) /\ i = Before(toks, k) + 1
  BY DEF AtToken
<1>2. /\ Size \in Nat /\ i \in Nat /\ j \in Nat /\ i < j /\ j <= Size + 1 /\ parsing
      /\ m_pattern \in Seq(Chars) /\ fmt_begin <= j + 1
  BY PatternTypes DEF ScanInv, TypeOK
<1>3. PICK b, c, f, n, e, token : /\ b = Before(toks, k) /\ token = toks[k + 1] /\ c = token.str[1]
                                  /\ f = token.fmt /\ n = Len(f) /\ e = Before(toks, k + 1)
  OBVIOUS
<1>4. /\ b \in Nat /\ n \in Nat /\ i = b + 1 /\ e <= Size /\ f \in Seq(Chars)
      /\ token = [type |-> "field", str |-> <<c>>, fmt |-> f] /\ token.str = <<c>>
      /\ e = b + n + 4 /\ n > 0 /\ m_pattern[b + 3] = "lbrace" /\ m_pattern[e] = "rbrace"
      /\ \A x \in 1 .. n : m_pattern[b + 3 + x] = f[x] /\ f[x] # "rbrace"
  <2>1. b \in Nat /\ i = b + 1 /\ e <= Size
    BY <1>1, <1>3, FieldPlaced
  <2>2. /\ n \in Nat /\ f \in Seq(Chars) /\ token = [type |-> "field", str |-> <<c>>, fmt |-> f]
        /\ token.str = <<c>>
    BY <1>1, <1>3, FieldRecord
  <2>3. f # <<>>
    BY <1>1, <1>3
  <2>4. /\ e = b + n + 4 /\ n > 0 /\ m_pattern[b + 3] = "lbrace" /\ m_pattern[e] = "rbrace"
        /\ \A x \in 1 .. n : m_pattern[b + 3 + x] = f[x] /\ f[x] # "rbrace"
    BY <1>1, <1>3, <2>3, FormatPlaced, SMTT(30)
  <2> QED
    BY <2>1, <2>2, <2>4
<1>5. k \in 0 .. Len(toks) /\ k + 1 \in 0 .. Len(toks)
  BY <1>1, TokenRead
<1>6. j >= b + 3 /\ j <= e /\ j <= Size /\ fmt_begin = b + 4
  <2>1. /\ b \in Nat /\ j \in Nat /\ Size \in Nat /\ n \in Nat /\ i = b + 1 /\ fmt_begin = i + 3
        /\ fmt_begin <= j + 1 /\ j <= e /\ e <= Size /\ e = b + n + 4
    BY <1>1, <1>2, <1>3, <1>4
  <2> QED
    BY <2>1
<1>7. CASE j = e
  <2>1. FormatCloses
    BY <1>2, <1>4, <1>6, <1>7, FieldRounds
  <2>2. Push([type |-> "field", str |-> field_str, fmt |-> SubSeq(m_pattern, fmt_begin, j - 1)], j)
    BY <2>1 DEF FormatCloses, Between
  <2>3. SubSeq(m_pattern, fmt_begin, j - 1) = f
    <3>1. PICK g : g = SubSeq(m_pattern, fmt_begin, j - 1)
      OBVIOUS
    <3>2. /\ fmt_begin = b + 4 /\ j - 1 = b + n + 3 /\ b + n + 3 <= Size
      <4>1. b \in Nat /\ n \in Nat /\ e = b + n + 4 /\ e <= Size /\ Size \in Nat
        BY <1>2, <1>4
      <4> QED
        BY <1>6, <1>7, <4>1
    <3>3. \A x \in b + 4 .. b + n + 3 : m_pattern[x] \in Chars
      BY <1>2, <1>4, <3>2, PatternTypes
    <3>6. PICK lo, hi : lo = b + 4 /\ hi = b + n + 3
      OBVIOUS
    <3>4. /\ g \in Seq(Chars) /\ Len(g) = n
          /\ \A x \in 1 .. n : g[x] = m_pattern[lo + x - 1]
      <4>1. /\ lo \in Nat /\ hi \in Int /\ hi - lo + 1 = n /\ hi >= lo /\ g = SubSeq(m_pattern, lo, hi)
            /\ \A x \in lo .. hi : m_pattern[x] \in Chars
        BY <1>4, <3>1, <3>2, <3>3, <3>6
      <4> QED
        BY <4>1, SubSeqProperties
    <3>5. ASSUME NEW x \in 1 .. n PROVE g[x] = f[x]
      <4>1. lo + x - 1 = b + 3 + x
        BY <1>4, <3>6
      <4> QED
        BY <1>4, <3>4, <4>1
    <3> QED
      <4>1. g \in Seq(Chars) /\ f \in Seq(Chars) /\ Len(g) = n /\ Len(f) = n /\ \A x \in 1 .. n : g[x] = f[x]
        BY <1>3, <1>4, <3>4, <3>5
      <4>2. g = f
        BY <4>1, SeqEqual
      <4> QED
        BY <3>1, <4>2
  <2>4. PICK entry : entry = [type |-> "field", str |-> field_str, fmt |-> f]
    OBVIOUS
  <2>5. entry = token /\ Push(entry, e)
    BY <1>1, <1>3, <1>4, <1>7, <2>2, <2>3, <2>4
  <2> QED
    BY <1>1, <1>3, <2>5, FieldPushed
<1>8. CASE j < e
  <2>1. m_pattern[j] # "rbrace"
    <3>1. CASE j = b + 3
      BY <1>4, <3>1
    <3>2. CASE j > b + 3
      <4>1. j - b - 3 \in 1 .. n /\ b + 3 + (j - b - 3) = j
        BY <1>2, <1>4, <1>8, <3>2
      <4> QED
        BY <1>4, <4>1
    <3> QED
      BY <1>2, <1>4, <1>6, <3>1, <3>2
  <2>2. InsideField
    BY <1>2, <1>6, <2>1, FieldRounds
  <2>3. /\ j' = j + 1 /\ UNCHANGED <<vec, literal_str, i, fmt_begin, field_str>>
    BY <2>2 DEF InsideField
  <2>4. j' <= e /\ j' # 0
    BY <1>2, <1>4, <1>8, <2>3
  <2>5. AtToken(toks, k)'
    BY <1>1, <1>3, <2>3, <2>4 DEF AtToken, Collected
  <2> QED
    BY <1>5, <2>5 DEF Reading
<1> QED
  BY <1>2, <1>4, <1>6, <1>7, <1>8

\* A token spells something.
LEMMA TokenLong ==
    ASSUME NEW token \in Entries, WellFormed(token)
    PROVE  Len(Spelling(token)) \in Nat \ {0}
<1>1. CASE token.type = "field"
  <2>1. PICK l, n : l = Len(Spelling(token)) /\ n = Len(token.fmt)
    OBVIOUS
  <2>2. n \in Nat /\ (l = 2 \/ l = n + 4)
    BY <1>1, <2>1, FieldSpelling
  <2> QED
    BY <2>1, <2>2
<1>2. CASE token.type # "field"
  BY <1>2, TextSpelling
<1> QED
  BY <1>1, <1>2

\* Text that has been collected is the last of the tokens that have been read.
LEMMA CollectedText ==
    ASSUME ScanInv, NEW toks, Spells(toks), NEW k \in 0 .. Len(toks), Collected = SubSeq(toks, 1, k),
           literal_str # <<>>
    PROVE  k >= 1 /\ toks[k].type = "text"
<1>1. PICK u, e : /\ u = SubSeq(toks, 1, k) /\ e = [type |-> "text", str |-> literal_str, fmt |-> <<>>]
  OBVIOUS
<1>2. u = Append(vec, e) /\ vec \in Seq(Entries) /\ literal_str \in Seq(Chars)
  BY <1>1, PatternTypes DEF Collected
<1>3. e \in Entries
  BY <1>1, <1>2 DEF Entries
<1>4. Len(u) = Len(vec) + 1 /\ Len(vec) \in Nat /\ u[Len(vec) + 1] = e
  BY <1>2, <1>3, AppendProperties
<1>5. toks \in Seq(Entries) /\ Len(toks) \in Nat /\ \A x \in 1 .. Len(toks) : toks[x] \in Entries
  BY ElementOfSeq DEF Spells
<1>6. /\ Len(u) = k /\ \A x \in 1 .. k : u[x] = toks[x]
  <2>1. \A x \in 1 .. k : toks[x] \in Entries
    BY <1>5
  <2>2. k \in Int /\ k >= 0
    BY <1>5
  <2>3. Len(u) = k
    BY <1>1, <1>5, FirstTokens
  <2>4. \A x \in 1 .. k : u[x] = toks[x]
    BY <1>1, <2>1, <2>2
  <2> QED
    BY <2>3, <2>4
<1>7. k \in 1 .. k /\ k = Len(vec) + 1
  BY <1>4, <1>6
<1>8. toks[k] = e
  BY <1>4, <1>6, <1>7
<1>9. toks[k].type = "text"
  BY <1>1, <1>8
<1>10. k >= 1
  BY <1>7
<1> QED
  BY <1>9, <1>10

\* A round between two tokens.
LEMMA ScanRead ==
    ASSUME ScanInv, NEW toks, Spells(toks), NEW k \in Nat, k < Len(toks), AtToken(toks, k), j = 0,
           Parse
    PROVE  Reading(toks)'
<1>1. Collected = SubSeq(toks, 1, k) /\ i = Before(toks, k) + 1
  BY DEF AtToken
<1>2. /\ Size \in Nat /\ i \in Nat /\ m_pattern \in Seq(Chars)
      /\ k \in 0 .. Len(toks) /\ toks[k + 1] \in Entries /\ WellFormed(toks[k + 1])
  BY PatternTypes, TokenRead
<1>3. CASE toks[k + 1].type # "field"
  <2>1. PICK s : s = toks[k + 1].str
    OBVIOUS
  <2>2. toks[k + 1].type = "text" /\ 0 < Len(s)
    BY <1>2, <1>3, <2>1, TextSpelling
  <2>3. literal_str = <<>>
    <3>1. SUFFICES ASSUME literal_str # <<>> PROVE FALSE
      OBVIOUS
    <3>2. k >= 1 /\ toks[k].type = "text"
      BY <1>1, <1>2, <3>1, CollectedText
    <3>3. k \in 1 .. Len(toks) - 1
      BY <3>2 DEF Spells
    <3> QED
      BY <1>3, <3>2, <3>3 DEF Spells, Delimited
  <2>4. vec = SubSeq(toks, 1, k)
    BY <1>1, <2>3 DEF Collected
  <2>5. SubSeq(toks[k + 1].str, 1, 0) = <<>>
    BY SubSeqEmpty
  <2>6. PICK d \in Nat : d = 0
    OBVIOUS
  <2>7. PICK b : b = Before(toks, k)
    OBVIOUS
  <2>8. b \in Nat /\ i = b + 1
    BY <1>1, <2>7, TokenRead
  <2>9. i = b + d + 1
    BY <2>6, <2>8
  <2>10. d < Len(toks[k + 1].str) /\ i = Before(toks, k) + d + 1 /\ literal_str = SubSeq(toks[k + 1].str, 1, d)
    BY <2>1, <2>2, <2>3, <2>5, <2>6, <2>7, <2>9
  <2> QED
    BY <1>3, <2>4, <2>10, TextRead
<1>4. CASE toks[k + 1].type = "field"
  <2>1. PICK b, c, e : b = Before(toks, k) /\ c = toks[k + 1].str[1] /\ e = Before(toks, k + 1)
    OBVIOUS
  <2>2. /\ b \in Nat /\ m_pattern[b + 1] = "percent" /\ m_pattern[b + 2] = c /\ c \in Alpha
        /\ e <= Size /\ e \in Nat /\ b + 2 <= e
    BY <1>4, <2>1, FieldPlaced
  <2>3. b + 1 <= e
    BY <2>2
  <2>4. i = b + 1 /\ i + 1 = b + 2 /\ i <= Size
    BY <1>1, <1>2, <2>1, <2>2, <2>3, SMTT(30)
  <2>5. m_pattern[i] = "percent" /\ m_pattern[i + 1] # "percent"
    BY <2>2, <2>4, FormatterAssumption
  <2>6. Field
    <3>1. ~Text /\ ~Percent
      BY <2>5 DEF Text, Percent
    <3>2. ~Finish
      BY <1>2, <2>4 DEF Finish
    <3>3. ~FieldEnds /\ ~FormatOpens /\ ~FormatCloses /\ ~InsideField
      BY DEF FieldEnds, FormatOpens, FormatCloses, InsideField, InField
    <3>4. ~PatternEnds
      BY <1>2 DEF PatternEnds
    <3> QED
      BY <3>1, <3>2, <3>3, <3>4 DEF Parse
  <2>7. j' = i + 1 /\ fmt_begin' = 0 /\ UNCHANGED <<vec, literal_str, i>>
    BY <2>6 DEF Field
  <2>8. j' <= i + 2
    BY <1>2, <2>7
  <2>9. AtToken(toks, k)'
    BY <1>1, <1>4, <2>7, <2>8 DEF AtToken, Collected
  <2> QED
    BY <1>2, <2>9 DEF Reading
<1> QED
  BY <1>3, <1>4

\* The sentence has been read when the pattern has.
LEMMA LastRead ==
    ASSUME ScanInv, NEW toks, Spells(toks), Reading(toks), i = Size + 1
    PROVE  AtToken(toks, Len(toks))
<1>1. PICK k \in 0 .. Len(toks) : AtToken(toks, k) \/ InText(toks, k)
  BY DEF Reading
<1>2. Len(toks) \in Nat /\ Size \in Nat
  BY PatternTypes DEF Spells
<1>3. CASE k < Len(toks)
  <2>1. PICK b, e, l : b = Before(toks, k) /\ e = Before(toks, k + 1) /\ l = Len(Spelling(toks[k + 1]))
    OBVIOUS
  <2>2. /\ toks[k + 1] \in Entries /\ WellFormed(toks[k + 1]) /\ b \in Nat /\ e = b + l /\ e <= Size
    BY <1>2, <1>3, <2>1, TokenRead
  <2>3. l \in Nat \ {0}
    BY <2>1, <2>2, TokenLong
  <2>4. CASE AtToken(toks, k)
    <3>1. i = b + 1
      BY <2>1, <2>4 DEF AtToken
    <3> QED
      BY <1>2, <2>2, <2>3, <3>1
  <2>5. CASE InText(toks, k)
    <3>1. PICK s, n : s = toks[k + 1].str /\ n = Len(s)
      OBVIOUS
    <3>2. PICK d \in 1 .. n - 1 : i = b + d + 1
      BY <2>1, <2>5, <3>1 DEF InText
    <3>3. Spelling(toks[k + 1]) = s
      BY <2>2, <2>5, <3>1, TextSpelling DEF InText
    <3>4. l = n
      BY <2>1, <3>1, <3>3
    <3> QED
      BY <1>2, <2>2, <2>3, <3>2, <3>4
  <2> QED
    BY <1>1, <2>4, <2>5
<1>4. CASE k = Len(toks)
  <2>1. ~InText(toks, k)
    BY <1>2, <1>4 DEF InText
  <2> QED
    BY <1>1, <1>4, <2>1
<1> QED
  BY <1>2, <1>3, <1>4

\* Every round goes on reading the sentence.
LEMMA ReadingNext ==
    ASSUME ScanInv, NEW toks, Spells(toks), Reading(toks), Parse
    PROVE  Reading(toks)'
<1>1. PICK k \in 0 .. Len(toks) : AtToken(toks, k) \/ InText(toks, k)
  BY DEF Reading
<1>2. Len(toks) \in Nat /\ k \in Nat /\ Size \in Nat /\ i \in Nat /\ j \in Nat /\ j <= Size + 1
  BY PatternTypes DEF Spells, ScanInv
<1>3. CASE AtToken(toks, k) /\ k < Len(toks)
  <2>1. CASE j = 0
    BY <1>2, <1>3, <2>1, ScanRead
  <2>2. CASE j # 0 /\ fmt_begin = 0
    BY <1>2, <1>3, <2>2, PlainFieldRead
  <2>3. CASE j # 0 /\ fmt_begin # 0
    BY <1>2, <1>3, <2>3, FormatRead
  <2> QED
    BY <2>1, <2>2, <2>3
<1>4. CASE AtToken(toks, k) /\ k = Len(toks)
  <2>1. j = 0
    BY <1>2, <1>4 DEF AtToken
  <2>2. i = Size + 1
    <3>1. i = Before(toks, k) + 1
      BY <1>4 DEF AtToken
    <3>2. Before(toks, k) = Size
      BY <1>4, AllTokens DEF Spells, Size
    <3> QED
      BY <3>1, <3>2
  <2>3. Finish
    <3>1. ~Text /\ ~Percent /\ ~Field
      BY <1>2, <2>2 DEF Text, Percent, Field
    <3>2. ~FieldEnds /\ ~FormatOpens /\ ~FormatCloses /\ ~InsideField
      BY <2>1 DEF FieldEnds, FormatOpens, FormatCloses, InsideField, InField
    <3>3. ~PatternEnds
      BY <1>2, <2>1 DEF PatternEnds
    <3> QED
      BY <3>1, <3>2, <3>3 DEF Parse
  <2>4. UNCHANGED <<vec, literal_str, i, j, field_str, fmt_begin>>
    BY <2>3 DEF Finish
  <2> QED
    BY <1>1, <1>4, <2>4 DEF Reading, AtToken, Collected
<1>5. CASE InText(toks, k)
  <2>1. PICK d \in 1 .. Len(toks[k + 1].str) - 1 :
             /\ i = Before(toks, k) + d + 1
             /\ literal_str = SubSeq(toks[k + 1].str, 1, d)
    BY <1>5 DEF InText
  <2>2. j = 0 /\ k < Len(toks) /\ toks[k + 1].type # "field" /\ vec = SubSeq(toks, 1, k)
    BY <1>5 DEF InText
  <2>3. d \in Nat /\ d < Len(toks[k + 1].str)
    <3>1. PICK s : s = toks[k + 1].str
      OBVIOUS
    <3>2. Len(s) \in Nat
      BY <1>2, <2>2, <3>1, TokenRead, TextSpelling
    <3>3. d \in 1 .. Len(s) - 1
      BY <3>1
    <3>4. d \in Nat /\ d < Len(s)
      BY <3>2, <3>3
    <3> QED
      BY <3>1, <3>4
  <2> QED
    BY <1>2, <2>1, <2>2, <2>3, TextRead
<1> QED
  BY <1>1, <1>2, <1>3, <1>4, <1>5

\* A sentence without its last token.
LEMMA FrontOfAppend ==
    ASSUME NEW s \in Seq(Entries), NEW e \in Entries
    PROVE  Front(Append(s, e)) = s /\ Last(Append(s, e)) = e
<1>1. PICK u, n : u = Append(s, e) /\ n = Len(s)
  OBVIOUS
<1>2. /\ n \in Nat /\ u \in Seq(Entries) /\ Len(u) = n + 1 /\ u[n + 1] = e
      /\ \A k \in 1 .. n : u[k] = s[k] /\ s[k] \in Entries
  BY <1>1, AppendProperties, ElementOfSeq
<1>3. SubSeq(u, 1, n) = s
  <2>1. \A k \in 1 .. n : u[k] \in Entries
    BY <1>2
  <2>2. SubSeq(u, 1, n) \in Seq(Entries) /\ Len(SubSeq(u, 1, n)) = n
        /\ \A k \in 1 .. n : SubSeq(u, 1, n)[k] = u[k]
    BY <1>2, <2>1, SubSeqProperties
  <2> QED
    BY <1>1, <1>2, <2>2, SeqEqual
<1>4. (n + 1) - 1 = n
  BY <1>2
<1> QED
  BY <1>1, <1>2, <1>3, <1>4 DEF Front, Last

\* When the pattern has been read, vec is the sentence, but for a text at its end
\* that has only been collected.
LEMMA AllRead ==
    ASSUME ScanInv, NEW toks, Spells(toks), Reading(toks), i = Size + 1
    PROVE  vec \in {toks, UpToLastField(toks)}
<1>1. Collected = SubSeq(toks, 1, Len(toks)) /\ toks \in Seq(Entries) /\ Len(toks) \in Nat
  BY LastRead DEF AtToken, Spells
<1>2. SubSeq(toks, 1, Len(toks)) = toks
  BY <1>1, AllTokens
<1>3. CASE literal_str = <<>>
  BY <1>1, <1>2, <1>3 DEF Collected
<1>4. CASE literal_str # <<>>
  <2>1. PICK e : e = [type |-> "text", str |-> literal_str, fmt |-> <<>>]
    OBVIOUS
  <2>2. vec \in Seq(Entries) /\ e \in Entries
    BY <2>1, PatternTypes DEF Entries
  <2>3. toks = Append(vec, e)
    BY <1>1, <1>2, <1>4, <2>1 DEF Collected
  <2>4. Front(toks) = vec /\ Last(toks) = e /\ toks # <<>>
    BY <2>2, <2>3, FrontOfAppend, AppendProperties
  <2>5. Last(toks).type = "text"
    BY <2>1, <2>4
  <2> QED
    BY <2>4, <2>5 DEF UpToLastField
<1> QED
  BY <1>3, <1>4

\* No character has been read of no token.
LEMMA NothingRead == ASSUME NEW toks PROVE SubSeq(toks, 1, 0) = <<>> /\ Before(toks, 0) = 0
<1>1. PICK u, v : u = SubSeq(toks, 1, 0) /\ v = Spelled(u)
  OBVIOUS
<1>2. u = <<>>
  BY <1>1, SubSeqEmpty
<1>3. v = <<>>
  BY <1>1, <1>2, SpelledNothing
<1>4. Before(toks, 0) = Len(v)
  BY <1>1 DEF Before
<1> QED
  BY <1>1, <1>2, <1>3, <1>4

\* init begins to read any sentence that the pattern spells.
LEMMA ReadingStarts ==
    ASSUME NEW toks, toks \in Seq(Entries), vec = <<>>, literal_str = <<>>, i = 1, j = 0
    PROVE  Reading(toks)
BY NothingRead DEF Reading, AtToken, Collected

\* The classes of the items.
Classes == {"MessageFormatItem", "LevelFormatItem", "ElapsedFormatItem", "NameFormatItem",
            "ThreadIdFormatItem", "NewLineFormatItem", "TimeFormatItem", "FilenameFormatItem",
            "LineFormatItem", "TabFormatItem", "FiberIdFormatItem"}

\* What the items made of entries are.
MadeItems == [class : Classes, arg : Seq(Chars)]
             \cup [class : {"StringFormatItem"}, arg : Seq(Chars \cup {"pattern_error", "error_format"})]

\* What they write.
Outputs == [char : Chars \cup {"pattern_error", "error_format", "newline", "tab"}]
           \cup [member : {"time"}, as : Seq(Chars \cup {"default"})]
           \cup [member : {"content", "level", "elapse", "name", "threadId", "fiberId", "file", "line"}]

\* The table's classes.
LEMMA TableType == \A c \in DOMAIN s_format_items : s_format_items[c] \in Classes
BY DEF s_format_items, Classes

\* An item is made of every entry.
LEMMA ItemMade == ASSUME NEW e \in Entries PROVE Item(e) \in MadeItems
<1>1. e.str \in Seq(Chars) /\ e.fmt \in Seq(Chars) /\ e.type \in {"text", "field", "error"}
  BY DEF Entries
<1>2. CASE e.type = "error"
  <2>1. Item(e) = [class |-> "StringFormatItem", arg |-> <<"pattern_error">>]
    BY <1>2 DEF Item
  <2>2. <<"pattern_error">> \in Seq(Chars \cup {"pattern_error", "error_format"})
    OBVIOUS
  <2> QED
    BY <2>1, <2>2 DEF MadeItems
<1>3. CASE e.type = "text"
  <2>1. Item(e) = [class |-> "StringFormatItem", arg |-> e.str]
    BY <1>3 DEF Item
  <2>2. e.str \in Seq(Chars \cup {"pattern_error", "error_format"})
    BY <1>1, SeqMonotonic
  <2> QED
    BY <2>1, <2>2 DEF MadeItems
<1>4. CASE e.type = "field" /\ Len(e.str) = 1 /\ e.str[1] \in DOMAIN s_format_items
  <2>1. Item(e) = [class |-> s_format_items[e.str[1]], arg |-> e.fmt]
    BY <1>4 DEF Item
  <2>2. s_format_items[e.str[1]] \in Classes
    BY <1>4, TableType
  <2> QED
    BY <1>1, <2>1, <2>2 DEF MadeItems
<1>5. CASE e.type = "field" /\ ~(Len(e.str) = 1 /\ e.str[1] \in DOMAIN s_format_items)
  <2>1. Item(e) = [class |-> "StringFormatItem", arg |-> <<"error_format">> \o e.str]
    BY <1>5 DEF Item
  <2>2. e.str \in Seq(Chars \cup {"pattern_error", "error_format"})
    BY <1>1, SeqMonotonic
  <2>3. <<"error_format">> \o e.str \in Seq(Chars \cup {"pattern_error", "error_format"})
    BY <2>2
  <2> QED
    BY <2>1, <2>3 DEF MadeItems
<1> QED
  BY <1>1, <1>2, <1>3, <1>4, <1>5

\* What it writes is a sequence.
LEMMA WrittenType == ASSUME NEW item \in MadeItems PROVE Written(item) \in Seq(Outputs)
<1>1. CASE item.class = "StringFormatItem"
  <2>1. PICK a : a = item.arg
    OBVIOUS
  <2>2. a \in Seq(Chars \cup {"pattern_error", "error_format"})
    BY <1>1, <2>1 DEF MadeItems, Classes
  <2>3. Written(item) = [k \in DOMAIN a |-> [char |-> a[k]]]
    BY <1>1, <2>1 DEF Written
  <2>4. Len(a) \in Nat /\ DOMAIN a = 1 .. Len(a)
        /\ \A k \in 1 .. Len(a) : a[k] \in Chars \cup {"pattern_error", "error_format"}
    BY <2>2, ElementOfSeq
  <2>5. PICK f : f = [k \in 1 .. Len(a) |-> [char |-> a[k]]]
    OBVIOUS
  <2>6. \A k \in 1 .. Len(a) : f[k] \in Outputs
    BY <2>4, <2>5 DEF Outputs
  <2>7. f \in Seq(Outputs)
    BY <2>4, <2>5, <2>6, FunctionIsSeq
  <2> QED
    BY <2>3, <2>4, <2>5, <2>7
<1>2. CASE item.class = "TimeFormatItem"
  <2>1. item.arg \in Seq(Chars)
    BY <1>2 DEF MadeItems
  <2>2. PICK as : as = IF item.arg = <<>> THEN <<"default">> ELSE item.arg
    OBVIOUS
  <2>3. as \in Seq(Chars \cup {"default"})
    <3>1. item.arg \in Seq(Chars \cup {"default"})
      BY <2>1, SeqMonotonic
    <3>2. <<"default">> \in Seq(Chars \cup {"default"})
      OBVIOUS
    <3> QED
      BY <2>2, <3>1, <3>2
  <2>4. Written(item) = <<[member |-> "time", as |-> as]>>
    BY <1>2, <2>2 DEF Written
  <2>5. [member |-> "time", as |-> as] \in Outputs
    BY <2>3 DEF Outputs
  <2> QED
    BY <2>4, <2>5
<1>3. CASE item.class \notin {"StringFormatItem", "TimeFormatItem"}
  <2>1. item.class \in Classes \ {"TimeFormatItem"}
    BY <1>3 DEF MadeItems
  <2>2. \E o \in Outputs : Written(item) = <<o>>
    BY <2>1 DEF Classes, Written, Outputs
  <2> QED
    BY <2>2
<1> QED
  BY <1>1, <1>2, <1>3

\* The item of a token writes what the token stands for, a %p the level.
LEMMA WrittenMeaning ==
    ASSUME NEW token \in Entries, WellFormed(token)
    PROVE  Written(Item(token)) = Meaning(token, "level")
<1>1. CASE token.type = "text"
  <2>1. Item(token) = [class |-> "StringFormatItem", arg |-> token.str]
    BY <1>1 DEF Item
  <2> QED
    BY <1>1, <2>1 DEF Written, Meaning
<1>2. CASE token.type = "field"
  <2>1. PICK c : c = token.str[1]
    OBVIOUS
  <2>2. Len(token.str) = 1 /\ c \in DOMAIN s_format_items
    BY <1>2, <2>1 DEF WellFormed
  <2>3. Item(token) = [class |-> s_format_items[c], arg |-> token.fmt]
    BY <1>2, <2>1, <2>2 DEF Item
  <2>4. c \in {"m", "p", "r", "c", "t", "n", "d", "f", "l", "T", "F"}
    BY <2>2 DEF s_format_items
  <2> QED
    BY <1>2, <2>1, <2>3, <2>4 DEF Written, Meaning, s_format_items
<1> QED
  BY <1>1, <1>2 DEF WellFormed

\* What format() prints of the given items.
Printed(items) == FlattenSeq([k \in DOMAIN items |-> Written(items[k])])

\* The pieces that items write.
LEMMA PiecesType ==
    ASSUME NEW items \in Seq(MadeItems)
    PROVE  /\ [k \in DOMAIN items |-> Written(items[k])] \in Seq(Seq(Outputs))
           /\ Len([k \in DOMAIN items |-> Written(items[k])]) = Len(items)
           /\ Printed(items) \in Seq(Outputs)
<1>1. PICK p, n : p = [k \in DOMAIN items |-> Written(items[k])] /\ n = Len(items)
  OBVIOUS
<1>2. /\ n \in Nat /\ DOMAIN items = 1 .. n
      /\ \A k \in 1 .. n : items[k] \in MadeItems
  BY <1>1, ElementOfSeq
<1>3. p = [k \in 1 .. n |-> p[k]] /\ \A k \in 1 .. n : p[k] \in Seq(Outputs)
  BY <1>1, <1>2, WrittenType
<1>4. p \in Seq(Seq(Outputs)) /\ Len(p) = n
  BY <1>2, <1>3, FunctionIsSeq
<1>5. FlattenSeq(p) \in Seq(Outputs)
  BY <1>4, FlattenType
<1> QED
  BY <1>1, <1>4, <1>5 DEF Printed

\* Items that are added print after those there are.
LEMMA PrintedConcat ==
    ASSUME NEW a \in Seq(MadeItems), NEW b \in Seq(MadeItems)
    PROVE  Printed(a \o b) = Printed(a) \o Printed(b)
<1>1. PICK c, pa, pb, pc, m, n :
           /\ c = a \o b /\ m = Len(a) /\ n = Len(b)
           /\ pa = [k \in DOMAIN a |-> Written(a[k])]
           /\ pb = [k \in DOMAIN b |-> Written(b[k])]
           /\ pc = [k \in DOMAIN c |-> Written(c[k])]
  OBVIOUS
<1>2. /\ c \in Seq(MadeItems) /\ Len(c) = m + n /\ m \in Nat /\ n \in Nat
      /\ \A k \in 1 .. m : c[k] = a[k]
      /\ \A k \in 1 .. n : c[k + m] = b[k]
  BY <1>1, Concatenated
<1>3. /\ DOMAIN a = 1 .. m /\ DOMAIN b = 1 .. n /\ DOMAIN c = 1 .. m + n
  BY <1>1, <1>2
<1>4. /\ pa \in Seq(Seq(Outputs)) /\ pb \in Seq(Seq(Outputs)) /\ pc \in Seq(Seq(Outputs))
      /\ Len(pa) = m /\ Len(pb) = n /\ Len(pc) = m + n
  BY <1>1, <1>2, PiecesType
<1>5. PICK q : q = pa \o pb
  OBVIOUS
<1>6. /\ q \in Seq(Seq(Outputs)) /\ Len(q) = m + n
      /\ \A k \in 1 .. m : q[k] = pa[k]
      /\ \A k \in 1 .. n : q[k + m] = pb[k]
  <2>1. PICK T : T = Seq(Outputs)
    OBVIOUS
  <2>2. pa \in Seq(T) /\ pb \in Seq(T)
    BY <1>4, <2>1
  <2>3. /\ pa \o pb \in Seq(T) /\ Len(pa \o pb) = Len(pa) + Len(pb)
        /\ \A k \in 1 .. Len(pa) : (pa \o pb)[k] = pa[k]
        /\ \A k \in 1 .. Len(pb) : (pa \o pb)[k + Len(pa)] = pb[k]
    BY <2>2, Concatenated
  <2>4. /\ q \in Seq(T) /\ Len(q) = Len(pa) + Len(pb)
        /\ \A k \in 1 .. Len(pa) : q[k] = pa[k]
        /\ \A k \in 1 .. Len(pb) : q[k + Len(pa)] = pb[k]
    BY <1>5, <2>3
  <2> QED
    BY <1>4, <2>1, <2>4
<1>7. ASSUME NEW k \in 1 .. m + n PROVE pc[k] = q[k]
  <2>1. CASE k <= m
    <3>1. k \in 1 .. m
      BY <1>2, <2>1
    <3> QED
      BY <1>1, <1>2, <1>3, <1>6, <3>1
  <2>2. CASE k > m
    <3>1. PICK x : x = k - m
      OBVIOUS
    <3>2. x \in 1 .. n /\ x + m = k
      BY <1>2, <2>2, <3>1
    <3>3. c[k] = b[x] /\ q[k] = pb[x]
      BY <1>2, <1>6, <3>2
    <3> QED
      BY <1>1, <1>3, <3>2, <3>3
  <2> QED
    BY <1>2, <2>1, <2>2
<1>8. pc = q
  BY <1>4, <1>6, <1>7, SeqEqual
<1>9. FlattenSeq(pc) = FlattenSeq(pa) \o FlattenSeq(pb)
  BY <1>4, <1>5, <1>8, FlattenConcat
<1> QED
  BY <1>1, <1>9 DEF Printed

\* What a sentence stands for.
Expected(toks) == StandsFor(toks, "level")

\* The items of the entries.
LEMMA ItemsMade ==
    ASSUME NEW entries \in Seq(Entries)
    PROVE  Items(entries) \in Seq(MadeItems) /\ DOMAIN Items(entries) = DOMAIN entries
<1>1. PICK p, n : p = Items(entries) /\ n = Len(entries)
  OBVIOUS
<1>2. n \in Nat /\ DOMAIN entries = 1 .. n /\ \A k \in 1 .. n : entries[k] \in Entries
  BY <1>1, ElementOfSeq
<1>3. p = [k \in 1 .. n |-> p[k]] /\ \A k \in 1 .. n : p[k] \in MadeItems
  BY <1>1, <1>2, ItemMade DEF Items
<1>4. p \in Seq(MadeItems)
  BY <1>2, <1>3, FunctionIsSeq
<1> QED
  BY <1>1, <1>2, <1>3, <1>4

\* What is left of a sentence without a text at its end is made of its tokens.
LEMMA KeptTokens ==
    ASSUME NEW toks, Spells(toks), NEW kept \in {toks, UpToLastField(toks)}
    PROVE  kept \in Seq(Entries) /\ \A k \in DOMAIN kept : WellFormed(kept[k])
<1>1. PICK n : n = Len(toks)
  OBVIOUS
<1>2. /\ toks \in Seq(Entries) /\ n \in Nat /\ DOMAIN toks = 1 .. n
      /\ \A k \in 1 .. n : toks[k] \in Entries /\ WellFormed(toks[k])
  BY <1>1, ElementOfSeq DEF Spells, Delimited
<1>3. CASE kept = toks
  BY <1>2, <1>3
<1>4. CASE kept # toks
  <2>1. kept = SubSeq(toks, 1, n - 1) /\ toks # <<>>
    BY <1>1, <1>4 DEF UpToLastField, Front
  <2>2. n - 1 \in Nat
    BY <1>1, <1>2, <2>1
  <2>3. \A k \in 1 .. n - 1 : toks[k] \in Entries
    BY <1>2
  <2>4. /\ kept \in Seq(Entries) /\ Len(kept) = n - 1
        /\ \A k \in 1 .. n - 1 : kept[k] = toks[k]
    BY <1>2, <2>1, <2>2, <2>3, SubSeqProperties
  <2>5. DOMAIN kept = 1 .. n - 1
    BY <2>4
  <2> QED
    BY <1>2, <2>4, <2>5
<1> QED
  BY <1>3, <1>4

\* The items of a sentence print what it stands for.
LEMMA PrintedExpected ==
    ASSUME NEW toks \in Seq(Entries), \A k \in DOMAIN toks : WellFormed(toks[k])
    PROVE  Printed(Items(toks)) = Expected(toks)
<1>1. DOMAIN Items(toks) = DOMAIN toks
  BY ItemsMade
<1>2. ASSUME NEW k \in DOMAIN toks PROVE Written(Items(toks)[k]) = Meaning(toks[k], "level")
  <2>1. toks[k] \in Entries /\ WellFormed(toks[k])
    BY ElementOfSeq
  <2>2. Items(toks)[k] = Item(toks[k])
    BY DEF Items
  <2> QED
    BY <2>1, <2>2, WrittenMeaning
<1>3. [k \in DOMAIN Items(toks) |-> Written(Items(toks)[k])]
      = [k \in DOMAIN toks |-> Meaning(toks[k], "level")]
  BY <1>1, <1>2
<1> QED
  BY <1>3 DEF Printed, Expected, StandsFor

\* Once the pattern is parsed, what is printed is what it spells.
Prints(toks) ==
    \E kept \in {toks, UpToLastField(toks)} :
        IF Len(given) = 1 THEN Printed(m_items) = Expected(kept)
        ELSE IsSuffix(Expected(kept), Printed(m_items))

\* The inductive invariant: a first pattern finds no items, and init is reading
\* every sentence that the pattern spells.
PrintInv ==
    /\ ScanInv
    /\ m_items \in Seq(MadeItems) /\ given \in Seq(Seq(Chars))
    /\ parsing /\ Len(given) = 1 => m_items = <<>>
    /\ \A toks \in Sentences : Spells(toks) => IF parsing THEN Reading(toks) ELSE Prints(toks)

\* Printed(m_items) is what format() writes, so the invariant is what is claimed.
LEMMA PrintInvPrints == PrintInv => PrintsWhatItSpells
<1> SUFFICES ASSUME PrintInv, ~parsing
             PROVE  \A s \in Spellings : s[2] = m_pattern =>
                      \E toks \in {s[1], UpToLastField(s[1])} :
                          IF Len(given) = 1 THEN Format = StandsFor(toks, "level")
                          ELSE IsSuffix(StandsFor(toks, "level"), Format)
  BY DEF PrintsWhatItSpells
<1> TAKE s \in Spellings
<1> HAVE s[2] = m_pattern
<1>1. PICK toks \in Sentences : Delimited(toks) /\ s = <<toks, Spelled(toks)>>
  BY DEF Spellings
<1>2. s[1] = toks /\ s[2] = Spelled(toks) /\ toks \in Seq(Entries)
  BY <1>1, FormatterAssumption
<1>3. Spells(toks)
  BY <1>1, <1>2 DEF Spells
<1>4. Prints(toks)
  BY <1>1, <1>3 DEF PrintInv
<1> QED
  BY <1>2, <1>4 DEF Prints, Printed, Expected, Format

\* A new formatter has no items and begins to read.
LEMMA PrintInvInit == Init => PrintInv
<1> SUFFICES ASSUME Init PROVE PrintInv
  OBVIOUS
<1>1. m_items = <<>> /\ parsing /\ vec = <<>> /\ literal_str = <<>> /\ i = 1 /\ j = 0
  BY DEF Init
<1>2. m_items \in Seq(MadeItems) /\ given \in Seq(Seq(Chars))
  <2>1. given = <<m_pattern>> /\ m_pattern \in Seq(Chars)
    BY FormatterAssumption DEF Init
  <2>2. PICK S : S = Seq(Chars)
    OBVIOUS
  <2>3. given \in Seq(S)
    BY <2>1, <2>2
  <2> QED
    BY <1>1, <2>2, <2>3
<1>3. ASSUME NEW toks \in Sentences PROVE Reading(toks)
  BY <1>1, ReadingStarts, FormatterAssumption
<1> QED
  BY <1>1, <1>2, <1>3, ScanInvInit DEF PrintInv

\* The loop at the end of init makes the items of the sentence and adds them.
LEMMA FinishPrints ==
    ASSUME PrintInv, Finish, NEW toks, Spells(toks), Reading(toks)
    PROVE  Prints(toks)'
<1>1. parsing /\ i = Size + 1 /\ m_items' = m_items \o Items(vec) /\ given' = given /\ parsing' = FALSE
  BY DEF Finish, Scanning
<1>2. PICK kept \in {toks, UpToLastField(toks)} : vec = kept
  BY <1>1, AllRead DEF PrintInv
<1>3. PICK a, b, e : a = m_items /\ b = Items(kept) /\ e = Expected(kept)
  OBVIOUS
<1>4. a \in Seq(MadeItems) /\ b \in Seq(MadeItems)
  BY <1>2, <1>3, KeptTokens, ItemsMade DEF PrintInv
<1>5. Printed(b) = e
  BY <1>2, <1>3, KeptTokens, PrintedExpected
<1>6. Printed(a) \in Seq(Outputs) /\ e \in Seq(Outputs)
  BY <1>4, <1>5, PiecesType
<1>7. PICK c : c = a \o b
  OBVIOUS
<1>8. Printed(c) = Printed(a) \o e
  BY <1>4, <1>5, <1>7, PrintedConcat
<1>9. m_items' = c
  BY <1>1, <1>2, <1>3, <1>7
<1>10. Printed(m_items)' = Printed(c)
  BY <1>9 DEF Printed
<1>11. (kept \in {toks, UpToLastField(toks)})' /\ Expected(kept)' = e
  BY <1>3 DEF Expected, StandsFor, Meaning, UpToLastField, Front, Last
<1>12. CASE Len(given) = 1
  <2>1. a = <<>>
    BY <1>1, <1>3, <1>12 DEF PrintInv
  <2>2. c = b
    BY <1>4, <1>7, <2>1, ConcatEmptySeq
  <2>3. Printed(c) = e
    BY <1>5, <2>2
  <2> QED
    BY <1>1, <1>10, <1>11, <1>12, <2>3 DEF Prints
<1>13. CASE Len(given) # 1
  <2>1. IsSuffix(e, Printed(c))
    <3>1. PICK p : p = Printed(a)
      OBVIOUS
    <3>2. IsSuffix(e, p \o e)
      BY <1>6, <3>1, SuffixOfConcat
    <3> QED
      BY <1>8, <3>1, <3>2
  <2>2. IsSuffix(e, Printed(m_items)')
    BY <1>10, <2>1
  <2>3. IsSuffix(Expected(kept), Printed(m_items))'
    BY <1>11, <2>2 DEF IsSuffix, IsPrefix, Reverse
  <2> QED
    BY <1>1, <1>13, <2>3 DEF Prints
<1> QED
  BY <1>12, <1>13

\* A pattern spells a sentence as long as it is not replaced.
LEMMA StillSpells ==
    ASSUME NEW toks, m_pattern' = m_pattern, Spells(toks)'
    PROVE  Spells(toks)
BY DEF Spells, Delimited, WellFormed, Spelling, Spelled

\* Every step keeps it.
LEMMA PrintInvNext == PrintInv /\ [Next]_vars => PrintInv'
<1> SUFFICES ASSUME PrintInv, [Next]_vars PROVE PrintInv'
  OBVIOUS
<1>1. ScanInv /\ ScanInv'
  BY ScanInvNext DEF PrintInv
<1>2. CASE Parse /\ ~Finish
  <2>1. m_pattern' = m_pattern /\ m_items' = m_items /\ given' = given /\ parsing' = parsing
    BY <1>2 DEF Parse, Text, Percent, Field, FieldEnds, FormatOpens, FormatCloses, InsideField,
                PatternEnds, Push
  <2>2. parsing
    BY <1>1, <1>2 DEF Parse, Text, Percent, Field, FieldEnds, FormatOpens, FormatCloses, InsideField,
                PatternEnds, Scanning, InField, ScanInv, TypeOK
  <2>3. ASSUME NEW toks \in Sentences, Spells(toks)' PROVE Reading(toks)'
    <3>1. Spells(toks) /\ Reading(toks)
      BY <2>1, <2>2, <2>3, StillSpells DEF PrintInv
    <3> QED
      BY <1>1, <1>2, <3>1, ReadingNext
  <2> QED
    BY <1>1, <2>1, <2>2, <2>3 DEF PrintInv
<1>3. CASE Finish
  <2>1. /\ m_pattern' = m_pattern /\ given' = given /\ m_items' = m_items \o Items(vec)
        /\ parsing /\ ~parsing'
    BY <1>3 DEF Finish, Scanning
  <2>2. m_items' \in Seq(MadeItems)
    <3>1. Items(vec) \in Seq(MadeItems) /\ m_items \in Seq(MadeItems)
      BY <1>1, PatternTypes, ItemsMade DEF PrintInv
    <3>2. PICK a, b : a = m_items /\ b = Items(vec)
      OBVIOUS
    <3>3. a \o b \in Seq(MadeItems)
      BY <3>1, <3>2, Concatenated
    <3> QED
      BY <2>1, <3>2, <3>3
  <2>3. ASSUME NEW toks \in Sentences, Spells(toks)' PROVE Prints(toks)'
    <3>1. Spells(toks) /\ Reading(toks)
      BY <2>1, <2>3, StillSpells DEF PrintInv
    <3> QED
      BY <1>3, <3>1, FinishPrints
  <2> QED
    BY <1>1, <2>1, <2>2, <2>3 DEF PrintInv
<1>4. CASE \E pattern \in Replacements : SetPattern(pattern)
  <2>1. PICK pattern \in Replacements : SetPattern(pattern)
    BY <1>4
  <2>2. /\ parsing' /\ m_items' = m_items /\ vec' = <<>> /\ literal_str' = <<>> /\ i' = 1 /\ j' = 0
        /\ given' = Append(given, pattern)
    BY <2>1 DEF SetPattern
  <2>3. Len(given') # 1 /\ given' \in Seq(Seq(Chars))
    <3>1. PICK S : S = Seq(Chars)
      OBVIOUS
    <3>2. given \in Seq(S) /\ pattern \in S
      BY <2>1, <3>1, FormatterAssumption DEF PrintInv
    <3>3. Len(given) >= 1
      BY <1>1 DEF ScanInv, TypeOK
    <3>4. Append(given, pattern) \in Seq(S) /\ Len(Append(given, pattern)) = Len(given) + 1 /\ Len(given) \in Nat
      BY <3>2, AppendProperties
    <3> QED
      BY <2>2, <3>1, <3>3, <3>4
  <2>4. ASSUME NEW toks \in Sentences PROVE Reading(toks)'
    <3>1. toks \in Seq(Entries)
      BY FormatterAssumption
    <3> QED
      BY <2>2, <3>1, NothingRead DEF Reading, AtToken, Collected
  <2> QED
    BY <1>1, <2>2, <2>3, <2>4 DEF PrintInv
<1>5. CASE UNCHANGED vars
  <2>1. /\ UNCHANGED <<m_pattern, m_items, given, parsing>>
        /\ UNCHANGED <<vec, literal_str, i, j, field_str, fmt_begin>>
    BY <1>5 DEF vars, locals
  <2>2. ASSUME NEW toks \in Sentences, Spells(toks)' PROVE IF parsing' THEN Reading(toks)' ELSE Prints(toks)'
    <3>1. Spells(toks) /\ IF parsing THEN Reading(toks) ELSE Prints(toks)
      BY <2>1, <2>2, StillSpells DEF PrintInv
    <3>2. Reading(toks)' <=> Reading(toks)
      BY <2>1 DEF Reading, AtToken, InText, Collected, Before, Spelled, Spelling
    <3>3. Prints(toks)' <=> Prints(toks)
      BY <2>1 DEF Prints, Printed, Expected, StandsFor, Meaning, Written, UpToLastField, Front, Last
    <3> QED
      BY <2>1, <3>1, <3>2, <3>3
  <2> QED
    BY <1>1, <2>1, <2>2 DEF PrintInv
<1> QED
  BY <1>2, <1>3, <1>4, <1>5 DEF Next

\* For every alphabet, every pattern and every sentence, and however often
\* setPattern() is called: a formatter whose pattern spells a sentence of texts
\* and fields, in a way that is not ambiguous, writes what the sentence stands
\* for, behind the items of the patterns it had before. A text after the last
\* field may be missing, %p may be the level (log.h:111 says the process number),
\* and sentences whose texts hold a % are not covered.
THEOREM FormatterPrints == Spec => []PrintsWhatItSpells
BY PrintInvInit, PrintInvNext, PrintInvPrints, PTL DEF Spec
=============================================================================
