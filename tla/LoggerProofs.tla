---------------------------- MODULE LoggerProofs ----------------------------
(***************************************************************************)
(* Proofs about the logging system, for any names, documents, callers,     *)
(* loggers and files. What every step keeps is that the objects make sense *)
(* (HeapOK: an appender without a formatter of its own uses its logger's,  *)
(* a file appender has a path) and that the pointers lead to them (Wired). *)
(***************************************************************************)
EXTENDS LoggerManager, DataLemmas

\* An appender as a logger with this formatter can have it.
Suits(a, formatter) ==
    /\ a \in Appenders
    /\ a.custom \/ a.formatter = formatter
    /\ a.path = NULL <=> a.type = "stdout"

Consistent(l) ==
    /\ l \in Loggers
    /\ \A i \in DOMAIN l.appenders : Suits(l.appenders[i], l.formatter)

HeapOK(h) ==
    /\ h = [i \in Ids |-> h[i]]
    /\ \A i \in Ids : h[i] # NULL => Consistent(h[i])

\* The pointers of the map, m_root and the callers lead to loggers, those of
\* the map to one of the name.
Wired(loggers, ptrs, h) ==
    /\ m_root \in Ids /\ h[m_root] # NULL
    /\ loggers \in [Names -> Ids \cup {NULL}]
    /\ ptrs \in [Callers -> Ids \cup {NULL}]
    /\ HeapOK(h)
    /\ \A n \in Names : loggers[n] # NULL => h[loggers[n]] # NULL /\ h[loggers[n]].name = n
    /\ \A c \in Callers : ptrs[c] # NULL => h[ptrs[c]] # NULL

\* k is l, but for files that have been opened.
Alike(l, k) ==
    /\ [k EXCEPT !.appenders = Closed(@)] = [l EXCEPT !.appenders = Closed(@)]
    /\ \A i \in DOMAIN l.appenders : k.appenders[i].open \in {l.appenders[i].open, l.appenders[i].path}

\* g is h after records.
Grown(h, g) ==
    /\ HeapOK(g)
    /\ \A i \in Ids : (g[i] = NULL <=> h[i] = NULL) /\ (h[i] # NULL => Alike(h[i], g[i]))

----------------------------------------------------------------------------
(* Records: Logger::log and the appenders.                                 *)

\* A logger is none of the missing ones.
LEMMA LoggerExists == ASSUME NEW l, Consistent(l) PROVE l # NULL
BY LoggerAssumption DEF Consistent

\* A record opens files and does nothing else.
LEMMA OpenedAlike ==
    ASSUME NEW l, Consistent(l), NEW level
    PROVE  /\ Consistent(Opened(l, level))
           /\ Alike(l, Opened(l, level))
           /\ Opened(l, level).name = l.name
<1> DEFINE now(i) == i \in Taking(l, level) \ Failing(l, level) /\ l.appenders[i].type = "file"
                       /\ l.appenders[i].open = NULL
           b == [i \in DOMAIN l.appenders |->
                   IF now(i) THEN [l.appenders[i] EXCEPT !.open = l.appenders[i].path] ELSE l.appenders[i]]
           k == [l EXCEPT !.appenders = b]
<1>1. /\ l \in Loggers /\ l.appenders \in Seq(Appenders)
      /\ \A i \in DOMAIN l.appenders : Suits(l.appenders[i], l.formatter)
  BY DEF Consistent, Loggers
<1>2. Opened(l, level) = k
  BY DEF Opened
<1>3. b \in Seq(Appenders) /\ DOMAIN b = DOMAIN l.appenders
      /\ \A i \in DOMAIN b : /\ Suits(b[i], l.formatter)
                             /\ b[i].open \in {l.appenders[i].open, l.appenders[i].path}
                             /\ [b[i] EXCEPT !.open = NULL] = [l.appenders[i] EXCEPT !.open = NULL]
  <2>1. ASSUME NEW i \in DOMAIN l.appenders
        PROVE  /\ b[i] \in Appenders /\ Suits(b[i], l.formatter)
               /\ b[i].open \in {l.appenders[i].open, l.appenders[i].path}
               /\ [b[i] EXCEPT !.open = NULL] = [l.appenders[i] EXCEPT !.open = NULL]
    BY <1>1 DEF Suits, Appenders
  <2>2. DOMAIN l.appenders = 1 .. Len(l.appenders) /\ Len(l.appenders) \in Nat
    BY <1>1
  <2>3. DOMAIN b = DOMAIN l.appenders /\ b = [i \in DOMAIN l.appenders |-> b[i]]
    OBVIOUS
  <2> HIDE DEF b
  <2>4. b \in Seq(Appenders)
    BY <2>1, <2>2, <2>3, FunctionIsSeq
  <2> QED
    BY <2>1, <2>2, <2>3, <2>4
<1> HIDE DEF b
<1>4. k \in Loggers /\ k.appenders = b /\ k.formatter = l.formatter /\ k.name = l.name
  BY <1>1, <1>3 DEF Loggers
<1>5. Closed(k.appenders) = Closed(l.appenders)
  BY <1>3, <1>4 DEF Closed
<1>6. [k EXCEPT !.appenders = Closed(@)] = [l EXCEPT !.appenders = Closed(@)]
  BY <1>1, <1>4, <1>5 DEF Loggers
<1> QED
  BY <1>2, <1>3, <1>4, <1>6 DEF Consistent, Alike

\* Loggers that are alike are of one name and have the same appenders, whose
\* files may be open.
LEMMA AlikeParts ==
    ASSUME NEW l \in Loggers, NEW k \in Loggers, Alike(l, k)
    PROVE  /\ k.name = l.name /\ k.level = l.level /\ k.formatter = l.formatter
           /\ DOMAIN k.appenders = DOMAIN l.appenders
           /\ Closed(k.appenders) = Closed(l.appenders)
           /\ \A i \in DOMAIN l.appenders : k.appenders[i].path = l.appenders[i].path
<1>1. /\ [k EXCEPT !.appenders = Closed(k.appenders)] = [l EXCEPT !.appenders = Closed(l.appenders)]
      /\ k.appenders \in Seq(Appenders) /\ l.appenders \in Seq(Appenders)
  BY DEF Alike, Loggers
<1> DEFINE kc == Closed(k.appenders)
           lc == Closed(l.appenders)
<1>2. kc = lc /\ k.name = l.name /\ k.level = l.level /\ k.formatter = l.formatter
  <2> HIDE DEF kc, lc
  <2>1. [k EXCEPT !.appenders = kc] = [l EXCEPT !.appenders = lc]
    BY <1>1 DEF kc, lc
  <2> QED
    BY <2>1 DEF Loggers
<1>3. DOMAIN kc = DOMAIN k.appenders /\ DOMAIN lc = DOMAIN l.appenders
      /\ \A i \in DOMAIN k.appenders : kc[i] = [k.appenders[i] EXCEPT !.open = NULL]
      /\ \A j \in DOMAIN l.appenders : lc[j] = [l.appenders[j] EXCEPT !.open = NULL]
  BY DEF Closed
<1>4. ASSUME NEW i \in DOMAIN l.appenders PROVE k.appenders[i].path = l.appenders[i].path
  <2>1. k.appenders[i] \in Appenders /\ l.appenders[i] \in Appenders
    BY <1>1, <1>2, <1>3
  <2>2. [k.appenders[i] EXCEPT !.open = NULL] = [l.appenders[i] EXCEPT !.open = NULL]
    BY <1>2, <1>3
  <2> QED
    BY <2>1, <2>2 DEF Appenders
<1> QED
  BY <1>2, <1>3, <1>4

\* Files opened in two goes are files opened.
LEMMA AlikeTwice ==
    ASSUME NEW l \in Loggers, NEW k \in Loggers, NEW m \in Loggers, Alike(l, k), Alike(k, m)
    PROVE  Alike(l, m)
<1>1. /\ m.name = l.name /\ m.level = l.level /\ m.formatter = l.formatter
      /\ Closed(m.appenders) = Closed(l.appenders) /\ DOMAIN k.appenders = DOMAIN l.appenders
      /\ \A i \in DOMAIN l.appenders : k.appenders[i].path = l.appenders[i].path
  BY AlikeParts
<1> DEFINE mc == Closed(m.appenders)
           lc == Closed(l.appenders)
<1>2. [m EXCEPT !.appenders = mc] = [l EXCEPT !.appenders = lc]
  <2>1. mc = lc
    BY <1>1
  <2> HIDE DEF mc, lc
  <2> QED
    BY <1>1, <2>1 DEF Loggers
<1>3. ASSUME NEW i \in DOMAIN l.appenders
      PROVE  m.appenders[i].open \in {l.appenders[i].open, l.appenders[i].path}
  BY <1>1 DEF Alike
<1> QED
  BY <1>2, <1>3 DEF Alike

\* A logger is like itself.
LEMMA AlikeItself == ASSUME NEW l \in Loggers PROVE Alike(l, l)
BY DEF Alike

\* What holds of the objects holds after a record, which changes one of them.
LEMMA OneOpened ==
    ASSUME NEW h, HeapOK(h), NEW id \in Ids, h[id] # NULL, NEW level
    PROVE  Grown(h, [h EXCEPT ![id] = Opened(@, level)])
<1> DEFINE k == Opened(h[id], level)
           g == [h EXCEPT ![id] = k]
<1>1. Consistent(k) /\ Alike(h[id], k) /\ k # NULL
  BY OpenedAlike, LoggerExists DEF HeapOK
<1>2. h = [i \in Ids |-> h[i]] /\ \A i \in Ids : h[i] # NULL => Consistent(h[i])
  BY DEF HeapOK
<1> HIDE DEF k
<1>3. g = [i \in Ids |-> g[i]] /\ g[id] = k /\ \A i \in Ids \ {id} : g[i] = h[i]
  BY <1>2
<1> HIDE DEF g
<1>4. HeapOK(g)
  BY <1>1, <1>2, <1>3 DEF HeapOK
<1>5. \A i \in Ids : (g[i] = NULL <=> h[i] = NULL) /\ (h[i] # NULL => Alike(h[i], g[i]))
  BY <1>1, <1>2, <1>3, AlikeItself DEF Consistent
<1>6. Grown(h, g)
  BY <1>4, <1>5 DEF Grown
<1> QED
  BY <1>6 DEF g, k

\* Records after records are records.
LEMMA GrownTwice ==
    ASSUME NEW h, NEW g, NEW f, HeapOK(h), Grown(h, g), Grown(g, f)
    PROVE  Grown(h, f)
<1>1. HeapOK(g) /\ HeapOK(f)
  BY DEF Grown
<1>2. ASSUME NEW i \in Ids, h[i] # NULL PROVE Alike(h[i], f[i])
  <2>1. g[i] # NULL /\ f[i] # NULL /\ Alike(h[i], g[i]) /\ Alike(g[i], f[i])
    BY <1>2 DEF Grown
  <2>2. h[i] \in Loggers /\ g[i] \in Loggers /\ f[i] \in Loggers
    BY <1>1, <1>2, <2>1 DEF HeapOK, Consistent
  <2> QED
    BY <2>1, <2>2, AlikeTwice
<1> QED
  BY <1>1, <1>2 DEF Grown

\* Logger::log, with the report to m_root of a file that cannot be opened.
LEMMA LogGrows ==
    ASSUME NEW h, HeapOK(h), NEW id \in Ids, h[id] # NULL, NEW level,
           m_root \in Ids, h[m_root] # NULL
    PROVE  Grown(h, LogOn(h, id, level))
<1> DEFINE h1 == [h EXCEPT ![id] = Opened(@, level)]
           h2 == [h1 EXCEPT ![m_root] = Opened(@, ERROR)]
<1>1. Grown(h, h1)
  BY OneOpened
<1>2. LogOn(h, id, level) \in {h1, h2}
  BY DEF LogOn
<1> HIDE DEF h1
<1>3. HeapOK(h1) /\ h1[m_root] # NULL
  BY <1>1 DEF Grown
<1>4. Grown(h1, h2)
  BY <1>3, OneOpened
<1> HIDE DEF h2
<1>5. Grown(h, h2)
  BY <1>1, <1>4, GrownTwice
<1> QED
  BY <1>1, <1>2, <1>5

----------------------------------------------------------------------------
(* What the operations do to the map, the pointers and the objects.        *)

\* Records change nothing the pointers rely on.
LEMMA GrownWired ==
    ASSUME NEW loggers, NEW ptrs, NEW h, Wired(loggers, ptrs, h), NEW g, Grown(h, g)
    PROVE  Wired(loggers, ptrs, g)
<1>1. ASSUME NEW i \in Ids, h[i] # NULL PROVE g[i] # NULL /\ g[i].name = h[i].name
  <2>1. g[i] # NULL /\ h[i] \in Loggers /\ g[i] \in Loggers /\ Alike(h[i], g[i])
    BY <1>1 DEF Grown, Wired, HeapOK, Consistent
  <2> QED
    BY <2>1, AlikeParts
<1>2. HeapOK(g)
  BY DEF Grown
<1> QED
  BY <1>1, <1>2, LoggerAssumption DEF Wired

\* A record on a logger there is.
LEMMA LogWired ==
    ASSUME NEW loggers, NEW ptrs, NEW h, Wired(loggers, ptrs, h),
           NEW id \in Ids, h[id] # NULL, NEW level
    PROVE  Wired(loggers, ptrs, LogOn(h, id, level))
<1>1. Grown(h, LogOn(h, id, level))
  BY LogGrows DEF Wired
<1> QED
  BY <1>1, GrownWired

\* The manager's records on m_root.
LEMMA NoteWired ==
    ASSUME NEW loggers, NEW ptrs, NEW h, Wired(loggers, ptrs, h)
    PROVE  Wired(loggers, ptrs, Note(h))
<1>1. m_root \in Ids /\ h[m_root] # NULL
  BY DEF Wired
<1> QED
  BY <1>1, LogWired DEF Note

\* Only objects nobody points to are freed.
LEMMA CollectWired ==
    ASSUME NEW loggers, NEW ptrs, NEW h, Wired(loggers, ptrs, h)
    PROVE  /\ Wired(loggers, ptrs, Collect(h, loggers, ptrs))
           /\ \A n \in Names : loggers[n] # NULL => Collect(h, loggers, ptrs)[loggers[n]] = h[loggers[n]]
<1> DEFINE g == Collect(h, loggers, ptrs)
<1>1. g = [i \in Ids |-> IF i \in Live(loggers, ptrs) THEN h[i] ELSE NULL]
  BY DEF Collect
<1>2. /\ m_root \in Live(loggers, ptrs)
      /\ \A n \in Names : loggers[n] \in Live(loggers, ptrs)
      /\ \A c \in Callers : ptrs[c] \in Live(loggers, ptrs)
  BY DEF Wired, Live, Range
<1>3. g = [i \in Ids |-> g[i]] /\ \A i \in Ids : g[i] = IF i \in Live(loggers, ptrs) THEN h[i] ELSE NULL
  BY <1>1
<1> HIDE DEF g
<1>4. HeapOK(g)
  BY <1>3 DEF Wired, HeapOK
<1>5. \A n \in Names : loggers[n] # NULL => loggers[n] \in Ids /\ g[loggers[n]] = h[loggers[n]]
  BY <1>2, <1>3 DEF Wired
<1>6. \A c \in Callers : ptrs[c] # NULL => g[ptrs[c]] = h[ptrs[c]]
  BY <1>2, <1>3 DEF Wired
<1>7. g[m_root] = h[m_root]
  BY <1>2, <1>3 DEF Wired
<1>8. Wired(loggers, ptrs, g)
  BY <1>4, <1>5, <1>6, <1>7 DEF Wired
<1> QED
  BY <1>5, <1>8 DEF g

\* A logger is changed in place and keeps its name.
LEMMA ChangedWired ==
    ASSUME NEW loggers, NEW ptrs, NEW h, Wired(loggers, ptrs, h),
           NEW id \in Ids, h[id] # NULL, NEW k, Consistent(k), k.name = h[id].name
    PROVE  Wired(loggers, ptrs, [h EXCEPT ![id] = k])
<1> DEFINE g == [h EXCEPT ![id] = k]
<1>1. h = [i \in Ids |-> h[i]] /\ \A i \in Ids : h[i] # NULL => Consistent(h[i])
  BY DEF Wired, HeapOK
<1>2. g = [i \in Ids |-> g[i]] /\ g[id] = k /\ \A i \in Ids \ {id} : g[i] = h[i]
  BY <1>1
<1> HIDE DEF g
<1>3. HeapOK(g)
  BY <1>1, <1>2 DEF HeapOK
<1>4. \A i \in Ids : h[i] # NULL => g[i] # NULL /\ g[i].name = h[i].name
  BY <1>2, LoggerExists
<1>5. Wired(loggers, ptrs, g)
  BY <1>3, <1>4 DEF Wired
<1> QED
  BY <1>5 DEF g

\* A logger is made for a name, at an address nobody points to.
LEMMA MadeWired ==
    ASSUME NEW loggers, NEW ptrs, NEW h, Wired(loggers, ptrs, h),
           NEW n \in Names, NEW id \in Ids, h[id] = NULL, NEW k, Consistent(k), k.name = n
    PROVE  Wired([loggers EXCEPT ![n] = id], ptrs, [h EXCEPT ![id] = k])
<1> DEFINE g == [h EXCEPT ![id] = k]
           m == [loggers EXCEPT ![n] = id]
<1>1. h = [i \in Ids |-> h[i]] /\ \A i \in Ids : h[i] # NULL => Consistent(h[i])
  BY DEF Wired, HeapOK
<1>2. g = [i \in Ids |-> g[i]] /\ g[id] = k /\ \A i \in Ids \ {id} : g[i] = h[i]
  BY <1>1
<1>3. m \in [Names -> Ids \cup {NULL}] /\ m[n] = id /\ \A o \in Names \ {n} : m[o] = loggers[o]
  BY DEF Wired
<1> HIDE DEF g, m
<1>4. HeapOK(g) /\ k # NULL
  BY <1>1, <1>2, LoggerExists DEF HeapOK
<1>5. \A o \in Names : m[o] # NULL => g[m[o]] # NULL /\ g[m[o]].name = o
  BY <1>2, <1>3, <1>4 DEF Wired
<1>6. \A c \in Callers : ptrs[c] # NULL => g[ptrs[c]] # NULL
  BY <1>2, <1>4 DEF Wired
<1>7. g[m_root] # NULL
  BY <1>2, <1>4 DEF Wired
<1>8. Wired(m, ptrs, g)
  BY <1>3, <1>4, <1>5, <1>6, <1>7 DEF Wired
<1> QED
  BY <1>8 DEF g, m

\* The map forgets a name.
LEMMA UnmappedWired ==
    ASSUME NEW loggers, NEW ptrs, NEW h, Wired(loggers, ptrs, h), NEW n \in Names
    PROVE  Wired([loggers EXCEPT ![n] = NULL], ptrs, h)
BY DEF Wired

\* A caller keeps a pointer to a logger there is.
LEMMA HeldWired ==
    ASSUME NEW loggers, NEW ptrs, NEW h, Wired(loggers, ptrs, h),
           NEW c \in Callers, NEW id \in Ids, h[id] # NULL
    PROVE  Wired(loggers, [ptrs EXCEPT ![c] = id], h)
BY DEF Wired

\* A name has one logger, and a logger in the map one name.
LEMMA OneName ==
    ASSUME NEW loggers, NEW ptrs, NEW h, Wired(loggers, ptrs, h),
           NEW n \in Names, NEW o \in Names, loggers[n] # NULL, loggers[n] = loggers[o]
    PROVE  n = o
BY DEF Wired

----------------------------------------------------------------------------
(* What updateLogger and configureLogger make of a logger.                 *)

\* Lists of appenders as a logger with this formatter can have them.
Suited(formatter) == {aps \in Seq(Appenders) : \A i \in DOMAIN aps : Suits(aps[i], formatter)}

\* An appender made with its logger's formatter.
LEMMA NewSuits ==
    ASSUME NEW type \in Kinds, NEW path, type = "file" => path \in Paths,
           NEW level \in UNKNOW .. FATAL, NEW formatter \in Patterns
    PROVE  Suits(NewAppender(type, path, level, formatter), formatter)
BY LoggerAssumption DEF Suits, NewAppender, Appenders, Kinds

\* One round of updateLogger's loop.
LEMMA WithTypeSuits ==
    ASSUME NEW path \in Paths, NEW formatter \in Patterns, NEW aps \in Suited(formatter),
           NEW type \in Kinds
    PROVE  WithType(path, formatter, aps, type) \in Suited(formatter)
<1> DEFINE a == NewAppender(type, path, DEBUG, formatter)
           b == [i \in DOMAIN aps |->
                   IF aps[i].type = type /\ type = "file" THEN [aps[i] EXCEPT !.path = path] ELSE aps[i]]
<1>1. Suits(a, formatter) /\ a \in Appenders
  <2>1. DEBUG \in UNKNOW .. FATAL
    BY DEF DEBUG, UNKNOW, FATAL
  <2> QED
    BY <2>1, NewSuits DEF Suits
<1>2. aps \in Seq(Appenders) /\ \A i \in DOMAIN aps : Suits(aps[i], formatter)
  BY DEF Suited
<1>3. Append(aps, a) \in Suited(formatter)
  <2> HIDE DEF a
  <2>1. Append(aps, a) \in Seq(Appenders) /\ DOMAIN Append(aps, a) = 1 .. Len(aps) + 1
    BY <1>1, <1>2
  <2>2. ASSUME NEW i \in DOMAIN Append(aps, a) PROVE Suits(Append(aps, a)[i], formatter)
    BY <1>1, <1>2, <2>1
  <2> QED
    BY <2>1, <2>2 DEF Suited
<1>4. b \in Suited(formatter)
  <2>1. ASSUME NEW i \in DOMAIN aps PROVE b[i] \in Appenders /\ Suits(b[i], formatter)
    BY <1>2, LoggerAssumption DEF Suits, Appenders
  <2>2. DOMAIN aps = 1 .. Len(aps) /\ Len(aps) \in Nat
    BY <1>2
  <2>3. DOMAIN b = DOMAIN aps /\ b = [i \in DOMAIN aps |-> b[i]]
    OBVIOUS
  <2> HIDE DEF b
  <2>4. b \in Seq(Appenders)
    BY <2>1, <2>2, <2>3, FunctionIsSeq
  <2> QED
    BY <2>1, <2>3, <2>4 DEF Suited
<1>5. WithType(path, formatter, aps, type) \in {Append(aps, a), b}
  BY DEF WithType
<1> HIDE DEF a, b
<1> QED
  BY <1>3, <1>4, <1>5

\* The lists of appenders after k rounds.
IsRounds(g, n, path, formatter, aps, types) ==
    g = [k \in 0 .. n |-> IF k = 0 THEN aps ELSE WithType(path, formatter, g[k - 1], types[k])]

\* The loop has a result.
LEMMA RoundsExist ==
    ASSUME NEW path, NEW formatter, NEW aps, NEW types, NEW n \in Nat
    PROVE  \E g : IsRounds(g, n, path, formatter, aps, types)
<1> DEFINE Upto(g, m) == g = [k \in 0 .. m |-> IF k = 0 THEN aps
                                                ELSE WithType(path, formatter, g[k - 1], types[k])]
           B == {m \in Nat : \E g : Upto(g, m)}
<1>1. 0 \in B
  <2> DEFINE g == [k \in 0 .. 0 |-> aps]
  <2>1. Upto(g, 0)
    OBVIOUS
  <2> QED
    BY <2>1
<1>2. ASSUME NEW m \in Nat, m \in B PROVE m + 1 \in B
  <2>1. PICK g : Upto(g, m)
    BY <1>2
  <2> DEFINE h == [k \in 0 .. m + 1 |-> IF k \in 0 .. m THEN g[k]
                                        ELSE WithType(path, formatter, g[k - 1], types[k])]
  <2>2. \A k \in 0 .. m + 1 : h[k] = IF k = 0 THEN aps ELSE WithType(path, formatter, h[k - 1], types[k])
    <3> TAKE k \in 0 .. m + 1
    <3>1. k # 0 => k - 1 \in 0 .. m
      OBVIOUS
    <3>2. k # 0 => h[k - 1] = g[k - 1]
      BY <3>1
    <3>3. k \in 0 .. m => g[k] = IF k = 0 THEN aps ELSE WithType(path, formatter, g[k - 1], types[k])
      BY <2>1
    <3>4. h[k] = IF k \in 0 .. m THEN g[k] ELSE WithType(path, formatter, g[k - 1], types[k])
      OBVIOUS
    <3> HIDE DEF h, Upto
    <3> QED
      BY <3>2, <3>3, <3>4
  <2>3. h = [k \in 0 .. m + 1 |-> h[k]]
    OBVIOUS
  <2>4. Upto(h, m + 1)
    <3> HIDE DEF h
    <3> QED
      BY <2>2, <2>3
  <2> HIDE DEF h, Upto
  <2> QED
    BY <2>4
<1>3. n \in B
  <2> HIDE DEF B
  <2> QED
    BY <1>1, <1>2, Induction
<1> QED
  BY <1>3 DEF IsRounds

\* updateLogger's loop leaves appenders its logger can have.
LEMMA WithTypesSuits ==
    ASSUME NEW path \in Paths, NEW formatter \in Patterns, NEW aps \in Suited(formatter),
           NEW types \in Seq(Kinds)
    PROVE  WithTypes(path, formatter, aps, types) \in Suited(formatter)
<1> DEFINE n == Len(types)
           after == CHOOSE g : IsRounds(g, n, path, formatter, aps, types)
           B == {m \in Nat : m <= n => after[m] \in Suited(formatter)}
<1>1. n \in Nat /\ types = [k \in 1 .. n |-> types[k]] /\ \A k \in 1 .. n : types[k] \in Kinds
  BY ElementOfSeq
<1>2. IsRounds(after, n, path, formatter, aps, types)
  BY <1>1, RoundsExist
<1>3. WithTypes(path, formatter, aps, types) = after[n]
  BY DEF WithTypes, IsRounds
<1> HIDE DEF after
<1>4. \A k \in 0 .. n : after[k] = IF k = 0 THEN aps ELSE WithType(path, formatter, after[k - 1], types[k])
  BY <1>2 DEF IsRounds
<1> HIDE DEF n
<1>5. 0 \in B
  BY <1>1, <1>4, SMTT(30)
<1>6. ASSUME NEW m \in Nat, m \in B PROVE m + 1 \in B
  <2> SUFFICES ASSUME m + 1 <= n PROVE after[m + 1] \in Suited(formatter)
    OBVIOUS
  <2>1. m + 1 \in 0 .. n /\ (m + 1) - 1 = m /\ m + 1 # 0 /\ m + 1 \in 1 .. n /\ m <= n
    BY <1>1
  <2>2. after[m + 1] = WithType(path, formatter, after[m], types[m + 1])
    BY <1>4, <2>1
  <2>3. after[m] \in Suited(formatter) /\ types[m + 1] \in Kinds
    BY <1>1, <1>6, <2>1
  <2> QED
    BY <2>2, <2>3, WithTypeSuits
<1>7. n \in B
  <2> HIDE DEF B
  <2> QED
    BY <1>1, <1>5, <1>6, Induction
<1> QED
  BY <1>1, <1>3, <1>7

\* updateLogger: either the appenders' formatters are the logger's, or all get
\* the new one.
LEMMA UpdatedConsistent ==
    ASSUME NEW l, Consistent(l), NEW level \in UNKNOW .. FATAL, NEW pattern \in Patterns,
           NEW types \in Seq(Kinds), NEW path \in Paths
    PROVE  Consistent(Updated(l, level, pattern, types, path))
           /\ Updated(l, level, pattern, types, path).name = l.name
<1> DEFINE b == [i \in DOMAIN l.appenders |->
                   [l.appenders[i] EXCEPT !.custom = FALSE, !.formatter = pattern]]
           aps == IF pattern = l.formatter THEN l.appenders ELSE b
           w == WithTypes(path, pattern, aps, types)
           k == [l EXCEPT !.level = level, !.formatter = pattern, !.appenders = w]
<1>1. /\ l \in Loggers /\ l.appenders \in Seq(Appenders)
      /\ \A i \in DOMAIN l.appenders : Suits(l.appenders[i], l.formatter)
  BY DEF Consistent, Loggers
<1>2. b \in Suited(pattern)
  <2>1. ASSUME NEW i \in DOMAIN l.appenders PROVE b[i] \in Appenders /\ Suits(b[i], pattern)
    BY <1>1 DEF Suits, Appenders
  <2>2. DOMAIN l.appenders = 1 .. Len(l.appenders) /\ Len(l.appenders) \in Nat
    BY <1>1
  <2>3. DOMAIN b = DOMAIN l.appenders /\ b = [i \in DOMAIN l.appenders |-> b[i]]
    OBVIOUS
  <2> HIDE DEF b
  <2>4. b \in Seq(Appenders)
    BY <2>1, <2>2, <2>3, FunctionIsSeq
  <2> QED
    BY <2>1, <2>3, <2>4 DEF Suited
<1>3. aps \in Suited(pattern)
  <2> HIDE DEF b
  <2> QED
    BY <1>1, <1>2 DEF Suited
<1>4. Updated(l, level, pattern, types, path) = k
  BY DEF Updated
<1> HIDE DEF aps
<1>5. w \in Suited(pattern)
  BY <1>3, WithTypesSuits
<1> HIDE DEF w
<1>6. /\ k \in Loggers /\ k.name = l.name /\ k.formatter = pattern /\ k.appenders = w
  BY <1>1, <1>5 DEF Loggers, Suited
<1> HIDE DEF k
<1> QED
  BY <1>4, <1>5, <1>6 DEF Consistent, Suited

\* The appenders configureLogger makes for a logger with this formatter.
Fresh(formatter) == {a \in Appenders : Suits(a, formatter) /\ a.open = NULL}

\* configureLogger makes appenders whose files are not open yet.
LEMMA InheritFresh ==
    ASSUME NEW ld, IsDefine(ld)
    PROVE  Inherit(ld) \in Seq(Fresh(ld.formatter))
<1> DEFINE S == Fresh(ld.formatter)
           s == [i \in DOMAIN ld.appender |-> Made(ld, ld.appender[i])]
<1>1. DOMAIN ld.appender = 1 .. Len(ld.appender) /\ Len(ld.appender) \in Nat
  BY DEF IsDefine
<1>2. ASSUME NEW i \in DOMAIN ld.appender PROVE Made(ld, ld.appender[i]) \in Seq(S)
  <2> DEFINE a == ld.appender[i]
             x == [type |-> a.type, path |-> IF a.type = "file" THEN a.path ELSE NULL,
                   level |-> IF a.level # UNKNOW THEN a.level ELSE ld.level,
                   formatter |-> IF a.formatter # NULL THEN a.formatter ELSE ld.formatter,
                   custom |-> a.formatter # NULL, open |-> NULL]
  <2>1. a \in Range(ld.appender)
    BY DEF Range
  <2>2. /\ a.level \in UNKNOW .. FATAL /\ a.formatter \in Patterns \cup {NULL}
        /\ a.type = "file" => a.path \in Paths
        /\ ld.level \in UNKNOW .. FATAL /\ ld.formatter \in Patterns
    BY <2>1 DEF IsDefine
  <2> HIDE DEF a
  <2>3. a.type \in Kinds => x \in S
    <3>1. SUFFICES ASSUME a.type \in Kinds PROVE x \in Appenders /\ Suits(x, ld.formatter) /\ x.open = NULL
      BY DEF Fresh
    <3> QED
      BY <2>2, <3>1, LoggerAssumption DEF Suits, Appenders, Kinds
  <2>4. Made(ld, a) = IF a.type \notin Kinds THEN <<>> ELSE <<x>>
    BY DEF Made
  <2> HIDE DEF x, S
  <2>5. Made(ld, a) \in Seq(S)
    BY <2>3, <2>4
  <2> QED
    BY <2>5 DEF a
<1>3. s \in Seq(Seq(S))
  <2>1. s = [i \in 1 .. Len(ld.appender) |-> s[i]] /\ \A i \in 1 .. Len(ld.appender) : s[i] \in Seq(S)
    BY <1>1, <1>2
  <2> HIDE DEF s, S
  <2> QED
    BY <1>1, <2>1, FunctionIsSeq
<1>4. FlattenSeq(s) \in Seq(S)
  <2> HIDE DEF s, S
  <2> QED
    BY <1>3, FlattenType
<1> QED
  BY <1>4 DEF Inherit

\* configureLogger leaves a logger of the name it is given, its appenders unopened.
LEMMA ConfiguredConsistent ==
    ASSUME NEW n \in Names, NEW ld, IsDefine(ld)
    PROVE  /\ Consistent(Configured(n, ld))
           /\ Configured(n, ld).name = n
           /\ \A i \in DOMAIN Configured(n, ld).appenders : Configured(n, ld).appenders[i].open = NULL
<1> DEFINE k == Configured(n, ld)
           aps == Inherit(ld)
<1>1. k = [name |-> n, level |-> ld.level, formatter |-> ld.formatter, appenders |-> aps]
  BY DEF Configured
<1>2. aps \in Seq(Fresh(ld.formatter))
  BY InheritFresh
<1> HIDE DEF aps
<1>3. \A i \in DOMAIN aps : aps[i] \in Fresh(ld.formatter)
  BY <1>2
<1>4. aps \in Seq(Appenders)
  <2>1. Fresh(ld.formatter) \subseteq Appenders
    BY DEF Fresh
  <2>2. \A i \in 1 .. Len(aps) : aps[i] \in Appenders
    BY <1>2, <2>1, ElementOfSeq
  <2>3. aps = [i \in 1 .. Len(aps) |-> aps[i]] /\ Len(aps) \in Nat
    BY <1>2
  <2> QED
    BY <2>2, <2>3, FunctionIsSeq
<1>5. k \in Loggers /\ k.appenders = aps /\ k.formatter = ld.formatter /\ k.name = n
  BY <1>1, <1>4 DEF Loggers, IsDefine
<1> HIDE DEF k
<1>6. Consistent(k) /\ \A i \in DOMAIN k.appenders : k.appenders[i].open = NULL
  BY <1>3, <1>5 DEF Consistent, Fresh
<1> QED
  BY <1>5, <1>6 DEF k

----------------------------------------------------------------------------
(* What a document defines.                                                *)

\* A text in a table of the levels' names has its place there.
LEMMA PositionOf ==
    ASSUME NEW text
    PROVE  /\ text \in Range(LevelNames) => /\ Position(LevelNames, text) \in DEBUG .. FATAL
                                            /\ LevelNames[Position(LevelNames, text)] = text
           /\ text \in Range(UpperNames) => /\ Position(UpperNames, text) \in DEBUG .. FATAL
                                            /\ UpperNames[Position(UpperNames, text)] = text
BY DEF Position, LevelNames, UpperNames, Range, DEBUG, FATAL

\* Whatever text stands for a level, a level is read.
LEMMA LevelInType == ASSUME NEW node PROVE LevelIn(node) \in UNKNOW .. FATAL
<1>1. DEBUG .. FATAL \subseteq UNKNOW .. FATAL /\ UNKNOW \in UNKNOW .. FATAL
  BY DEF DEBUG, FATAL, UNKNOW
<1> QED
  BY <1>1, PositionOf DEF LevelIn, LevelFromString

\* A complete node defines a logger.
LEMMA NodeDefines ==
    ASSUME NEW node, IsNode(node), Complete(node)
    PROVE  IsDefine(ToDefine(node))
<1> DEFINE aps == node.appender
           def(a) == [type |-> a.type, path |-> IF a.type = "file" THEN a.file ELSE NULL,
                      level |-> LevelIn(a), formatter |-> a.formatter]
           d == [i \in DOMAIN aps |-> def(aps[i])]
<1>1. ToDefine(node) = [level |-> LevelIn(node), formatter |-> node.formatter, appender |-> d]
  BY DEF ToDefine
<1>2. DOMAIN aps = 1 .. Len(aps) /\ Len(aps) \in Nat
  BY DEF IsNode
<1>3. ASSUME NEW i \in DOMAIN aps
      PROVE  /\ def(aps[i]).level \in UNKNOW .. FATAL
             /\ def(aps[i]).formatter \in Patterns \cup {NULL}
             /\ def(aps[i]).type = "file" => def(aps[i]).path \in Paths
  <2>1. aps[i] \in Range(aps)
    BY DEF Range
  <2>2. /\ aps[i].formatter \in Patterns \cup {NULL} /\ aps[i].file \in Paths \cup {NULL}
        /\ aps[i].type = "file" => aps[i].file # NULL
    BY <2>1 DEF IsNode, Complete
  <2> HIDE DEF aps
  <2> QED
    BY <2>2, LevelInType
<1>4. \A a \in Range(d) : /\ a.level \in UNKNOW .. FATAL /\ a.formatter \in Patterns \cup {NULL}
                          /\ a.type = "file" => a.path \in Paths
  BY <1>3 DEF Range
<1>5. d \in Seq(Range(d))
  <2>1. d = [i \in 1 .. Len(aps) |-> d[i]] /\ \A i \in 1 .. Len(aps) : d[i] \in Range(d)
    BY <1>2 DEF Range
  <2> HIDE DEF d, aps
  <2> QED
    BY <1>2, <2>1, FunctionIsSeq
<1>6. LevelIn(node) \in UNKNOW .. FATAL /\ node.formatter \in Patterns
  BY LevelInType DEF IsNode, Complete
<1> HIDE DEF d
<1> QED
  BY <1>1, <1>4, <1>5, <1>6 DEF IsDefine

\* The definitions of a document that converts: the first node of each name.
LEMMA DocumentDefines ==
    ASSUME NEW doc \in Documents, ToDefines(doc) # THROWS
    PROVE  /\ ToDefines(doc) = [n \in Names |-> ToDefines(doc)[n]]
           /\ \A n \in Names : ToDefines(doc)[n] # NULL => IsDefine(ToDefines(doc)[n])
<1> DEFINE named(n) == {i \in DOMAIN doc : doc[i].name = n}
           v == ToDefines(doc)
<1>1. ~ \E i \in DOMAIN doc : ~Complete(doc[i])
  BY DEF ToDefines
<1>2. v = [n \in Names |-> IF named(n) = {} THEN NULL ELSE ToDefine(doc[Min(named(n))])]
  BY <1>1 DEF ToDefines
<1>3. DOMAIN doc \subseteq Nat /\ \A node \in Range(doc) : IsNode(node)
  <2>1. doc \in Seq(Range(doc)) /\ \A node \in Range(doc) : IsNode(node)
    BY LoggerAssumption
  <2> QED
    BY <2>1
<1> HIDE DEF v
<1>4. ASSUME NEW n \in Names, v[n] # NULL PROVE IsDefine(v[n])
  <2>1. named(n) # {} /\ v[n] = ToDefine(doc[Min(named(n))])
    BY <1>2, <1>4
  <2>2. named(n) \subseteq Nat
    BY <1>3
  <2>3. Min(named(n)) \in named(n)
    <3> HIDE DEF named
    <3> QED
      BY <2>1, <2>2, Smallest
  <2>4. Min(named(n)) \in DOMAIN doc
    BY <2>3
  <2> HIDE DEF named
  <2>5. IsNode(doc[Min(named(n))]) /\ Complete(doc[Min(named(n))])
    BY <1>1, <1>3, <2>4 DEF Range
  <2> QED
    BY <2>1, <2>5, NodeDefines
<1>5. v = [n \in Names |-> v[n]]
  BY <1>2
<1> QED
  BY <1>4, <1>5 DEF v

----------------------------------------------------------------------------
(* Every operation leaves the pointers wired.                              *)

Wiring == Wired(m_loggers, held, logger)
WiringNext == Wired(m_loggers', held', logger')

\* LoggerManager's constructor makes root, with an appender to stdout.
LEMMA InitWired == Init => Wiring
<1> SUFFICES ASSUME Init PROVE Wiring
  OBVIOUS
<1> DEFINE a == NewAppender("stdout", NULL, DEBUG, DefaultPattern)
<1>1. Suits(a, DefaultPattern)
  <2>1. DEBUG \in UNKNOW .. FATAL /\ "stdout" \in Kinds /\ DefaultPattern \in Patterns
    BY LoggerAssumption DEF DEBUG, UNKNOW, FATAL, Kinds
  <2> QED
    BY <2>1, NewSuits
<1>2. Root0 = [name |-> RootName, level |-> DEBUG, formatter |-> DefaultPattern, appenders |-> <<a>>]
  BY DEF Root0
<1> HIDE DEF a
<1>3. Root0 \in Loggers /\ Root0.appenders = <<a>> /\ Root0.formatter = DefaultPattern
      /\ Root0.name = RootName
  <2>1. a \in Appenders /\ RootName \in Names /\ DefaultPattern \in Patterns
    BY <1>1, LoggerAssumption DEF Suits
  <2>2. <<a>> \in Seq(Appenders) /\ DEBUG \in UNKNOW .. FATAL
    BY <2>1 DEF DEBUG, UNKNOW, FATAL
  <2> QED
    BY <1>2, <2>1, <2>2 DEF Loggers
<1>4. Consistent(Root0) /\ Root0 # NULL
  <2>1. DOMAIN <<a>> = {1} /\ <<a>>[1] = a
    OBVIOUS
  <2>2. Consistent(Root0)
    BY <1>1, <1>3, <2>1 DEF Consistent
  <2> QED
    BY <2>2, LoggerExists
<1>5. HeapOK(logger)
  BY <1>4 DEF Init, HeapOK
<1> QED
  BY <1>3, <1>4, <1>5, LoggerAssumption DEF Init, Wired, Wiring

\* getLogger makes a logger without appenders if there is none.
LEMMA GetLoggerWired ==
    ASSUME Wiring, NEW c \in Callers, NEW n \in Names, GetLogger(c, n)
    PROVE  WiringNext
<1> DEFINE k == [name |-> n, level |-> DEBUG, formatter |-> DefaultPattern, appenders |-> <<>>]
<1>1. PICK id \in Ids :
         /\ IF m_loggers[n] # NULL
            THEN id = m_loggers[n] /\ UNCHANGED m_loggers
            ELSE logger[id] = NULL /\ m_loggers' = [m_loggers EXCEPT ![n] = id]
         /\ held' = [held EXCEPT ![c] = id]
         /\ logger' = Collect(IF m_loggers[n] # NULL THEN logger ELSE [logger EXCEPT ![id] = k],
                              m_loggers', held')
  BY DEF GetLogger
<1> DEFINE g == IF m_loggers[n] # NULL THEN logger ELSE [logger EXCEPT ![id] = k]
<1>2. Consistent(k) /\ k.name = n /\ k # NULL
  <2>1. k \in Loggers
    BY LoggerAssumption DEF Loggers, DEBUG, UNKNOW, FATAL
  <2>2. k.appenders = <<>> /\ DOMAIN <<>> = {} /\ k.name = n
    OBVIOUS
  <2> HIDE DEF k
  <2>3. Consistent(k)
    BY <2>1, <2>2 DEF Consistent
  <2> QED
    BY <2>2, <2>3, LoggerExists
<1> HIDE DEF k
<1>3. Wired(m_loggers', held, g) /\ g[id] # NULL
  <2>1. CASE m_loggers[n] # NULL
    BY <1>1, <2>1 DEF Wiring, Wired
  <2>2. CASE m_loggers[n] = NULL
    <3>1. logger[id] = NULL /\ m_loggers' = [m_loggers EXCEPT ![n] = id] /\ g = [logger EXCEPT ![id] = k]
      BY <1>1, <2>2
    <3>2. Wired(m_loggers', held, g)
      <4>1. Wired([m_loggers EXCEPT ![n] = id], held, [logger EXCEPT ![id] = k])
        BY <1>2, <3>1, MadeWired DEF Wiring
      <4> HIDE DEF g
      <4> QED
        BY <3>1, <4>1
    <3>3. g[id] = k
      BY <3>1 DEF Wiring, Wired, HeapOK
    <3> QED
      BY <1>2, <3>2, <3>3
  <2> QED
    BY <2>1, <2>2
<1> HIDE DEF g
<1>4. Wired(m_loggers', held', g)
  BY <1>1, <1>3, HeldWired
<1>5. logger' = Collect(g, m_loggers', held')
  BY <1>1 DEF g
<1> QED
  BY <1>4, <1>5, CollectWired DEF WiringNext

\* createLogger makes a logger whose appenders have its formatter, or updates
\* the one there is.
LEMMA CreateLoggerWired ==
    ASSUME Wiring, NEW n \in Names, NEW level \in UNKNOW .. FATAL, NEW pattern \in Patterns,
           NEW types \in Seq(Kinds), NEW path \in Paths, CreateLogger(n, level, pattern, types, path)
    PROVE  WiringNext /\ overflow' \in BOOLEAN \cup {overflow}
<1>1. CASE m_loggers[n] = NULL
  <2> DEFINE aps == [i \in DOMAIN types |-> NewAppender(types[i], path, level, pattern)]
             k == [name |-> n, level |-> level, formatter |-> pattern, appenders |-> aps]
  <2>1. PICK id \in Ids : /\ logger[id] = NULL
                          /\ m_loggers' = [m_loggers EXCEPT ![n] = id]
                          /\ logger' = [logger EXCEPT ![id] = k]
    BY <1>1 DEF CreateLogger
  <2>2. aps \in Seq(Appenders) /\ \A i \in DOMAIN aps : Suits(aps[i], pattern)
    <3>1. DOMAIN types = 1 .. Len(types) /\ Len(types) \in Nat /\ \A i \in DOMAIN types : types[i] \in Kinds
      BY ElementOfSeq
    <3>2. \A i \in DOMAIN types : Suits(aps[i], pattern) /\ aps[i] \in Appenders
      BY <3>1, NewSuits DEF Suits
    <3>3. aps = [i \in 1 .. Len(types) |-> aps[i]] /\ DOMAIN aps = DOMAIN types
      BY <3>1
    <3> HIDE DEF aps
    <3> QED
      BY <3>1, <3>2, <3>3, FunctionIsSeq
  <2> HIDE DEF aps
  <2>3. k \in Loggers /\ k.appenders = aps /\ k.formatter = pattern /\ k.name = n
    BY <2>2 DEF Loggers
  <2> HIDE DEF k
  <2>4. Consistent(k)
    BY <2>2, <2>3 DEF Consistent
  <2> QED
    BY <1>1, <2>1, <2>3, <2>4, MadeWired DEF Wiring, WiringNext, CreateLogger
<1>2. CASE m_loggers[n] # NULL
  <2> DEFINE id == m_loggers[n]
             h1 == Note(logger)
             u == Updated(h1[id], level, pattern, types, path)
             h2 == [h1 EXCEPT ![id] = u]
  <2>1. /\ m_loggers' = m_loggers /\ held' = held
        /\ logger' = IF h1 = h2 THEN h2 ELSE Note(h2)
        /\ overflow' \in BOOLEAN
    BY <1>2 DEF CreateLogger
  <2>2. Wired(m_loggers, held, h1)
    BY NoteWired DEF Wiring
  <2>3. id \in Ids /\ h1[id] # NULL /\ Consistent(h1[id])
    <3> HIDE DEF h1
    <3> QED
      BY <1>2, <2>2 DEF Wired, HeapOK
  <2>4. Consistent(u) /\ u.name = h1[id].name
    <3> HIDE DEF h1, id
    <3> QED
      BY <2>3, UpdatedConsistent
  <2>5. Wired(m_loggers, held, h2)
    <3> HIDE DEF h1, u, id
    <3> QED
      BY <2>2, <2>3, <2>4, ChangedWired
  <2> HIDE DEF h1, h2
  <2>6. Wired(m_loggers, held, Note(h2))
    BY <2>5, NoteWired
  <2> QED
    BY <2>1, <2>5, <2>6 DEF WiringNext
<1> QED
  BY <1>1, <1>2

\* updateLogger changes a logger in place.
LEMMA UpdateLoggerWired ==
    ASSUME Wiring, NEW n \in Names, NEW level \in UNKNOW .. FATAL, NEW pattern \in Patterns,
           NEW types \in Seq(Kinds), NEW path \in Paths, UpdateLogger(n, level, pattern, types, path)
    PROVE  WiringNext
<1> DEFINE id == m_loggers[n]
           u == Updated(logger[id], level, pattern, types, path)
<1>1. /\ m_loggers' = m_loggers /\ held' = held /\ m_loggers[n] # NULL
      /\ logger' = [logger EXCEPT ![id] = u]
  BY DEF UpdateLogger
<1>2. id \in Ids /\ logger[id] # NULL /\ Consistent(logger[id])
  BY <1>1 DEF Wiring, Wired, HeapOK
<1> HIDE DEF id
<1>3. Consistent(u) /\ u.name = logger[id].name
  BY <1>2, UpdatedConsistent
<1> HIDE DEF u
<1> QED
  BY <1>1, <1>2, <1>3, ChangedWired DEF Wiring, WiringNext

\* removeLogger forgets a logger, which may free it.
LEMMA RemoveLoggerWired ==
    ASSUME Wiring, NEW n \in Names, RemoveLogger(n)
    PROVE  WiringNext /\ overflow' \in BOOLEAN
<1>1. PICK level : /\ logger' = Collect(LogOn(logger, m_root, level), m_loggers', held')
                   /\ overflow' = Recurses(logger, m_root, level)
  BY DEF RemoveLogger
<1>2. m_loggers' = [m_loggers EXCEPT ![n] = NULL] /\ held' = held
  BY DEF RemoveLogger
<1>3. Wired(m_loggers, held, LogOn(logger, m_root, level))
  BY LogWired DEF Wiring, Wired
<1>4. Wired(m_loggers', held', LogOn(logger, m_root, level))
  BY <1>2, <1>3, UnmappedWired
<1> QED
  BY <1>1, <1>4, CollectWired DEF WiringNext, Recurses

\* The listener leads every name of the new value to a logger as it defines it,
\* and no other name to any.
LEMMA ListenerWired ==
    ASSUME Wiring, NEW v, \A n \in Names : v[n] # NULL => IsDefine(v[n]), Listener(v), UNCHANGED held
    PROVE  /\ WiringNext /\ overflow' \in BOOLEAN
           /\ \A n \in Names : v[n] # NULL => /\ m_loggers'[n] # NULL
                                              /\ logger'[m_loggers'[n]] = Configured(n, v[n])
<1> DEFINE removed == {n \in Names : m_loggers[n] # NULL /\ v[n] = NULL}
           added == {n \in Names : m_loggers[n] = NULL /\ v[n] # NULL}
           h == IF removed = {} THEN logger ELSE Note(logger)
           named(m, i) == CHOOSE n \in Names : m[n] = i
           q(m) == [i \in Ids |-> IF \E n \in Names : m[n] = i
                                  THEN Configured(named(m, i), v[named(m, i)]) ELSE h[i]]
<1>1. PICK fresh \in Injection(added, {i \in Ids : logger[i] = NULL}) :
         /\ m_loggers' = [n \in Names |-> IF v[n] = NULL THEN NULL
                                          ELSE IF n \in added THEN fresh[n] ELSE m_loggers[n]]
         /\ logger' = Collect(q(m_loggers'), m_loggers', held')
         /\ overflow' = (removed # {} /\ NoteRecurses(logger))
  BY DEF Listener
<1>2. PICK m : m = m_loggers'
  OBVIOUS
<1>3. Wired(m_loggers, held, h)
  BY NoteWired DEF Wiring
<1>4. /\ fresh \in [added -> {i \in Ids : logger[i] = NULL}]
      /\ \A n, o \in added : fresh[n] = fresh[o] => n = o
  <2> HIDE DEF added
  <2> QED
    BY DEF Injection, IsInjective
<1>5. /\ m = [n \in Names |-> IF v[n] = NULL THEN NULL
                              ELSE IF n \in added THEN fresh[n] ELSE m_loggers[n]]
      /\ logger' = Collect(q(m), m, held)
  <2> HIDE DEF q, added
  <2> QED
    BY <1>1, <1>2
<1>6. \A n \in Names : /\ v[n] = NULL => m[n] = NULL
                       /\ (v[n] # NULL /\ n \in added) => m[n] = fresh[n]
                       /\ (v[n] # NULL /\ n \notin added) => m[n] = m_loggers[n] /\ m_loggers[n] # NULL
  <2>1. \A n \in Names : (v[n] # NULL /\ n \notin added) => m_loggers[n] # NULL
    OBVIOUS
  <2> HIDE DEF added
  <2> QED
    BY <1>5, <2>1
<1>7. \A n \in Names : v[n] # NULL => m[n] \in Ids /\ m[n] # NULL
  <2>1. \A i \in Ids : i # NULL
    BY LoggerAssumption
  <2>2. m_loggers \in [Names -> Ids \cup {NULL}]
    BY DEF Wiring, Wired
  <2> HIDE DEF added
  <2> QED
    BY <1>4, <1>6, <2>1, <2>2
<1>8. m \in [Names -> Ids \cup {NULL}]
  <2> HIDE DEF added
  <2>1. m = [n \in Names |-> m[n]]
    BY <1>5
  <2> QED
    BY <1>6, <1>7, <2>1
<1>9. ASSUME NEW n \in Names, NEW o \in Names, m[n] # NULL, m[n] = m[o] PROVE n = o
  <2>1. v[n] # NULL /\ v[o] # NULL
    <3> HIDE DEF added
    <3> QED
      BY <1>6, <1>9
  <2>2. CASE n \in added /\ o \in added
    <3> HIDE DEF added
    <3> QED
      BY <1>4, <1>6, <1>9, <2>1, <2>2
  <2>3. CASE n \notin added /\ o \notin added
    <3> HIDE DEF added
    <3>1. m_loggers[n] # NULL /\ m_loggers[n] = m_loggers[o]
      BY <1>6, <1>9, <2>1, <2>3
    <3> QED
      BY <3>1, OneName DEF Wiring
  <2>4. ASSUME NEW x \in Names, NEW y \in Names, x \in added, y \notin added, v[x] # NULL, v[y] # NULL
        PROVE  m[x] # m[y]
    <3> HIDE DEF added
    <3>1. m[x] = fresh[x] /\ logger[fresh[x]] = NULL
      BY <1>4, <1>6, <2>4
    <3>2. m[y] = m_loggers[y] /\ logger[m_loggers[y]] # NULL
      BY <1>6, <2>4 DEF Wiring, Wired
    <3> QED
      BY <3>1, <3>2
  <2> HIDE DEF added
  <2> QED
    BY <1>9, <2>1, <2>2, <2>3, <2>4
<1> HIDE DEF added
<1>10. \A n \in Names : v[n] # NULL => named(m, m[n]) = n
  BY <1>7, <1>9
<1>11. \A i \in Ids : q(m)[i] = IF \E n \in Names : m[n] = i
                                THEN Configured(named(m, i), v[named(m, i)]) ELSE h[i]
  OBVIOUS
<1>12. q(m) = [i \in Ids |-> q(m)[i]]
  OBVIOUS
<1>13. PICK g : g = q(m)
  OBVIOUS
<1>14. \A n \in Names : v[n] # NULL => g[m[n]] = Configured(n, v[n])
  <2> HIDE DEF q, named, h
  <2> QED
    BY <1>7, <1>10, <1>11, <1>13
<1>15. \A i \in Ids : (\A n \in Names : m[n] # i) => g[i] = h[i]
  <2> HIDE DEF q, named, h
  <2> QED
    BY <1>11, <1>13
<1>16. g = [i \in Ids |-> g[i]]
  <2> HIDE DEF q, named, h
  <2> QED
    BY <1>12, <1>13
<1> HIDE DEF q, named, h
<1>17. \A n \in Names : v[n] # NULL => /\ Consistent(Configured(n, v[n])) /\ Configured(n, v[n]) # NULL
                                      /\ Configured(n, v[n]).name = n
  BY ConfiguredConsistent, LoggerExists
<1>18. \A i \in Ids : (h[i] # NULL => g[i] # NULL) /\ (g[i] # NULL => Consistent(g[i]))
  <2> SUFFICES ASSUME NEW i \in Ids
               PROVE  (h[i] # NULL => g[i] # NULL) /\ (g[i] # NULL => Consistent(g[i]))
    OBVIOUS
  <2>1. CASE \E n \in Names : m[n] = i
    <3>1. PICK n \in Names : m[n] = i
      BY <2>1
    <3>2. v[n] # NULL
      BY <1>6, <3>1, LoggerAssumption
    <3> QED
      BY <1>14, <1>17, <3>1, <3>2
  <2>2. CASE \A n \in Names : m[n] # i
    BY <1>3, <1>15, <2>2 DEF Wired, HeapOK
  <2> QED
    BY <2>1, <2>2
<1>19. Wired(m, held, g)
  <2>1. HeapOK(g)
    BY <1>16, <1>18 DEF HeapOK
  <2>2. \A n \in Names : m[n] # NULL => g[m[n]] # NULL /\ g[m[n]].name = n
    BY <1>6, <1>14, <1>17
  <2>3. \A c \in Callers : held[c] # NULL => g[held[c]] # NULL
    BY <1>3, <1>18 DEF Wired
  <2> QED
    BY <1>3, <1>8, <1>18, <2>1, <2>2, <2>3 DEF Wired
<1>20. logger' = Collect(g, m, held)
  BY <1>5, <1>13
<1>21. Wired(m, held, logger') /\ \A n \in Names : m[n] # NULL => logger'[m[n]] = g[m[n]]
  BY <1>19, <1>20, CollectWired
<1>22. \A n \in Names : v[n] # NULL => m[n] # NULL /\ logger'[m[n]] = Configured(n, v[n])
  BY <1>7, <1>14, <1>21
<1> QED
  BY <1>1, <1>2, <1>21, <1>22 DEF WiringNext

\* fromString of a document.
LEMMA ReloadWired ==
    ASSUME Wiring, NEW doc \in Documents, Reload(doc)
    PROVE  WiringNext /\ overflow' \in BOOLEAN \cup {overflow}
<1> DEFINE v == ToDefines(doc)
<1>1. held' = held
  BY DEF Reload
<1>2. CASE v = THROWS
  <2>1. /\ logger' = LogOn(logger, m_root, ERROR) /\ overflow' = Recurses(logger, m_root, ERROR)
        /\ m_loggers' = m_loggers
    BY <1>2 DEF Reload
  <2>2. Wired(m_loggers, held, LogOn(logger, m_root, ERROR))
    BY LogWired DEF Wiring, Wired
  <2> QED
    BY <1>1, <2>1, <2>2 DEF WiringNext, Recurses
<1>3. CASE v # THROWS /\ SameValue(m_value, v)
  BY <1>1, <1>3 DEF Reload, Wiring, WiringNext
<1>4. CASE v # THROWS /\ ~SameValue(m_value, v)
  <2>1. Listener(v)
    BY <1>4 DEF Reload
  <2>2. \A n \in Names : v[n] # NULL => IsDefine(v[n])
    BY <1>4, DocumentDefines
  <2> HIDE DEF v
  <2> QED
    BY <1>1, <2>1, <2>2, ListenerWired
<1> QED
  BY <1>2, <1>3, <1>4

\* configureLogger by the program: an existing logger is changed in place.
LEMMA ConfigureLoggerWired ==
    ASSUME Wiring, NEW n \in Names, NEW ld, IsDefine(ld), ConfigureLogger(n, ld)
    PROVE  WiringNext
<1>1. PICK id \in Ids : /\ IF m_loggers[n] # NULL THEN id = m_loggers[n] ELSE logger[id] = NULL
                        /\ m_loggers' = [m_loggers EXCEPT ![n] = id]
                        /\ logger' = [logger EXCEPT ![id] = Configured(n, ld)]
                        /\ held' = held
  BY DEF ConfigureLogger
<1>2. Consistent(Configured(n, ld)) /\ Configured(n, ld).name = n
  BY ConfiguredConsistent
<1>3. CASE m_loggers[n] # NULL
  <2>1. id = m_loggers[n] /\ m_loggers' = m_loggers /\ logger[id] # NULL /\ logger[id].name = n
    BY <1>1, <1>3 DEF Wiring, Wired
  <2> QED
    BY <1>1, <1>2, <2>1, ChangedWired DEF Wiring, WiringNext
<1>4. CASE m_loggers[n] = NULL
  BY <1>1, <1>2, <1>4, MadeWired DEF Wiring, WiringNext
<1> QED
  BY <1>3, <1>4

\* What a caller does with its logger.
LEMMA ChangesWired ==
    ASSUME Wiring, NEW c \in Callers, held[c] # NULL, NEW l, Changes(c, l),
           Consistent(l), l.name = logger[held[c]].name
    PROVE  WiringNext
<1>1. m_loggers' = m_loggers /\ held' = held /\ logger' = [logger EXCEPT ![held[c]] = l]
  BY DEF Changes
<1>2. held[c] \in Ids /\ logger[held[c]] # NULL
  BY DEF Wiring, Wired
<1> QED
  BY <1>1, <1>2, ChangedWired DEF Wiring, WiringNext

\* The logger a caller holds is one.
LEMMA HeldConsistent ==
    ASSUME Wiring, NEW c \in Callers, held[c] # NULL
    PROVE  /\ held[c] \in Ids /\ logger[held[c]] # NULL /\ Consistent(logger[held[c]])
           /\ logger[held[c]] \in Loggers
           /\ logger[held[c]].appenders \in Seq(Appenders)
BY DEF Wiring, Wired, HeapOK, Consistent, Loggers

\* setLevel changes the level only.
LEMMA SetLevelWired ==
    ASSUME Wiring, NEW c \in Callers, NEW level \in Levels, SetLevel(c, level)
    PROVE  WiringNext
<1> DEFINE l == logger[held[c]]
           k == [l EXCEPT !.level = level]
<1>1. held[c] # NULL /\ Changes(c, k)
  BY DEF SetLevel
<1>2. Consistent(l) /\ l \in Loggers
  BY <1>1, HeldConsistent
<1>3. level \in UNKNOW .. FATAL
  BY LoggerAssumption DEF UNKNOW, DEBUG, FATAL
<1> HIDE DEF l
<1>4. Consistent(k) /\ k.name = l.name
  <2>1. k \in Loggers /\ k.appenders = l.appenders /\ k.formatter = l.formatter /\ k.name = l.name
    BY <1>2, <1>3 DEF Loggers
  <2> HIDE DEF k
  <2> QED
    BY <1>2, <2>1 DEF Consistent
<1> HIDE DEF k
<1> QED
  BY <1>1, <1>4, ChangesWired DEF l

\* A change of the appenders to others the logger can have.
LEMMA AppendersWired ==
    ASSUME Wiring, NEW c \in Callers, held[c] # NULL,
           NEW aps \in Suited(logger[held[c]].formatter),
           Changes(c, [logger[held[c]] EXCEPT !.appenders = aps])
    PROVE  WiringNext
<1> DEFINE l == logger[held[c]]
           k == [l EXCEPT !.appenders = aps]
<1>1. Consistent(l) /\ l \in Loggers
  BY HeldConsistent
<1>2. aps \in Suited(l.formatter) /\ Changes(c, k)
  OBVIOUS
<1> HIDE DEF l
<1>3. k \in Loggers /\ k.appenders = aps /\ k.formatter = l.formatter /\ k.name = l.name
  BY <1>1, <1>2 DEF Loggers, Suited
<1> HIDE DEF k
<1>4. Consistent(k)
  BY <1>2, <1>3 DEF Consistent, Suited
<1> QED
  BY <1>2, <1>3, <1>4, ChangesWired DEF l

\* An appender without a formatter gets the logger's when it is added.
LEMMA AddAppenderWired ==
    ASSUME Wiring, NEW c \in Callers, NEW a \in Additions, AddAppender(c, a.type, a.path)
    PROVE  WiringNext
<1> DEFINE l == logger[held[c]]
           x == NewAppender(a.type, a.path, DEBUG, l.formatter)
           aps == Append(l.appenders, x)
<1>1. held[c] # NULL /\ Changes(c, [l EXCEPT !.appenders = aps])
  BY DEF AddAppender
<1>2. Consistent(l) /\ l \in Loggers /\ l.appenders \in Seq(Appenders) /\ l.formatter \in Patterns
  BY <1>1, HeldConsistent DEF Loggers
<1>3. Suits(x, l.formatter) /\ x \in Appenders
  <2>1. DEBUG \in UNKNOW .. FATAL
    BY DEF DEBUG, UNKNOW, FATAL
  <2>2. a.type \in Kinds /\ (a.type = "file" => a.path \in Paths)
    BY LoggerAssumption
  <2> QED
    BY <1>2, <2>1, <2>2, NewSuits DEF Suits
<1> HIDE DEF x
<1>4. aps \in Suited(l.formatter)
  <2> HIDE DEF l
  <2>1. aps \in Seq(Appenders) /\ DOMAIN aps = 1 .. Len(l.appenders) + 1
    BY <1>2, <1>3
  <2>2. ASSUME NEW i \in DOMAIN aps PROVE Suits(aps[i], l.formatter)
    BY <1>2, <1>3, <2>1 DEF Consistent
  <2> QED
    BY <2>1, <2>2 DEF Suited
<1> HIDE DEF aps
<1> QED
  BY <1>1, <1>4, AppendersWired

\* delAppender leaves the other appenders.
LEMMA DelAppenderWired ==
    ASSUME Wiring, NEW c \in Callers, NEW i \in 1 .. MaxAppenders, DelAppender(c, i)
    PROVE  WiringNext
<1> DEFINE l == logger[held[c]]
           s == l.appenders
           aps == RemoveAt(s, i)
<1>1. held[c] # NULL /\ i \in DOMAIN s /\ Changes(c, [l EXCEPT !.appenders = aps])
  BY DEF DelAppender
<1>2. Consistent(l) /\ s \in Seq(Appenders)
  BY <1>1, HeldConsistent
<1>3. \A j \in DOMAIN s : Suits(s[j], l.formatter)
  BY <1>2 DEF Consistent
<1> HIDE DEF s
<1>4. aps \in Suited(l.formatter)
  <2> DEFINE S == {a \in Appenders : Suits(a, l.formatter)}
  <2>1. \A j \in 1 .. Len(s) : s[j] \in S
    BY <1>2, <1>3, ElementOfSeq
  <2>2. s = [j \in 1 .. Len(s) |-> s[j]] /\ Len(s) \in Nat
    BY <1>2
  <2> HIDE DEF S
  <2>3. s \in Seq(S) /\ i \in 1 .. Len(s) /\ i \in Nat
    BY <1>1, <2>1, <2>2, FunctionIsSeq
  <2>4. aps \in Seq(S)
    <3>1. SubSeq(s, 1, i - 1) \in Seq(S) /\ SubSeq(s, i + 1, Len(s)) \in Seq(S)
      BY <2>3
    <3> QED
      BY <3>1 DEF RemoveAt
  <2> HIDE DEF aps
  <2>5. \A j \in DOMAIN aps : aps[j] \in S
    BY <2>4
  <2>6. aps \in Seq(Appenders)
    <3>1. \A j \in 1 .. Len(aps) : aps[j] \in Appenders
      BY <2>4, ElementOfSeq DEF S
    <3>2. aps = [j \in 1 .. Len(aps) |-> aps[j]] /\ Len(aps) \in Nat
      BY <2>4
    <3> QED
      BY <3>1, <3>2, FunctionIsSeq
  <2> QED
    BY <2>5, <2>6 DEF Suited, S
<1> HIDE DEF aps
<1> QED
  BY <1>1, <1>4, AppendersWired

\* clearAppenders leaves none.
LEMMA ClearAppendersWired ==
    ASSUME Wiring, NEW c \in Callers, ClearAppenders(c)
    PROVE  WiringNext
<1>1. held[c] # NULL /\ Changes(c, [logger[held[c]] EXCEPT !.appenders = <<>>])
  BY DEF ClearAppenders
<1>2. <<>> \in Suited(logger[held[c]].formatter)
  BY DEF Suited
<1> QED
  BY <1>1, <1>2, AppendersWired

\* A record on a logger that is held.
LEMMA LoggedWired ==
    ASSUME Wiring, NEW c \in Callers, NEW level, Log(c, level)
    PROVE  WiringNext /\ overflow' \in BOOLEAN
<1>1. /\ logger' = LogOn(logger, held[c], level) /\ overflow' = Recurses(logger, held[c], level)
      /\ m_loggers' = m_loggers /\ held' = held /\ held[c] # NULL
  BY DEF Log
<1>2. held[c] \in Ids /\ logger[held[c]] # NULL
  BY <1>1, HeldConsistent
<1>3. Wired(m_loggers, held, LogOn(logger, held[c], level))
  BY <1>2, LogWired DEF Wiring
<1> QED
  BY <1>1, <1>3 DEF WiringNext, Recurses

----------------------------------------------------------------------------
(* The invariant.                                                          *)

LoggerInv ==
    /\ Wiring
    /\ m_value \in Values \cup {[n \in Names |-> NULL]}
    /\ overflow \in BOOLEAN
    /\ loaded \in Values \cup {NULL}

\* Each step of the program or of a caller keeps the wiring.
LEMMA NextWired ==
    ASSUME Wiring, overflow \in BOOLEAN, Next
    PROVE  WiringNext /\ overflow' \in BOOLEAN /\ m_root' = m_root
<1>1. ASSUME NEW c \in Callers, NEW n \in Asked, GetLogger(c, n)
      PROVE  WiringNext /\ overflow' \in BOOLEAN /\ m_root' = m_root
  <2>1. n \in Names
    BY LoggerAssumption
  <2>2. overflow' = overflow /\ m_root' = m_root
    BY <1>1 DEF GetLogger
  <2> QED
    BY <1>1, <2>1, <2>2, GetLoggerWired
<1>2. ASSUME NEW a \in Creations, CreateLogger(a.name, a.level, a.pattern, a.types, a.path)
      PROVE  WiringNext /\ overflow' \in BOOLEAN /\ m_root' = m_root
  <2>1. /\ a.name \in Names /\ a.level \in UNKNOW .. FATAL /\ a.pattern \in Patterns
        /\ a.types \in Seq(Kinds) /\ a.path \in Paths
    BY LoggerAssumption
  <2>2. m_root' = m_root
    BY <1>2 DEF CreateLogger
  <2> QED
    BY <1>2, <2>1, <2>2, CreateLoggerWired
<1>3. ASSUME NEW a \in Creations, UpdateLogger(a.name, a.level, a.pattern, a.types, a.path)
      PROVE  WiringNext /\ overflow' \in BOOLEAN /\ m_root' = m_root
  <2>1. /\ a.name \in Names /\ a.level \in UNKNOW .. FATAL /\ a.pattern \in Patterns
        /\ a.types \in Seq(Kinds) /\ a.path \in Paths
    BY LoggerAssumption
  <2>2. m_root' = m_root /\ overflow' = overflow
    BY <1>3 DEF UpdateLogger
  <2> QED
    BY <1>3, <2>1, <2>2, UpdateLoggerWired
<1>4. ASSUME NEW n \in Names, RemoveLogger(n)
      PROVE  WiringNext /\ overflow' \in BOOLEAN /\ m_root' = m_root
  <2>1. m_root' = m_root
    BY <1>4 DEF RemoveLogger
  <2> QED
    BY <1>4, <2>1, RemoveLoggerWired
<1>5. ASSUME NEW doc \in Documents, Reload(doc)
      PROVE  WiringNext /\ overflow' \in BOOLEAN /\ m_root' = m_root
  <2>1. m_root' = m_root
    BY <1>5 DEF Reload
  <2> QED
    BY <1>5, <2>1, ReloadWired
<1>6. ASSUME NEW d \in Definitions, ConfigureLogger(d.name, d.define)
      PROVE  WiringNext /\ overflow' \in BOOLEAN /\ m_root' = m_root
  <2>1. d.name \in Names /\ IsDefine(d.define)
    BY LoggerAssumption
  <2>2. m_root' = m_root /\ overflow' = overflow
    BY <1>6 DEF ConfigureLogger
  <2> QED
    BY <1>6, <2>1, <2>2, ConfigureLoggerWired
<1>7. ASSUME NEW c \in Callers, Uses(c)
      PROVE  WiringNext /\ overflow' \in BOOLEAN /\ m_root' = m_root
  <2>1. ASSUME NEW level \in Levels, Log(c, level)
        PROVE  WiringNext /\ overflow' \in BOOLEAN /\ m_root' = m_root
    <3>1. m_root' = m_root
      BY <2>1 DEF Log
    <3> QED
      BY <2>1, <3>1, LoggedWired
  <2>2. ASSUME NEW level \in Levels, SetLevel(c, level)
        PROVE  WiringNext /\ overflow' \in BOOLEAN /\ m_root' = m_root
    BY <2>2, SetLevelWired DEF SetLevel, Changes
  <2>3. ASSUME NEW a \in Additions, AddAppender(c, a.type, a.path)
        PROVE  WiringNext /\ overflow' \in BOOLEAN /\ m_root' = m_root
    BY <2>3, AddAppenderWired DEF AddAppender, Changes
  <2>4. ASSUME NEW i \in 1 .. MaxAppenders, DelAppender(c, i)
        PROVE  WiringNext /\ overflow' \in BOOLEAN /\ m_root' = m_root
    BY <2>4, DelAppenderWired DEF DelAppender, Changes
  <2>5. ASSUME ClearAppenders(c)
        PROVE  WiringNext /\ overflow' \in BOOLEAN /\ m_root' = m_root
    BY <2>5, ClearAppendersWired DEF ClearAppenders, Changes
  <2> QED
    BY <1>7, <2>1, <2>2, <2>3, <2>4, <2>5 DEF Uses
<1> QED
  BY <1>1, <1>2, <1>3, <1>4, <1>5, <1>6, <1>7 DEF Next, Administration

\* Only a document that converts becomes the value.
LEMMA NextValue ==
    ASSUME m_value \in Values \cup {[n \in Names |-> NULL]}, loaded \in Values \cup {NULL}, Next
    PROVE  m_value' \in Values \cup {[n \in Names |-> NULL]} /\ loaded' \in Values \cup {NULL}
<1>1. ASSUME NEW doc \in Documents, Reload(doc)
      PROVE  /\ m_value' \in Values \cup {[n \in Names |-> NULL]}
             /\ loaded' \in Values \cup {NULL}
  <2> DEFINE v == ToDefines(doc)
  <2>1. v # THROWS => v \in Values
    BY DEF Values
  <2>2. \/ m_value' = m_value /\ loaded' = loaded
        \/ v # THROWS /\ m_value' = m_value /\ loaded' \in {NULL, v}
        \/ v # THROWS /\ m_value' = v /\ loaded' = v
    <3> HIDE DEF v
    <3> QED
      BY <1>1 DEF Reload, v
  <2> HIDE DEF v
  <2> QED
    BY <2>1, <2>2
<1>2. ASSUME NEW c, NEW n, GetLogger(c, n) PROVE UNCHANGED <<m_value, loaded>>
  BY <1>2 DEF GetLogger
<1>3. ASSUME NEW n, NEW level, NEW pattern, NEW types, NEW path,
             CreateLogger(n, level, pattern, types, path) \/ UpdateLogger(n, level, pattern, types, path)
      PROVE  m_value' = m_value /\ loaded' = NULL
  BY <1>3 DEF CreateLogger, UpdateLogger
<1>4. ASSUME NEW n, RemoveLogger(n) PROVE m_value' = m_value /\ loaded' \in {loaded, NULL}
  BY <1>4 DEF RemoveLogger
<1>5. ASSUME NEW n, NEW ld, ConfigureLogger(n, ld) PROVE m_value' = m_value /\ loaded' = NULL
  BY <1>5 DEF ConfigureLogger
<1>6. ASSUME NEW c \in Callers, Uses(c) PROVE m_value' = m_value /\ loaded' \in {loaded, NULL}
  BY <1>6 DEF Uses, Log, SetLevel, AddAppender, DelAppender, ClearAppenders, Changes
<1> QED
  BY <1>1, <1>2, <1>3, <1>4, <1>5, <1>6 DEF Next, Administration

\* The invariant holds at the start,
LEMMA LoggerInvInit == Init => LoggerInv
BY InitWired DEF Init, LoggerInv

\* every step keeps it,
LEMMA LoggerInvNext == LoggerInv /\ [Next]_vars => LoggerInv'
<1> SUFFICES ASSUME LoggerInv, [Next]_vars PROVE LoggerInv'
  OBVIOUS
<1>1. CASE Next
  <2>1. WiringNext /\ overflow' \in BOOLEAN /\ m_root' = m_root
    BY <1>1, NextWired DEF LoggerInv
  <2>2. Wiring'
    BY <2>1 DEF Wiring, WiringNext, Wired
  <2>3. m_value' \in Values \cup {[n \in Names |-> NULL]} /\ loaded' \in Values \cup {NULL}
    BY <1>1, NextValue DEF LoggerInv
  <2> QED
    BY <2>1, <2>2, <2>3 DEF LoggerInv, Values
<1>2. CASE UNCHANGED vars
  BY <1>2 DEF vars, LoggerInv, Wiring, Wired, Values
<1> QED
  BY <1>1, <1>2

\* and so it always holds.
LEMMA LoggerInvAlways == Spec => []LoggerInv
BY LoggerInvInit, LoggerInvNext, PTL DEF Spec

\* What the pointers lead to is typed.
LEMMA InvTypes == LoggerInv => TypeOK
<1> SUFFICES ASSUME LoggerInv PROVE TypeOK
  OBVIOUS
<1>1. ASSUME NEW i \in ({m_root} \cup Range(m_loggers) \cup Range(held)) \ {NULL}
      PROVE  /\ logger[i] # NULL
             /\ logger[i].name \in Names
             /\ logger[i].level \in UNKNOW .. FATAL
             /\ logger[i].formatter \in Patterns
             /\ ToSet(logger[i].appenders) \subseteq Appenders
  <2>1. i \in Ids /\ logger[i] # NULL
    BY DEF LoggerInv, Wiring, Wired, Range
  <2>2. logger[i] \in Loggers /\ logger[i].appenders \in Seq(Appenders)
    BY <2>1 DEF LoggerInv, Wiring, Wired, HeapOK, Consistent, Loggers
  <2>3. ToSet(logger[i].appenders) \subseteq Appenders
    BY <2>2, ElementOfSeq DEF ToSet
  <2> QED
    BY <2>1, <2>2, <2>3 DEF Loggers
<1>2. /\ m_root \in Ids
      /\ m_loggers \in [Names -> Ids \cup {NULL}]
      /\ held \in [Callers -> Ids \cup {NULL}]
  BY DEF LoggerInv, Wiring, Wired
<1> QED
  BY <1>1, <1>2 DEF LoggerInv, TypeOK

\* Whatever is configured, created, removed and logged, every pointer of the
\* manager and of its callers leads to a Logger, with a level, a formatter and
\* appenders that make sense: no operation frees a logger somebody holds.
THEOREM LoggerTypeOK == Spec => []TypeOK
BY LoggerInvAlways, InvTypes, PTL

\* The map leads from each name to a logger of that name.
THEOREM LoggerKeys == Spec => []KeysMatchNames
<1>1. LoggerInv => KeysMatchNames
  BY DEF LoggerInv, Wiring, Wired, KeysMatchNames
<1> QED
  BY <1>1, LoggerInvAlways, PTL

----------------------------------------------------------------------------
(* What toYamlString writes, read again.                                   *)

\* The names of the levels are different texts.
LEMMA LevelTables ==
    ASSUME NEW l \in DEBUG .. FATAL
    PROVE  /\ ToLower(UpperNames[l]) = LevelNames[l]
           /\ ToLower(LevelNames[l]) = LevelNames[l]
           /\ LevelFromString(LevelNames[l]) = l
           /\ LevelNames[l] \in Texts
<1>1. DEBUG .. FATAL = {1, 2, 3, 4, 5} /\ DOMAIN UpperNames = 1 .. 5 /\ DOMAIN LevelNames = 1 .. 5
  BY DEF DEBUG, FATAL, UpperNames, LevelNames
<1>2. \A k, m \in DEBUG .. FATAL : /\ UpperNames[k] = UpperNames[m] => k = m
                                   /\ LevelNames[k] = LevelNames[m] => k = m
                                   /\ LevelNames[k] # UpperNames[m]
  BY <1>1 DEF UpperNames, LevelNames
<1>3. UpperNames[l] \in Range(UpperNames) /\ LevelNames[l] \in Range(LevelNames)
  BY <1>1 DEF Range
<1>4. LevelNames[l] \notin Range(UpperNames)
  BY <1>1, <1>2 DEF Range
<1>5. Position(UpperNames, UpperNames[l]) = l /\ Position(LevelNames, LevelNames[l]) = l
  BY <1>2, <1>3, PositionOf
<1> QED
  BY <1>3, <1>4, <1>5 DEF ToLower, LevelFromString, Texts

\* A level that is written is read again, whatever case it is written in.
LEMMA LevelRoundTrip ==
    ASSUME NEW l \in UNKNOW .. FATAL
    PROVE  /\ LevelFromString(ToLower(ToLower(LevelToString(l)))) = l
           /\ ToLower(LevelToString(l)) \in Texts
           /\ ToLower(LevelToString(l)) # NULL
<1>1. CASE l \in DEBUG .. FATAL
  BY <1>1, LevelTables, LoggerAssumption DEF LevelToString
<1>2. CASE l = UNKNOW
  <2>1. l \notin DEBUG .. FATAL
    BY <1>2 DEF UNKNOW, DEBUG, FATAL
  <2>2. DOMAIN UpperNames = 1 .. 5 /\ DOMAIN LevelNames = 1 .. 5
    BY DEF UpperNames, LevelNames
  <2>3. "UNKNOWN" \notin Range(UpperNames) /\ "UNKNOWN" \notin Range(LevelNames)
    BY <2>2 DEF Range, UpperNames, LevelNames
  <2>4. LevelToString(l) = "UNKNOWN" /\ ToLower("UNKNOWN") = "UNKNOWN"
    BY <2>1, <2>3 DEF LevelToString, ToLower
  <2> QED
    BY <1>2, <2>3, <2>4, LoggerAssumption DEF LevelFromString, Texts
<1> QED
  BY <1>1, <1>2 DEF UNKNOW, DEBUG, FATAL

\* A logger as toYamlString sees it.
AsDefine(l) ==
    [level |-> l.level, formatter |-> l.formatter,
     appender |-> [i \in DOMAIN l.appenders |->
        LET a == l.appenders[i]
        IN  [type |-> a.type, path |-> a.path, level |-> a.level,
             formatter |-> IF a.custom THEN a.formatter ELSE NULL]]]

\* One appender: what is written of it, and what is read.
Written(a) ==
    [type |-> a.type, file |-> IF a.type = "file" THEN a.path ELSE NULL,
     level |-> IF a.level = UNKNOW THEN NULL ELSE ToLower(LevelToString(a.level)),
     formatter |-> a.formatter]
Read(a) ==
    [type |-> a.type, path |-> IF a.type = "file" THEN a.file ELSE NULL,
     level |-> LevelIn(a), formatter |-> a.formatter]
Seen(a) ==
    [type |-> a.type, path |-> a.path, level |-> a.level,
     formatter |-> IF a.custom THEN a.formatter ELSE NULL]

\* An appender is read as it was written.
LEMMA AppenderRoundTrip ==
    ASSUME NEW formatter, NEW a, Suits(a, formatter)
    PROVE  /\ Read(Written(Seen(a))) = Seen(a)
           /\ Written(Seen(a)).type # NULL
           /\ Written(Seen(a)).type = "file" => Written(Seen(a)).file # NULL
           /\ Seen(a) \in AppenderDefines
<1> DEFINE s == Seen(a)
           w == Written(s)
<1>1. /\ s \in AppenderDefines /\ s.level \in UNKNOW .. FATAL
      /\ s.path = NULL <=> s.type = "stdout"
      /\ s.type \in {"stdout", "file"}
  BY DEF Suits, Appenders, Kinds, AppenderDefines, Seen
<1>2. s = [type |-> s.type, path |-> s.path, level |-> s.level, formatter |-> s.formatter]
  BY DEF Seen
<1>3. w = [type |-> s.type, file |-> IF s.type = "file" THEN s.path ELSE NULL,
           level |-> IF s.level = UNKNOW THEN NULL ELSE ToLower(LevelToString(s.level)),
           formatter |-> s.formatter]
  BY DEF Written
<1> HIDE DEF s, w
<1>4. LevelIn(w) = s.level
  <2>1. CASE s.level = UNKNOW
    BY <1>3, <2>1 DEF LevelIn
  <2>2. CASE s.level # UNKNOW
    <3>1. w.level = ToLower(LevelToString(s.level)) /\ w.level # NULL
      BY <1>1, <1>3, <2>2, LevelRoundTrip
    <3> QED
      BY <1>1, <3>1, LevelRoundTrip DEF LevelIn
  <2> QED
    BY <2>1, <2>2
<1>5. w.type = s.type /\ w.formatter = s.formatter /\ (s.type = "file" => w.file = s.path)
  BY <1>3
<1>6. Read(w) = [type |-> w.type, path |-> IF w.type = "file" THEN w.file ELSE NULL,
                 level |-> LevelIn(w), formatter |-> w.formatter]
  BY DEF Read
<1>7. (IF w.type = "file" THEN w.file ELSE NULL) = s.path
  BY <1>1, <1>5
<1>8. Read(w) = s
  BY <1>2, <1>4, <1>5, <1>6, <1>7
<1>9. w.type # NULL
  <2>1. "stdout" # NULL /\ "file" # NULL
    BY LoggerAssumption DEF Texts
  <2> QED
    BY <1>1, <1>5, <2>1
<1>10. w.type = "file" => w.file # NULL
  <2>1. "file" # "stdout"
    OBVIOUS
  <2> QED
    BY <1>1, <1>5, <2>1
<1> QED
  BY <1>1, <1>8, <1>9, <1>10 DEF w, s

\* The node of a logger converts, to the definition it was written from.
LEMMA DefineRoundTrip ==
    ASSUME NEW l, Consistent(l), NEW n \in Names
    PROVE  /\ Complete(FromDefine(n, AsDefine(l)))
           /\ FromDefine(n, AsDefine(l)).name = n
           /\ ToDefine(FromDefine(n, AsDefine(l))) = AsDefine(l)
           /\ AsDefine(l) \in Defines
<1> DEFINE ld == AsDefine(l)
           node == FromDefine(n, ld)
           seen == [i \in DOMAIN l.appenders |-> Seen(l.appenders[i])]
           written == [i \in DOMAIN seen |-> Written(seen[i])]
           read == [i \in DOMAIN written |-> Read(written[i])]
<1>1. /\ l \in Loggers /\ l.appenders \in Seq(Appenders)
      /\ DOMAIN l.appenders = 1 .. Len(l.appenders) /\ Len(l.appenders) \in Nat
      /\ \A i \in DOMAIN l.appenders : Suits(l.appenders[i], l.formatter)
  BY DEF Consistent, Loggers
<1>2. ld = [level |-> l.level, formatter |-> l.formatter, appender |-> seen]
  BY DEF AsDefine, Seen
<1>3. /\ DOMAIN seen = DOMAIN l.appenders /\ DOMAIN written = DOMAIN seen /\ DOMAIN read = DOMAIN seen
      /\ \A i \in DOMAIN seen : /\ seen[i] = Seen(l.appenders[i])
                                /\ written[i] = Written(seen[i])
                                /\ read[i] = Read(written[i])
      /\ seen = [i \in DOMAIN seen |-> seen[i]] /\ read = [i \in DOMAIN read |-> read[i]]
  OBVIOUS
<1>4. ld.level = l.level /\ ld.formatter = l.formatter /\ ld.appender = seen
  <2> HIDE DEF seen
  <2> QED
    BY <1>2
<1> HIDE DEF ld
<1>5. node = [name |-> n, level |-> ToLower(LevelToString(l.level)), formatter |-> l.formatter,
              appender |-> written]
  BY <1>4 DEF FromDefine, Written
<1>6. node.name = n /\ node.level = ToLower(LevelToString(l.level)) /\ node.formatter = l.formatter
      /\ node.appender = written
  <2> HIDE DEF written
  <2> QED
    BY <1>5
<1> HIDE DEF node
<1>7. ToDefine(node) = [level |-> LevelIn(node), formatter |-> node.formatter, appender |-> read]
  BY <1>6 DEF ToDefine, Read
<1> HIDE DEF seen, written, read
<1>8. \A i \in DOMAIN seen : /\ read[i] = seen[i] /\ seen[i] \in AppenderDefines
                             /\ written[i].type # NULL
                             /\ written[i].type = "file" => written[i].file # NULL
  BY <1>1, <1>3, AppenderRoundTrip
<1>9. read = seen
  BY <1>3, <1>8
<1>10. l.level \in UNKNOW .. FATAL /\ l.formatter \in Patterns /\ l.formatter # NULL /\ n # NULL
  BY <1>1, LoggerAssumption DEF Loggers
<1>11. LevelIn(node) = l.level /\ node.level # NULL
  BY <1>6, <1>10, LevelRoundTrip DEF LevelIn
<1>12. Complete(node)
  <2>1. \A a \in Range(written) : a.type # NULL /\ (a.type = "file" => a.file # NULL)
    BY <1>3, <1>8 DEF Range
  <2> QED
    BY <1>6, <1>10, <1>11, <2>1 DEF Complete
<1>13. ToDefine(node) = ld
  BY <1>2, <1>6, <1>7, <1>9, <1>11
<1>14. seen \in Seq(AppenderDefines)
  BY <1>1, <1>3, <1>8, FunctionIsSeq
<1>15. ld \in Defines
  BY <1>2, <1>10, <1>14 DEF Defines
<1> QED
  BY <1>6, <1>12, <1>13, <1>15 DEF node, ld

\* An appender as it acts on the records of a logger of this level.
Acting(a, level) == [a EXCEPT !.open = NULL, !.level = Max({a.level, level})]

\* An appender without a level of its own acts at its logger's.
LEMMA LargerLevel ==
    ASSUME NEW x \in UNKNOW .. FATAL, NEW y \in UNKNOW .. FATAL
    PROVE  /\ Max({x, y}) \in UNKNOW .. FATAL
           /\ x = UNKNOW => Max({x, y}) = Max({y, y})
<1>1. /\ x \in Nat /\ y \in Nat /\ (x = UNKNOW => x <= y)
  BY DEF UNKNOW, FATAL
<1>2. IsFiniteSet({x, y}) /\ IsFiniteSet({y, y})
  BY FS_EmptySet, FS_AddElement, SMTT(30)
<1>3. Max({x, y}) \in {x, y} /\ \A z \in {x, y} : z <= Max({x, y})
  BY <1>1, <1>2, Largest
<1>4. Max({y, y}) \in {y, y}
  BY <1>1, <1>2, Largest
<1> QED
  BY <1>1, <1>3, <1>4

\* configureLogger makes of what was written of an appender one that acts alike.
LEMMA AppenderMadeAgain ==
    ASSUME NEW l \in Loggers, NEW a, Suits(a, l.formatter), NEW ld,
           ld.level = l.level, ld.formatter = l.formatter
    PROVE  \E x \in Appenders : Made(ld, Seen(a)) = <<x>> /\ Acting(x, l.level) = Acting(a, l.level)
<1> DEFINE s == Seen(a)
           x == [type |-> a.type, path |-> IF a.type = "file" THEN a.path ELSE NULL,
                 level |-> IF a.level # UNKNOW THEN a.level ELSE l.level,
                 formatter |-> IF s.formatter # NULL THEN s.formatter ELSE l.formatter,
                 custom |-> s.formatter # NULL, open |-> NULL]
<1>1. /\ a \in Appenders /\ a.level \in UNKNOW .. FATAL /\ l.level \in UNKNOW .. FATAL
      /\ a.formatter \in Patterns /\ l.formatter \in Patterns /\ a.type \in Kinds
      /\ a.custom \in BOOLEAN
  BY DEF Suits, Appenders, Loggers
<1>2. s.type = a.type /\ s.path = a.path /\ s.level = a.level
      /\ s.formatter = IF a.custom THEN a.formatter ELSE NULL
  BY DEF Seen
<1> HIDE DEF s
<1>3. Made(ld, s) = <<x>>
  BY <1>1, <1>2 DEF Made
<1>4. (s.formatter # NULL) = a.custom
  <2>1. a.formatter # NULL
    BY <1>1, LoggerAssumption
  <2> QED
    BY <1>1, <1>2, <2>1
<1>5. (IF s.formatter # NULL THEN s.formatter ELSE l.formatter) = a.formatter
  BY <1>1, <1>2, <1>4 DEF Suits
<1>6. (IF a.type = "file" THEN a.path ELSE NULL) = a.path
  BY <1>1 DEF Suits, Kinds
<1>7. PICK level \in UNKNOW .. FATAL : level = IF a.level # UNKNOW THEN a.level ELSE l.level
  BY <1>1
<1>8. x = [type |-> a.type, path |-> a.path, level |-> level, formatter |-> a.formatter,
           custom |-> a.custom, open |-> NULL]
  BY <1>4, <1>5, <1>6, <1>7
<1> HIDE DEF x
<1>9. /\ x \in Appenders
      /\ x.type = a.type /\ x.path = a.path /\ x.level = level /\ x.formatter = a.formatter
      /\ x.custom = a.custom
  <2>1. x \in Appenders
    BY <1>1, <1>8 DEF Appenders
  <2> QED
    BY <1>8, <2>1
<1>10. Max({level, l.level}) = Max({a.level, l.level})
  BY <1>1, <1>7, LargerLevel
<1>11. Acting(x, l.level) = Acting(a, l.level)
  <2> DEFINE m == Max({level, l.level})
  <2>1. Acting(x, l.level) = [x EXCEPT !.open = NULL, !.level = m]
    BY <1>9 DEF Acting
  <2>2. Acting(a, l.level) = [a EXCEPT !.open = NULL, !.level = m]
    BY <1>10 DEF Acting
  <2> HIDE DEF m
  <2>3. [x EXCEPT !.open = NULL, !.level = m] = [a EXCEPT !.open = NULL, !.level = m]
    BY <1>1, <1>9 DEF Appenders
  <2> QED
    BY <2>1, <2>2, <2>3
<1> QED
  BY <1>3, <1>9, <1>11 DEF s

\* configureLogger makes of what was written of a logger one that acts alike.
LEMMA LoggerMadeAgain ==
    ASSUME NEW l, Consistent(l), NEW n \in Names, l.name = n
    PROVE  Effective(Configured(n, AsDefine(l))) = Effective(l)
<1> DEFINE ld == AsDefine(l)
           s == l.appenders
           Good(x, i) == Made(ld, Seen(s[i])) = <<x>> /\ Acting(x, l.level) = Acting(s[i], l.level)
           t == [i \in DOMAIN s |-> CHOOSE x \in Appenders : Good(x, i)]
           k == Configured(n, ld)
<1>1. /\ l \in Loggers /\ s \in Seq(Appenders) /\ \A i \in DOMAIN s : Suits(s[i], l.formatter)
      /\ DOMAIN s = 1 .. Len(s) /\ Len(s) \in Nat
  BY DEF Consistent, Loggers
<1>2. ld.level = l.level /\ ld.formatter = l.formatter /\ DOMAIN ld.appender = DOMAIN s
      /\ \A i \in DOMAIN s : ld.appender[i] = Seen(s[i])
  BY DEF AsDefine, Seen
<1> HIDE DEF ld
<1>3. \A i \in DOMAIN s : t[i] \in Appenders /\ Good(t[i], i)
  <2> SUFFICES ASSUME NEW i \in DOMAIN s PROVE t[i] \in Appenders /\ Good(t[i], i)
    OBVIOUS
  <2>1. \E x \in Appenders : Good(x, i)
    <3> HIDE DEF s
    <3> QED
      BY <1>1, <1>2, AppenderMadeAgain
  <2> HIDE DEF Good, s
  <2> QED
    BY <2>1
<1>4. DOMAIN t = DOMAIN s /\ t = [i \in DOMAIN s |-> t[i]]
  OBVIOUS
<1> HIDE DEF t, s
<1>5. t \in Seq(Appenders)
  BY <1>1, <1>3, <1>4, FunctionIsSeq
<1>6. [i \in DOMAIN ld.appender |-> Made(ld, ld.appender[i])] = [i \in DOMAIN t |-> <<t[i]>>]
  BY <1>2, <1>3, <1>4
<1>7. Inherit(ld) = t
  BY <1>5, <1>6, FlattenOnes DEF Inherit
<1>8. k = [name |-> n, level |-> l.level, formatter |-> l.formatter, appenders |-> t]
  BY <1>2, <1>7 DEF Configured
<1> DEFINE ea == [i \in DOMAIN s |-> Acting(s[i], l.level)]
           et == [i \in DOMAIN t |-> Acting(t[i], l.level)]
<1>9. et = ea
  BY <1>3, <1>4
<1>10. Effective(l) = [l EXCEPT !.appenders = ea]
  BY DEF Effective, Acting, s
<1>11. Effective(k) = [k EXCEPT !.appenders = et]
  <2>1. k.appenders = t /\ k.level = l.level
    BY <1>8
  <2> HIDE DEF k
  <2>2. Effective(k) = [k EXCEPT !.appenders = [i \in DOMAIN k.appenders |-> Acting(k.appenders[i], k.level)]]
    BY DEF Effective, Acting
  <2>3. [i \in DOMAIN k.appenders |-> Acting(k.appenders[i], k.level)] = et
    BY <2>1
  <2> QED
    BY <2>2, <2>3
<1> HIDE DEF ea, et
<1>12. [k EXCEPT !.appenders = et] = [l EXCEPT !.appenders = ea]
  BY <1>1, <1>8, <1>9 DEF Loggers
<1> QED
  BY <1>10, <1>11, <1>12 DEF k, ld

\* The node toYamlString writes for the logger of a name.
NodeOf(n) == FromDefine(n, AsDefine(logger[m_loggers[n]]))
Mapped == {n \in Names : m_loggers[n] # NULL}

\* A name has a logger of its own, so there are as many as there are objects
\* at most.
LEMMA FinitelyMapped == ASSUME Wiring PROVE IsFiniteSet(Mapped)
<1> DEFINE f == [n \in Mapped |-> m_loggers[n]]
<1>1. f \in [Mapped -> Ids]
  BY DEF Wiring, Wired, Mapped
<1>2. \A n, o \in Mapped : f[n] = f[o] => n = o
  BY OneName DEF Wiring, Mapped
<1> HIDE DEF f
<1>3. f \in Injection(Mapped, Ids)
  BY <1>1, <1>2 DEF Injection, IsInjective
<1> QED
  BY <1>3, FS_Injection, LoggerAssumption

\* What is written has a node for each logger of the map, and converts to the
\* definitions it was written from.
LEMMA ExportDefines ==
    ASSUME Wiring
    PROVE  /\ ToDefines(Export) # THROWS
           /\ \A n \in Names : ToDefines(Export)[n] = IF m_loggers[n] = NULL THEN NULL
                                                      ELSE AsDefine(logger[m_loggers[n]])
<1> DEFINE names == SetToSeq(Mapped)
           doc == Export
           named(n) == {i \in DOMAIN doc : doc[i].name = n}
           v == ToDefines(doc)
<1>1. /\ DOMAIN names = 1 .. Len(names) /\ Len(names) \in Nat
      /\ Range(names) = Mapped
  <2>1. names \in Seq(Mapped)
    BY FinitelyMapped, SetListed
  <2> HIDE DEF names
  <2>2. DOMAIN names = 1 .. Len(names) /\ Len(names) \in Nat
    BY <2>1
  <2> QED
    BY <2>2, FinitelyMapped, SetListed DEF names
<1>2. doc = [i \in DOMAIN names |-> NodeOf(names[i])]
  BY DEF Export, NodeOf, AsDefine, Mapped
<1> HIDE DEF names, doc
<1>3. DOMAIN doc = DOMAIN names /\ \A i \in DOMAIN doc : doc[i] = NodeOf(names[i]) /\ names[i] \in Mapped
  BY <1>1, <1>2 DEF Range
<1>4. ASSUME NEW n \in Mapped
      PROVE  /\ Complete(NodeOf(n)) /\ NodeOf(n).name = n
             /\ ToDefine(NodeOf(n)) = AsDefine(logger[m_loggers[n]])
             /\ AsDefine(logger[m_loggers[n]]) \in Defines
  <2>1. n \in Names /\ Consistent(logger[m_loggers[n]])
    BY DEF Wiring, Wired, HeapOK, Mapped
  <2> QED
    BY <2>1, DefineRoundTrip DEF NodeOf
<1>5. ~ \E i \in DOMAIN doc : ~Complete(doc[i])
  BY <1>3, <1>4
<1>6. v = [n \in Names |-> IF named(n) = {} THEN NULL ELSE ToDefine(doc[Min(named(n))])]
  BY <1>5 DEF ToDefines
<1> HIDE DEF v
<1>7. ASSUME NEW n \in Names
      PROVE  /\ v[n] = IF m_loggers[n] = NULL THEN NULL ELSE AsDefine(logger[m_loggers[n]])
             /\ v[n] \in Defines \cup {NULL}
  <2>1. v[n] = IF named(n) = {} THEN NULL ELSE ToDefine(doc[Min(named(n))])
    BY <1>6
  <2>2. CASE m_loggers[n] = NULL
    <3>1. n \notin Mapped
      BY <2>2 DEF Mapped
    <3>2. named(n) = {}
      BY <1>3, <1>4, <3>1
    <3> QED
      BY <2>1, <2>2, <3>2
  <2>3. CASE m_loggers[n] # NULL
    <3>1. n \in Mapped
      BY <2>3 DEF Mapped
    <3>2. named(n) # {}
      <4>1. PICK i \in DOMAIN names : names[i] = n
        BY <1>1, <3>1 DEF Range
      <4>2. i \in DOMAIN doc /\ doc[i].name = n
        BY <1>3, <1>4, <3>1, <4>1
      <4> QED
        BY <4>2
    <3>3. named(n) \subseteq Nat
      BY <1>1, <1>3
    <3>4. Min(named(n)) \in named(n)
      <4> HIDE DEF named
      <4> QED
        BY <3>2, <3>3, Smallest
    <3>5. PICK i \in DOMAIN doc : i = Min(named(n)) /\ doc[i].name = n
      BY <3>4
    <3>6. doc[i] = NodeOf(n)
      BY <1>3, <1>4, <3>5
    <3> HIDE DEF named
    <3>7. v[n] = AsDefine(logger[m_loggers[n]])
      BY <1>4, <2>1, <3>1, <3>2, <3>5, <3>6
    <3> QED
      BY <1>4, <2>3, <3>1, <3>7
  <2> HIDE DEF named
  <2> QED
    BY <2>2, <2>3
<1>8. v # THROWS
  <2>1. v = [n \in Names |-> v[n]]
    BY <1>6
  <2>2. v \in [Names -> Defines \cup {NULL}]
    BY <1>7, <2>1
  <2> QED
    BY <2>2, LoggerAssumption
<1> QED
  BY <1>7, <1>8 DEF v, doc

\* Loading what toYamlString wrote would make loggers that act as those there
\* are, after any creations, updates, reloads and changes of appenders: an
\* appender whose formatter is left out uses its logger's.
THEOREM LoggerExportFaithful == Spec => []ExportFaithful
<1>1. ASSUME LoggerInv PROVE ExportFaithful
  <2> DEFINE v == ToDefines(Export)
  <2>1. Wiring
    BY <1>1 DEF LoggerInv
  <2>2. /\ v # THROWS
        /\ \A n \in Names : v[n] = IF m_loggers[n] = NULL THEN NULL ELSE AsDefine(logger[m_loggers[n]])
    BY <2>1, ExportDefines
  <2>3. ASSUME NEW n \in Names, m_loggers[n] # NULL
        PROVE  Effective(Configured(n, v[n])) = Effective(logger[m_loggers[n]])
    <3>1. Consistent(logger[m_loggers[n]]) /\ logger[m_loggers[n]].name = n
      BY <2>1, <2>3 DEF Wiring, Wired, HeapOK
    <3>2. v[n] = AsDefine(logger[m_loggers[n]])
      BY <2>2, <2>3
    <3> HIDE DEF v
    <3> QED
      BY <3>1, <3>2, LoggerMadeAgain
  <2> HIDE DEF v
  <2>4. \A n \in Names : IF m_loggers[n] = NULL THEN v[n] = NULL
                         ELSE Effective(Configured(n, v[n])) = Effective(logger[m_loggers[n]])
    BY <2>2, <2>3
  <2> QED
    BY <2>2, <2>4 DEF ExportFaithful, v
<1> QED
  BY <1>1, LoggerInvAlways, PTL

----------------------------------------------------------------------------
(* The loaded configuration.                                               *)

\* A logger is as it was configured, but for files that have been opened.
AsConfigured(l, n, ld) ==
    /\ [l EXCEPT !.appenders = Closed(@)] = Configured(n, ld)
    /\ \A a \in ToSet(l.appenders) : a.open \in {NULL, a.path}

InForce(loggers, h, v) ==
    \A n \in Names : v[n] # NULL => loggers[n] # NULL /\ AsConfigured(h[loggers[n]], n, v[n])

\* Until something else reconfigures a logger, the loggers are as the value the
\* listener ran for defines them, and operator== takes the last loaded value
\* for that one.
InForceInv ==
    loaded # NULL => /\ m_value \in Values
                     /\ loaded = m_value \/ SameValue(m_value, loaded)
                     /\ InForce(m_loggers, logger, m_value)

\* configureLogger leaves a logger as configured.
LEMMA ConfiguredInForce ==
    ASSUME NEW n \in Names, NEW ld, IsDefine(ld)
    PROVE  AsConfigured(Configured(n, ld), n, ld)
<1> DEFINE k == Configured(n, ld)
           aps == k.appenders
<1>1. /\ k \in Loggers /\ aps \in Seq(Appenders)
      /\ \A i \in DOMAIN aps : aps[i].open = NULL
  BY ConfiguredConsistent DEF Consistent, Loggers
<1> HIDE DEF k
<1>2. DOMAIN aps = 1 .. Len(aps) /\ \A i \in DOMAIN aps : aps[i] \in Appenders
      /\ aps = [j \in DOMAIN aps |-> aps[j]]
  BY <1>1
<1>3. \A i \in DOMAIN aps : [aps[i] EXCEPT !.open = NULL] = aps[i]
  BY <1>1, <1>2 DEF Appenders
<1>4. Closed(aps) = aps
  <2> HIDE DEF aps
  <2>1. Closed(aps) = [i \in DOMAIN aps |-> aps[i]]
    BY <1>3 DEF Closed
  <2>2. aps = [i \in DOMAIN aps |-> aps[i]]
    BY <1>1 DEF aps
  <2> QED
    BY <2>1, <2>2
<1>5. [k EXCEPT !.appenders = Closed(@)] = k
  <2>1. [k EXCEPT !.appenders = aps] = k
    BY <1>1 DEF Loggers
  <2> QED
    BY <1>4, <2>1
<1>6. \A a \in ToSet(aps) : a.open = NULL
  BY <1>1 DEF ToSet
<1> QED
  BY <1>5, <1>6 DEF AsConfigured, k

\* Opening files leaves it as configured.
LEMMA AlikeInForce ==
    ASSUME NEW l \in Loggers, NEW k \in Loggers, Alike(l, k), NEW n, NEW ld, AsConfigured(l, n, ld)
    PROVE  AsConfigured(k, n, ld)
<1>1. [k EXCEPT !.appenders = Closed(@)] = Configured(n, ld)
  BY DEF Alike, AsConfigured
<1>2. \A i \in DOMAIN k.appenders : k.appenders[i].open \in {NULL, k.appenders[i].path}
  <2> SUFFICES ASSUME NEW i \in DOMAIN k.appenders
               PROVE  k.appenders[i].open \in {NULL, k.appenders[i].path}
    OBVIOUS
  <2>1. i \in DOMAIN l.appenders /\ k.appenders[i].path = l.appenders[i].path
    BY AlikeParts
  <2>2. l.appenders[i].open \in {NULL, l.appenders[i].path}
    BY <2>1 DEF AsConfigured, ToSet
  <2>3. k.appenders[i].open \in {l.appenders[i].open, l.appenders[i].path}
    BY <2>1 DEF Alike
  <2> QED
    BY <2>1, <2>2, <2>3
<1>3. \A a \in ToSet(k.appenders) : a.open \in {NULL, a.path}
  BY <1>2 DEF ToSet
<1> QED
  BY <1>1, <1>3 DEF AsConfigured

\* Records leave all loggers as configured, and so does freeing others.
LEMMA GrownInForce ==
    ASSUME NEW loggers, NEW ptrs, NEW h, Wired(loggers, ptrs, h), NEW g, Grown(h, g),
           NEW v, InForce(loggers, h, v)
    PROVE  InForce(loggers, g, v)
<1> SUFFICES ASSUME NEW n \in Names, v[n] # NULL
             PROVE  loggers[n] # NULL /\ AsConfigured(g[loggers[n]], n, v[n])
  BY DEF InForce
<1>1. loggers[n] # NULL /\ AsConfigured(h[loggers[n]], n, v[n])
  BY DEF InForce
<1>2. loggers[n] \in Ids /\ h[loggers[n]] # NULL
  BY <1>1 DEF Wired
<1>3. PICK id \in Ids : id = loggers[n]
  BY <1>2
<1>4. h[id] \in Loggers /\ g[id] \in Loggers /\ Alike(h[id], g[id])
  BY <1>2, <1>3 DEF Grown, Wired, HeapOK, Consistent
<1> QED
  BY <1>1, <1>3, <1>4, AlikeInForce

\* Freeing what nobody points to leaves the map's loggers as configured.
LEMMA CollectInForce ==
    ASSUME NEW loggers, NEW ptrs, NEW h, Wired(loggers, ptrs, h), NEW v, InForce(loggers, h, v)
    PROVE  InForce(loggers, Collect(h, loggers, ptrs), v)
BY CollectWired DEF InForce

\* A record on a logger there is leaves them wired and as configured.
LEMMA LogInForce ==
    ASSUME Wiring, NEW v, InForce(m_loggers, logger, v),
           NEW id \in Ids, logger[id] # NULL, NEW level
    PROVE  /\ Wired(m_loggers, held, LogOn(logger, id, level))
           /\ InForce(m_loggers, LogOn(logger, id, level), v)
<1>1. Grown(logger, LogOn(logger, id, level))
  BY LogGrows DEF Wiring, Wired
<1> QED
  BY <1>1, LogWired, GrownInForce DEF Wiring

\* getLogger makes a logger only for a name the configuration does not have.
LEMMA GetLoggerInForce ==
    ASSUME Wiring, NEW v, InForce(m_loggers, logger, v),
           NEW c \in Callers, NEW n \in Names, GetLogger(c, n)
    PROVE  InForce(m_loggers', logger', v)
<1> DEFINE k == [name |-> n, level |-> DEBUG, formatter |-> DefaultPattern, appenders |-> <<>>]
<1>1. PICK id \in Ids :
         /\ IF m_loggers[n] # NULL
            THEN id = m_loggers[n] /\ UNCHANGED m_loggers
            ELSE logger[id] = NULL /\ m_loggers' = [m_loggers EXCEPT ![n] = id]
         /\ logger' = Collect(IF m_loggers[n] # NULL THEN logger ELSE [logger EXCEPT ![id] = k],
                              m_loggers', held')
  BY DEF GetLogger
<1>2. PICK g : g = IF m_loggers[n] # NULL THEN logger ELSE [logger EXCEPT ![id] = k]
  OBVIOUS
<1> HIDE DEF k
<1>3. \A o \in Names : v[o] # NULL => /\ m_loggers'[o] = m_loggers[o] /\ m_loggers[o] # NULL
                                      /\ g[m_loggers[o]] = logger[m_loggers[o]]
                                      /\ m_loggers[o] \in Ids
  <2> SUFFICES ASSUME NEW o \in Names, v[o] # NULL
               PROVE  /\ m_loggers'[o] = m_loggers[o] /\ m_loggers[o] # NULL
                      /\ g[m_loggers[o]] = logger[m_loggers[o]]
                      /\ m_loggers[o] \in Ids
    OBVIOUS
  <2>1. m_loggers[o] # NULL /\ m_loggers[o] \in Ids /\ logger[m_loggers[o]] # NULL
    BY DEF InForce, Wiring, Wired
  <2>2. CASE m_loggers[n] # NULL
    BY <1>1, <1>2, <2>1, <2>2
  <2>3. CASE m_loggers[n] = NULL
    <3>1. /\ m_loggers' = [m_loggers EXCEPT ![n] = id] /\ logger[id] = NULL
          /\ g = [logger EXCEPT ![id] = k]
      BY <1>1, <1>2, <2>3
    <3>2. /\ m_loggers \in [Names -> Ids \cup {NULL}] /\ logger = [i \in Ids |-> logger[i]]
      BY DEF Wiring, Wired, HeapOK
    <3>3. o # n /\ m_loggers[o] # id
      BY <2>1, <2>3, <3>1
    <3> QED
      BY <2>1, <3>1, <3>2, <3>3
  <2> QED
    BY <2>2, <2>3
<1>4. InForce(m_loggers', g, v)
  BY <1>3 DEF InForce
<1>5. logger' = Collect(g, m_loggers', held')
  BY <1>1, <1>2
<1>6. \A i \in Live(m_loggers', held') \cap Ids : logger'[i] = g[i]
  BY <1>5 DEF Collect
<1>7. \A o \in Names : v[o] # NULL => m_loggers'[o] \in Live(m_loggers', held') \cap Ids
  <2>1. DOMAIN m_loggers' = Names
    BY <1>1 DEF Wiring, Wired
  <2> QED
    BY <1>3, <2>1 DEF Live, Range
<1> QED
  BY <1>4, <1>6, <1>7 DEF InForce

\* What the steps owe the configuration.
InForceNext ==
    loaded' # NULL => /\ m_value' \in Values
                      /\ loaded' = m_value' \/ SameValue(m_value', loaded')
                      /\ InForce(m_loggers', logger', m_value')

\* A reload either reports a document that does not convert, or finds the value
\* to be the one in force, or puts it in force.
LEMMA ReloadInForce ==
    ASSUME Wiring, InForceInv, NEW doc \in Documents, Reload(doc)
    PROVE  InForceNext
<1> SUFFICES ASSUME loaded' # NULL PROVE InForceNext
  BY DEF InForceNext
<1> DEFINE v == ToDefines(doc)
<1>1. v # THROWS => v \in Values
  BY DEF Values
<1>2. CASE v = THROWS
  <2>1. /\ logger' = LogOn(logger, m_root, ERROR) /\ m_loggers' = m_loggers
        /\ m_value' = m_value /\ loaded' = loaded
    BY <1>2 DEF Reload
  <2>2. m_value \in Values /\ InForce(m_loggers, logger, m_value)
        /\ (loaded = m_value \/ SameValue(m_value, loaded))
    BY <2>1 DEF InForceInv
  <2>3. InForce(m_loggers, LogOn(logger, m_root, ERROR), m_value)
    BY <2>2, LogInForce DEF Wiring, Wired
  <2> QED
    BY <2>1, <2>2, <2>3 DEF InForceNext
<1>3. CASE v # THROWS /\ SameValue(m_value, v)
  <2>1. /\ logger' = logger /\ m_loggers' = m_loggers /\ m_value' = m_value
        /\ loaded # NULL /\ loaded' = v
    BY <1>3 DEF Reload
  <2>2. m_value \in Values /\ InForce(m_loggers, logger, m_value)
    BY <2>1 DEF InForceInv
  <2> QED
    BY <1>3, <2>1, <2>2 DEF InForceNext
<1>4. CASE v # THROWS /\ ~SameValue(m_value, v)
  <2>1. /\ Listener(v) /\ m_value' = v /\ loaded' = v /\ held' = held
    BY <1>4 DEF Reload
  <2>2. \A n \in Names : v[n] # NULL => IsDefine(v[n])
    BY <1>4, DocumentDefines
  <2> HIDE DEF v
  <2>3. \A n \in Names : v[n] # NULL => /\ m_loggers'[n] # NULL
                                        /\ logger'[m_loggers'[n]] = Configured(n, v[n])
    BY <2>1, <2>2, ListenerWired
  <2>4. \A n \in Names : v[n] # NULL => /\ m_loggers'[n] # NULL
                                        /\ AsConfigured(logger'[m_loggers'[n]], n, v[n])
    BY <2>2, <2>3, ConfiguredInForce
  <2>5. InForce(m_loggers', logger', v)
    BY <2>4 DEF InForce
  <2> QED
    BY <1>1, <1>4, <2>1, <2>5 DEF InForceNext
<1> QED
  BY <1>2, <1>3, <1>4

\* What leaves the loaded value alone leaves the loggers as it defines them.
LEMMA NextInForce ==
    ASSUME Wiring, InForceInv, Next
    PROVE  InForceNext
<1> SUFFICES ASSUME loaded' # NULL PROVE InForceNext
  BY DEF InForceNext
<1>1. ASSUME NEW c \in Callers, NEW n \in Asked, GetLogger(c, n) PROVE InForceNext
  <2>1. m_value' = m_value /\ loaded' = loaded /\ n \in Names
    BY <1>1, LoggerAssumption DEF GetLogger
  <2> QED
    BY <1>1, <2>1, GetLoggerInForce DEF InForceInv, InForceNext
<1>2. ASSUME NEW n, NEW level, NEW pattern, NEW types, NEW path,
             CreateLogger(n, level, pattern, types, path) \/ UpdateLogger(n, level, pattern, types, path)
      PROVE  InForceNext
  BY <1>2 DEF CreateLogger, UpdateLogger
<1>3. ASSUME NEW n \in Names, RemoveLogger(n) PROVE InForceNext
  <2>1. m_loggers[n] = NULL /\ loaded' = loaded /\ m_value' = m_value /\ held' = held
    BY <1>3 DEF RemoveLogger
  <2>2. m_loggers' = m_loggers
    BY <1>3, <2>1 DEF RemoveLogger, Wiring, Wired
  <2>3. logger' = Collect(LogOn(logger, m_root, WARN), m_loggers, held)
    BY <1>3, <2>1, <2>2 DEF RemoveLogger
  <2>4. m_value \in Values /\ InForce(m_loggers, logger, m_value)
        /\ (loaded = m_value \/ SameValue(m_value, loaded))
    BY <2>1 DEF InForceInv
  <2>5. /\ Wired(m_loggers, held, LogOn(logger, m_root, WARN))
        /\ InForce(m_loggers, LogOn(logger, m_root, WARN), m_value)
    BY <2>4, LogInForce DEF Wiring, Wired
  <2>6. InForce(m_loggers, logger', m_value)
    BY <2>3, <2>5, CollectInForce
  <2> QED
    BY <2>1, <2>2, <2>4, <2>6 DEF InForceNext
<1>4. ASSUME NEW doc \in Documents, Reload(doc) PROVE InForceNext
  BY <1>4, ReloadInForce
<1>5. ASSUME NEW n, NEW ld, ConfigureLogger(n, ld) PROVE InForceNext
  BY <1>5 DEF ConfigureLogger
<1>6. ASSUME NEW c \in Callers, NEW level, Log(c, level) PROVE InForceNext
  <2>1. /\ loaded' = loaded /\ m_value' = m_value /\ m_loggers' = m_loggers /\ held[c] # NULL
        /\ logger' = LogOn(logger, held[c], level)
    BY <1>6 DEF Log
  <2>2. m_value \in Values /\ InForce(m_loggers, logger, m_value)
        /\ (loaded = m_value \/ SameValue(m_value, loaded))
    BY <2>1 DEF InForceInv
  <2>3. InForce(m_loggers, LogOn(logger, held[c], level), m_value)
    BY <2>1, <2>2, HeldConsistent, LogInForce
  <2> QED
    BY <2>1, <2>2, <2>3 DEF InForceNext
<1>7. ASSUME NEW c, NEW l, Changes(c, l) PROVE InForceNext
  BY <1>7 DEF Changes
<1>8. ASSUME NEW c \in Callers, Uses(c) PROVE InForceNext
  BY <1>6, <1>7, <1>8 DEF Uses, SetLevel, AddAppender, DelAppender, ClearAppenders
<1> QED
  BY <1>1, <1>2, <1>3, <1>4, <1>5, <1>8 DEF Next, Administration

\* The loggers are as the value the listener ran for defines them.
LEMMA InForceAlways == Spec => []InForceInv
<1>1. Init => InForceInv
  BY DEF Init, InForceInv
<1>2. LoggerInv /\ InForceInv /\ [Next]_vars => InForceInv'
  <2> SUFFICES ASSUME LoggerInv, InForceInv, [Next]_vars PROVE InForceInv'
    OBVIOUS
  <2>1. CASE Next
    <3>1. InForceNext
      BY <2>1, NextInForce DEF LoggerInv
    <3> QED
      BY <3>1 DEF InForceInv, InForceNext, InForce, AsConfigured, SameValue, SameDefine, Values
  <2>2. CASE UNCHANGED vars
    BY <2>2 DEF vars, InForceInv, InForce, AsConfigured, SameValue, SameDefine, Values
  <2> QED
    BY <2>1, <2>2
<1> QED
  BY <1>1, <1>2, LoggerInvAlways, PTL DEF Spec

\* The loggers are as the last loaded configuration defines them, until
\* something else reconfigures one, whatever is logged, asked for and reloaded
\* meanwhile. Documents whose definitions differ have to differ for operator==,
\* which does not look at an appender's level and formatter.
THEOREM LoggerConfigInForce ==
    ASSUME \A v, w \in Values : SameValue(v, w) => v = w
    PROVE  Spec => []ConfigInForce
<1>1. ASSUME LoggerInv, InForceInv PROVE ConfigInForce
  <2> SUFFICES ASSUME loaded # NULL, NEW n \in Names, loaded[n] # NULL
               PROVE  /\ m_loggers[n] # NULL
                      /\ LET l == logger[m_loggers[n]]
                         IN  /\ [l EXCEPT !.appenders = Closed(@)] = Configured(n, loaded[n])
                             /\ \A a \in ToSet(l.appenders) : a.open \in {NULL, a.path}
    BY DEF ConfigInForce
  <2>1. /\ m_value \in Values /\ loaded \in Values /\ InForce(m_loggers, logger, m_value)
        /\ loaded = m_value \/ SameValue(m_value, loaded)
    BY <1>1 DEF LoggerInv, InForceInv
  <2>2. loaded = m_value
    BY <2>1
  <2> QED
    BY <2>1, <2>2 DEF InForce, AsConfigured
<1> QED
  BY <1>1, LoggerInvAlways, InForceAlways, PTL

----------------------------------------------------------------------------
(* A reload keeps the loggers it does not remove.                          *)

\* A reload keeps the logger of every name the new value defines.
Kept == \A n \in Names : (m_value' # m_value /\ m_value'[n] # NULL /\ m_loggers[n] # NULL)
                            => m_loggers'[n] = m_loggers[n]

\* The listener makes loggers for the names that have none, and no others.
LEMMA ListenerKeeps ==
    ASSUME NEW v, Listener(v), NEW n \in Names, v[n] # NULL, m_loggers[n] # NULL
    PROVE  m_loggers'[n] = m_loggers[n]
BY DEF Listener

\* Only a document that converts to another value than there is changes
\* m_value, and that is when the listener runs.
LEMMA ReloadKeeps == ASSUME NEW doc, Reload(doc) PROVE Kept
<1> DEFINE v == ToDefines(doc)
<1>1. CASE v = THROWS
  BY <1>1 DEF Reload, Kept
<1>2. CASE v # THROWS /\ SameValue(m_value, v)
  BY <1>2 DEF Reload, Kept
<1>3. CASE v # THROWS /\ ~SameValue(m_value, v)
  <2>1. m_value' = v /\ Listener(v)
    BY <1>3 DEF Reload
  <2> QED
    BY <2>1, ListenerKeeps DEF Kept
<1> QED
  BY <1>1, <1>2, <1>3

\* Nothing but a reload changes m_value.
LEMMA NextKeeps == Next => Kept
<1>1. ASSUME NEW doc \in Documents, Reload(doc) PROVE Kept
  BY <1>1, ReloadKeeps
<1>2. ASSUME NEW c \in Callers, NEW n, GetLogger(c, n) PROVE UNCHANGED m_value
  BY <1>2 DEF GetLogger
<1>3. ASSUME NEW n, NEW level, NEW pattern, NEW types, NEW path,
             CreateLogger(n, level, pattern, types, path)
      PROVE  UNCHANGED m_value
  BY <1>3 DEF CreateLogger
<1>4. ASSUME NEW n, NEW level, NEW pattern, NEW types, NEW path,
             UpdateLogger(n, level, pattern, types, path)
      PROVE  UNCHANGED m_value
  BY <1>4 DEF UpdateLogger
<1>5. ASSUME NEW n, RemoveLogger(n) PROVE UNCHANGED m_value
  BY <1>5 DEF RemoveLogger
<1>6. ASSUME NEW n, NEW ld, ConfigureLogger(n, ld) PROVE UNCHANGED m_value
  BY <1>6 DEF ConfigureLogger
<1>7. ASSUME NEW c \in Callers, Uses(c) PROVE UNCHANGED m_value
  BY <1>7 DEF Uses, Log, SetLevel, AddAppender, DelAppender, ClearAppenders, Changes
<1>8. UNCHANGED m_value => Kept
  BY DEF Kept
<1> QED
  BY <1>1, <1>2, <1>3, <1>4, <1>5, <1>6, <1>7, <1>8 DEF Next, Administration

\* A Logger::ptr a caller took from the map stays the logger of its name through
\* every reload whose configuration names it: configureLogger changes the
\* object in place.
THEOREM ReloadInPlace == Spec => StableHandles
<1>1. [Next]_vars => [Kept]_vars
  BY NextKeeps
<1> QED
  BY <1>1, PTL DEF Spec, StableHandles, Kept
=============================================================================
