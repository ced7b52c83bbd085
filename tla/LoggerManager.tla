--------------------------- MODULE LoggerManager ---------------------------
(***************************************************************************)
(* The logging system of server/log.{h,cpp}: LoggerManager's map of        *)
(* loggers, the loggers and their appenders, and the configuration         *)
(* variable "loggers" whose listener (LogInit) reconfigures them.          *)
(*                                                                         *)
(* Loggers are shared objects: the map, m_root and the callers hold        *)
(* pointers to them, and an object nobody points to is freed. Nothing here *)
(* takes a lock, so every operation is one step of the one thread that     *)
(* administers logging. The operations themselves log to m_root, which     *)
(* may open its files: that is part of each of them.                       *)
(***************************************************************************)
EXTENDS LogDefine

CONSTANTS
    Ids,             \* the addresses a Logger can have
    Levels,          \* of LogLevel::Level, those of the records
    BadPaths,        \* the log files that cannot be opened
    Documents,       \* what the "loggers" variable is loaded with: nodes
    Definitions,     \* names and LogDefines configureLogger is called with
    Creations,       \* the arguments createLogger and updateLogger get
    Additions,       \* types and paths of the appenders clients add
    MaxAppenders,    \* bound on the appenders of a logger a client adds to
    Asked,           \* the names getLogger is called with
    Callers          \* variables of the program that hold a Logger::ptr

VARIABLES
    m_loggers,  \* the map: a Logger or NULL for each name
    m_root,
    logger,     \* the Logger objects
    m_value,    \* the variable "loggers": a LogDefine or NULL for each name
    held,       \* the Logger::ptr each caller keeps
    overflow,   \* has the logging recursed without end?
    loaded      \* history: the value last loaded, until something else
                \* reconfigures a logger and the listener has not run since

vars == <<m_loggers, m_root, logger, m_value, held, overflow, loaded>>

\* The types an appender can have, and the values of the Logger objects.
Kinds == {"stdout", "file"}
Appenders ==
    [type : Kinds, path : Paths \cup {NULL}, level : UNKNOW .. FATAL, formatter : Patterns,
     custom : BOOLEAN, open : Paths \cup {NULL}]
Loggers ==
    [name : Names, level : UNKNOW .. FATAL, formatter : Patterns, appenders : Seq(Appenders)]

ASSUME LoggerAssumption ==
    /\ RootName \in Names /\ Asked \subseteq Names
    /\ Levels \subseteq DEBUG .. FATAL
    /\ DefaultPattern \in Patterns
    /\ BadPaths \subseteq Paths
    /\ IsFiniteSet(Ids)
    /\ MaxAppenders \in Nat
    /\ NULL \notin Names \cup Ids \cup Patterns \cup Paths \cup Texts
    /\ NULL \notin Loggers /\ THROWS \notin [Names -> Defines \cup {NULL}]
    /\ \A a \in Creations : /\ a.name \in Names /\ a.level \in UNKNOW .. FATAL /\ a.pattern \in Patterns
                            /\ a.types \in Seq(Kinds) /\ a.path \in Paths
    /\ \A a \in Additions : a.type \in Kinds /\ (a.type = "file" => a.path \in Paths)
    /\ \A d \in Definitions : d.name \in Names /\ IsDefine(d.define)
    /\ \A doc \in Documents : doc \in Seq(Range(doc)) /\ \A node \in Range(doc) : IsNode(node)

----------------------------------------------------------------------------
(* Logger and appenders.                                                   *)

NewAppender(type, path, level, formatter) ==
    [type |-> type, path |-> IF type = "file" THEN path ELSE NULL, level |-> level,
     formatter |-> formatter, custom |-> FALSE, open |-> NULL]

\* The appenders of l that take a record of this level.
Taking(l, level) ==
    {i \in DOMAIN l.appenders : level >= l.level /\ level >= l.appenders[i].level}

\* Those that try to open a file for it and fail.
Failing(l, level) ==
    {i \in Taking(l, level) : /\ l.appenders[i].type = "file"
                              /\ l.appenders[i].open = NULL
                              /\ l.appenders[i].path \in BadPaths}

\* FileLogAppender::log: an unopened stream is opened on the current path.
Opened(l, level) ==
    [l EXCEPT !.appenders =
       [i \in DOMAIN l.appenders |->
          LET a == l.appenders[i]
          IN  IF i \in Taking(l, level) \ Failing(l, level) /\ a.type = "file" /\ a.open = NULL
              THEN [a EXCEPT !.open = a.path]
              ELSE a]]

\* Logger::log on the objects h; a file that cannot be opened is reported to
\* m_root as an error, with the same code.
LogOn(h, id, level) ==
    LET h1 == [h EXCEPT ![id] = Opened(@, level)]
    IN  IF Failing(h[id], level) = {} THEN h1
        ELSE [h1 EXCEPT ![m_root] = Opened(@, ERROR)]

\* The report itself fails to open a file of m_root, and is reported, ...
Recurses(h, id, level) == Failing(h[id], level) # {} /\ Failing(h[m_root], ERROR) # {}

\* A record the manager writes about what it does.
Note(h) == LogOn(h, m_root, INFO)
NoteRecurses(h) == Recurses(h, m_root, INFO)

----------------------------------------------------------------------------

Root0 == [name |-> RootName, level |-> DEBUG, formatter |-> DefaultPattern,
          appenders |-> <<NewAppender("stdout", NULL, DEBUG, DefaultPattern)>>]

Init ==
    /\ m_root \in Ids
    /\ m_loggers = [n \in Names |-> IF n = RootName THEN m_root ELSE NULL]
    /\ logger = [i \in Ids |-> IF i = m_root THEN Root0 ELSE NULL]
    /\ m_value = [n \in Names |-> NULL]
    /\ held = [c \in Callers |-> NULL]
    /\ overflow = FALSE
    /\ loaded = NULL

\* Mutant: only what the map holds is kept alive.
Live_MapOnly(loggers, ptrs) == {m_root} \cup Range(loggers)

\* Objects without an owner are freed.
Live(loggers, ptrs) == {m_root} \cup Range(loggers) \cup Range(ptrs)
Collect(h, loggers, ptrs) == [i \in Ids |-> IF i \in Live(loggers, ptrs) THEN h[i] ELSE NULL]

\* Mutant: a logger is found whatever its name.
GetLogger_AnyName(c, n) ==
    /\ \E k \in Names :
         /\ m_loggers[k] # NULL
         /\ m_loggers' = [m_loggers EXCEPT ![n] = m_loggers[k]]
         /\ held' = [held EXCEPT ![c] = m_loggers[k]]
    /\ logger' = Collect(logger, m_loggers', held')
    /\ UNCHANGED <<m_root, m_value, overflow, loaded>>

\* getLogger(name), kept by caller c.
GetLogger(c, n) ==
    /\ \E id \in Ids :
         /\ IF m_loggers[n] # NULL
            THEN id = m_loggers[n] /\ UNCHANGED m_loggers
            ELSE logger[id] = NULL /\ m_loggers' = [m_loggers EXCEPT ![n] = id]
         /\ held' = [held EXCEPT ![c] = id]
         /\ logger' = Collect(IF m_loggers[n] # NULL THEN logger
                              ELSE [logger EXCEPT ![id] =
                                      [name |-> n, level |-> DEBUG, formatter |-> DefaultPattern,
                                       appenders |-> <<>>]],
                              m_loggers', held')
    /\ UNCHANGED <<m_root, m_value, overflow, loaded>>

\* One round of updateLogger's loop over the appender types.
WithType(path, formatter, aps, type) ==
    IF \A i \in DOMAIN aps : aps[i].type # type
    THEN Append(aps, NewAppender(type, path, DEBUG, formatter))
    ELSE [i \in DOMAIN aps |->
            IF aps[i].type = type /\ type = "file" THEN [aps[i] EXCEPT !.path = path] ELSE aps[i]]

\* All its rounds.
WithTypes(path, formatter, aps, types) ==
    LET after[k \in 0 .. Len(types)] ==
          IF k = 0 THEN aps ELSE WithType(path, formatter, after[k - 1], types[k])
    IN  after[Len(types)]

\* Mutant: an appender of its own formatter keeps it, and the flag is lost.
Updated_KeepsFormatter(l, level, pattern, types, path) ==
    LET aps == [i \in DOMAIN l.appenders |-> [l.appenders[i] EXCEPT !.custom = FALSE]]
    IN  [l EXCEPT !.level = level, !.formatter = pattern,
                  !.appenders = WithTypes(path, pattern, aps, types)]

\* updateLogger on an existing logger.
Updated(l, level, pattern, types, path) ==
    LET aps == IF pattern = l.formatter THEN l.appenders
               ELSE [i \in DOMAIN l.appenders |->
                       [l.appenders[i] EXCEPT !.custom = FALSE, !.formatter = pattern]]
    IN  [l EXCEPT !.level = level, !.formatter = pattern,
                  !.appenders = WithTypes(path, pattern, aps, types)]

\* createLogger(name, ...): a new logger whose appenders inherit its level and
\* formatter, or updateLogger on the existing one, with records about it.
CreateLogger(n, level, pattern, types, path) ==
    /\ IF m_loggers[n] = NULL
       THEN /\ \E id \in Ids :
                 /\ logger[id] = NULL
                 /\ m_loggers' = [m_loggers EXCEPT ![n] = id]
                 /\ logger' = [logger EXCEPT ![id] =
                      [name |-> n, level |-> level, formatter |-> pattern,
                       appenders |-> [i \in DOMAIN types |->
                                        NewAppender(types[i], path, level, pattern)]]]
            /\ UNCHANGED overflow
       ELSE LET h1 == Note(logger)
                h2 == [h1 EXCEPT ![m_loggers[n]] = Updated(@, level, pattern, types, path)]
            IN  /\ logger' = IF h1 = h2 THEN h2 ELSE Note(h2)
                /\ overflow' = (NoteRecurses(logger) \/ (h1 # h2 /\ NoteRecurses(h2)))
                /\ UNCHANGED m_loggers
    /\ loaded' = NULL
    /\ UNCHANGED <<m_root, m_value, held>>

\* updateLogger(name, ...) by the program itself.
UpdateLogger(n, level, pattern, types, path) ==
    /\ m_loggers[n] # NULL
    /\ logger' = [logger EXCEPT ![m_loggers[n]] = Updated(@, level, pattern, types, path)]
    /\ loaded' = NULL
    /\ UNCHANGED <<m_loggers, m_root, m_value, held, overflow>>

\* removeLogger(name): records about it, or a warning that there is none.
RemoveLogger(n) ==
    /\ m_loggers' = [m_loggers EXCEPT ![n] = NULL]
    /\ LET level == IF m_loggers[n] # NULL THEN INFO ELSE WARN
       IN  /\ logger' = Collect(LogOn(logger, m_root, level), m_loggers', held)
           /\ overflow' = Recurses(logger, m_root, level)
    /\ loaded' = IF m_loggers[n] # NULL THEN NULL ELSE loaded
    /\ UNCHANGED <<m_root, m_value, held>>

----------------------------------------------------------------------------
(* Reloading the configuration.                                            *)

\* updateAppender: what each definition's own level and formatter, or the
\* logger's, make of it. A type it does not know makes no appender.
Made(ld, a) ==
    IF a.type \notin Kinds THEN <<>>
    ELSE <<[type |-> a.type, path |-> IF a.type = "file" THEN a.path ELSE NULL,
            level |-> IF a.level # UNKNOW THEN a.level ELSE ld.level,
            formatter |-> IF a.formatter # NULL THEN a.formatter ELSE ld.formatter,
            custom |-> a.formatter # NULL, open |-> NULL]>>

Inherit(ld) == FlattenSeq([i \in DOMAIN ld.appender |-> Made(ld, ld.appender[i])])

\* configureLogger: an existing logger is changed in place.
Configured(n, ld) ==
    [name |-> n, level |-> ld.level, formatter |-> ld.formatter, appenders |-> Inherit(ld)]

\* Mutant: the listener replaces the loggers it should reconfigure.
Listener_Replaces(v) ==
    \E fresh \in Injection({n \in Names : v[n] # NULL}, {i \in Ids : logger[i] = NULL}) :
      /\ m_loggers' = [n \in Names |-> IF v[n] = NULL THEN NULL ELSE fresh[n]]
      /\ logger' = Collect([i \in Ids |->
                              IF i \in Range(fresh)
                              THEN LET n == CHOOSE n \in DOMAIN fresh : fresh[n] = i
                                   IN  Configured(n, v[n])
                              ELSE logger[i]],
                           m_loggers', held)
      /\ UNCHANGED overflow

\* The listener: loggers that are not in the new value are removed, with
\* records about it; the others are configured.
Listener(v) ==
    LET removed == {n \in Names : m_loggers[n] # NULL /\ v[n] = NULL}
        added == {n \in Names : m_loggers[n] = NULL /\ v[n] # NULL}
        h == IF removed = {} THEN logger ELSE Note(logger)
    IN  \E fresh \in Injection(added, {i \in Ids : logger[i] = NULL}) :
          /\ m_loggers' = [n \in Names |-> IF v[n] = NULL THEN NULL
                                           ELSE IF n \in added THEN fresh[n] ELSE m_loggers[n]]
          /\ logger' = Collect([i \in Ids |->
                                  IF \E n \in Names : m_loggers'[n] = i
                                  THEN LET n == CHOOSE n \in Names : m_loggers'[n] = i
                                       IN  Configured(n, v[n])
                                  ELSE h[i]],
                               m_loggers', held)
          /\ overflow' = (removed # {} /\ NoteRecurses(logger))

\* fromString(doc) from LoadFromYaml: a document that does not convert is
\* reported to m_root; otherwise setValue.
Reload(doc) ==
    /\ LET v == ToDefines(doc)
       IN  \/ /\ v = THROWS
              /\ logger' = LogOn(logger, m_root, ERROR)
              /\ overflow' = Recurses(logger, m_root, ERROR)
              /\ UNCHANGED <<m_loggers, m_value, loaded>>
           \/ /\ v # THROWS /\ SameValue(m_value, v)
              /\ loaded' = IF loaded = NULL THEN NULL ELSE v
              /\ UNCHANGED <<m_loggers, logger, m_value, overflow>>
           \/ /\ v # THROWS /\ ~SameValue(m_value, v)
              /\ m_value' = v
              /\ Listener(v)
              /\ loaded' = v
    /\ UNCHANGED <<m_root, held>>

\* configureLogger(ld) by the program itself.
ConfigureLogger(n, ld) ==
    /\ \E id \in Ids :
         /\ IF m_loggers[n] # NULL THEN id = m_loggers[n] ELSE logger[id] = NULL
         /\ m_loggers' = [m_loggers EXCEPT ![n] = id]
         /\ logger' = [logger EXCEPT ![id] = Configured(n, ld)]
    /\ loaded' = NULL
    /\ UNCHANGED <<m_root, m_value, held, overflow>>

----------------------------------------------------------------------------
(* What a caller does with the logger it holds.                            *)

Changes(c, l) ==
    /\ logger' = [logger EXCEPT ![held[c]] = l]
    /\ loaded' = NULL
    /\ UNCHANGED <<m_loggers, m_root, m_value, held, overflow>>

SetLevel(c, level) ==
    /\ held[c] # NULL
    /\ Changes(c, [logger[held[c]] EXCEPT !.level = level])

\* addAppender of a new appender, which has no formatter and gets the logger's.
AddAppender(c, type, path) ==
    /\ held[c] # NULL
    /\ LET l == logger[held[c]]
       IN  /\ Len(l.appenders) < MaxAppenders
           /\ Changes(c, [l EXCEPT !.appenders = Append(@, NewAppender(type, path, DEBUG, l.formatter))])

\* delAppender of one of getAppenders().
DelAppender(c, i) ==
    /\ held[c] # NULL
    /\ i \in DOMAIN logger[held[c]].appenders
    /\ Changes(c, [logger[held[c]] EXCEPT !.appenders = RemoveAt(@, i)])

ClearAppenders(c) ==
    /\ held[c] # NULL
    /\ Changes(c, [logger[held[c]] EXCEPT !.appenders = <<>>])

\* ZNS_LOG_LEVEL(held[c], level): the macro's test, then Logger::log.
Log(c, level) ==
    /\ held[c] # NULL
    /\ level >= logger[held[c]].level
    /\ logger' = LogOn(logger, held[c], level)
    /\ overflow' = Recurses(logger, held[c], level)
    /\ UNCHANGED <<m_loggers, m_root, m_value, held, loaded>>

Administration ==
    \/ \E c \in Callers, n \in Asked : GetLogger(c, n)
    \/ \E a \in Creations : \/ CreateLogger(a.name, a.level, a.pattern, a.types, a.path)
                           \/ UpdateLogger(a.name, a.level, a.pattern, a.types, a.path)
    \/ \E n \in Names : RemoveLogger(n)
    \/ \E doc \in Documents : Reload(doc)
    \/ \E d \in Definitions : ConfigureLogger(d.name, d.define)

Uses(c) ==
    \/ \E level \in Levels : Log(c, level) \/ SetLevel(c, level)
    \/ \E a \in Additions : AddAppender(c, a.type, a.path)
    \/ \E i \in 1 .. MaxAppenders : DelAppender(c, i)
    \/ ClearAppenders(c)

Next == ~overflow /\ (Administration \/ \E c \in Callers : Uses(c))

Spec == Init /\ [][Next]_vars

----------------------------------------------------------------------------
(* Properties.                                                             *)

Values == {ToDefines(doc) : doc \in Documents} \ {THROWS}

\* Every variable keeps its type, and every pointer leads to a live Logger.
TypeOK ==
    /\ m_root \in Ids
    /\ m_loggers \in [Names -> Ids \cup {NULL}]
    /\ held \in [Callers -> Ids \cup {NULL}]
    /\ m_value \in Values \cup {[n \in Names |-> NULL]}
    /\ overflow \in BOOLEAN
    /\ loaded \in Values \cup {NULL}
    /\ \A i \in ({m_root} \cup Range(m_loggers) \cup Range(held)) \ {NULL} :
         /\ logger[i] # NULL
         /\ logger[i].name \in Names
         /\ logger[i].level \in UNKNOW .. FATAL
         /\ logger[i].formatter \in Patterns
         /\ ToSet(logger[i].appenders) \subseteq Appenders

\* The map leads from each name to a logger of that name, so updateLogger's
\* ZNS_LOG_NAME(it->second->getName()) is the logger it was asked to update.
KeysMatchNames == \A n \in Names : m_loggers[n] # NULL => logger[m_loggers[n]].name = n

\* toYamlString: the loggers of the map. Appenders without a formatter of
\* their own leave theirs out.
Export ==
    LET Entry(n) ==
          LET l == logger[m_loggers[n]]
          IN  FromDefine(n,
                [level |-> l.level, formatter |-> l.formatter,
                 appender |-> [i \in DOMAIN l.appenders |->
                    LET a == l.appenders[i]
                    IN  [type |-> a.type, path |-> a.path, level |-> a.level,
                         formatter |-> IF a.custom THEN a.formatter ELSE NULL]]])
    IN  [i \in DOMAIN SetToSeq({n \in Names : m_loggers[n] # NULL}) |->
            Entry(SetToSeq({n \in Names : m_loggers[n] # NULL})[i])]

Closed(aps) == [i \in DOMAIN aps |-> [aps[i] EXCEPT !.open = NULL]]

\* The logger as it acts on records: an appender takes those that pass both
\* levels.
Effective(l) ==
    [l EXCEPT !.appenders =
       [i \in DOMAIN l.appenders |->
          [l.appenders[i] EXCEPT !.open = NULL, !.level = Max({@, l.level})]]]

\* Loading what toYamlString wrote would make loggers that act as those there
\* are: whatever createLogger, updateLogger, configureLogger and the loggers'
\* own operations did before, an appender not flagged as having its own
\* formatter uses its logger's, and what is left out is what is inherited.
ExportFaithful ==
    LET v == ToDefines(Export)
    IN  /\ v # THROWS
        /\ \A n \in Names :
             IF m_loggers[n] = NULL THEN v[n] = NULL
             ELSE Effective(Configured(n, v[n])) = Effective(logger[m_loggers[n]])

\* The loggers are as the last loaded configuration defines them: the listener
\* on "loggers" removes, adds and changes what differs, "if the appender has a
\* level of its own, it is set" (log.cpp, updateAppender); and no appender
\* still writes to a file of an earlier configuration.
ConfigInForce ==
    loaded # NULL => \A n \in Names : loaded[n] # NULL =>
        /\ m_loggers[n] # NULL
        /\ LET l == logger[m_loggers[n]]
           IN  /\ [l EXCEPT !.appenders = Closed(@)] = Configured(n, loaded[n])
               /\ \A a \in ToSet(l.appenders) : a.open \in {NULL, a.path}

\* A reload changes a logger in place: a Logger::ptr a caller took from the map
\* stays the logger of that name as long as the configuration names it.
StableHandles ==
    [][\A n \in Names : (m_value' # m_value /\ m_value'[n] # NULL /\ m_loggers[n] # NULL)
                            => m_loggers'[n] = m_loggers[n]]_vars

\* A file that cannot be opened is reported once, in the log.
LoggingTerminates == ~overflow
=============================================================================
