----------------------------- MODULE LogDefine -----------------------------
(***************************************************************************)
(* LogLevel, LogDefine and their conversions in server/log.{h,cpp}.        *)
(*                                                                         *)
(* The YAML text of a logger is its node: a record with the members name,  *)
(* level, formatter and appender, the last a sequence of records with      *)
(* type, file, level and formatter. A member that is not there is NULL.    *)
(***************************************************************************)
EXTENDS Naturals, SequencesExt

CONSTANTS
    Names, RootName,
    Patterns, DefaultPattern,
    Paths,           \* of log files
    THROWS,          \* the conversion throws an exception
    NULL

UNKNOW == 0
DEBUG == 1
INFO == 2
WARN == 3
ERROR == 4
FATAL == 5

LevelNames == <<"debug", "info", "warn", "error", "fatal">>
UpperNames == <<"DEBUG", "INFO", "WARN", "ERROR", "FATAL">>

\* Where a text is in a table of the levels' names.
Position(table, text) == CHOOSE l \in DEBUG .. FATAL : table[l] = text

LevelToString(level) == IF level \in DEBUG .. FATAL THEN UpperNames[level] ELSE "UNKNOWN"

\* Only names in lower case are known.
LevelFromString(text) ==
    IF text \in Range(LevelNames) THEN Position(LevelNames, text) ELSE UNKNOW

\* to_lower, of the texts that name a level.
ToLower(text) ==
    IF text \in Range(UpperNames) THEN LevelNames[Position(UpperNames, text)] ELSE text

----------------------------------------------------------------------------
(* string -> LogDefine                                                     *)

LevelIn(node) == IF node.level = NULL THEN UNKNOW ELSE LevelFromString(ToLower(node.level))

\* node["..."].as<std::string>() throws when the member is not there. An
\* appender may do without a level or a formatter.
Complete(node) ==
    /\ NULL \notin {node.name, node.level, node.formatter}
    /\ \A a \in Range(node.appender) : a.type # NULL /\ (a.type = "file" => a.file # NULL)

ToDefine(node) ==
    [level |-> LevelIn(node), formatter |-> node.formatter,
     appender |-> [i \in DOMAIN node.appender |->
                     LET a == node.appender[i]
                     IN  [type |-> a.type, path |-> IF a.type = "file" THEN a.file ELSE NULL,
                          level |-> LevelIn(a), formatter |-> a.formatter]]]

\* string -> set<LogDefine>: < compares names, so the first of equal names
\* stays. A scalar or nothing at all is read as an empty sequence.
ToDefines(doc) ==
    IF \E i \in DOMAIN doc : ~Complete(doc[i]) THEN THROWS
    ELSE [n \in Names |->
            LET named == {i \in DOMAIN doc : doc[i].name = n}
            IN  IF named = {} THEN NULL ELSE ToDefine(doc[Min(named)])]

----------------------------------------------------------------------------
(* LogDefine -> string                                                     *)

\* Levels and formatters an appender does not have of its own are left out.
FromDefine(n, ld) ==
    [name |-> n, level |-> ToLower(LevelToString(ld.level)), formatter |-> ld.formatter,
     appender |-> [i \in DOMAIN ld.appender |->
                     LET a == ld.appender[i]
                     IN  [type |-> a.type, file |-> IF a.type = "file" THEN a.path ELSE NULL,
                          level |-> IF a.level = UNKNOW THEN NULL ELSE ToLower(LevelToString(a.level)),
                          formatter |-> a.formatter]]]

----------------------------------------------------------------------------

\* The texts a document has of its own.
Texts == Range(LevelNames) \cup {"UNKNOWN", "stdout", "file"}

\* What a document may hold: some text or nothing for each level and type.
IsNode(node) ==
    /\ node.formatter \in Patterns \cup {NULL}
    /\ node.appender \in Seq(Range(node.appender))
    /\ \A a \in Range(node.appender) : a.formatter \in Patterns \cup {NULL} /\ a.file \in Paths \cup {NULL}

\* What a LogDefine is, and those of the appenders that exist.
IsDefine(ld) ==
    /\ ld.level \in UNKNOW .. FATAL /\ ld.formatter \in Patterns
    /\ ld.appender \in Seq(Range(ld.appender))
    /\ \A a \in Range(ld.appender) : /\ a.level \in UNKNOW .. FATAL /\ a.formatter \in Patterns \cup {NULL}
                                     /\ a.type = "file" => a.path \in Paths

AppenderDefines ==
    [type : {"stdout", "file"}, path : Paths \cup {NULL}, level : UNKNOW .. FATAL,
     formatter : Patterns \cup {NULL}]
Defines == [level : UNKNOW .. FATAL, formatter : Patterns, appender : Seq(AppenderDefines)]

\* LogAppenderDefine and LogDefine operator==, and == on std::set<LogDefine>.
SameDefine(a, b) ==
    /\ a.level = b.level
    /\ a.formatter = b.formatter
    /\ Len(a.appender) = Len(b.appender)
    /\ \A i \in DOMAIN a.appender : /\ a.appender[i].type = b.appender[i].type
                                    /\ a.appender[i].path = b.appender[i].path

\* Mutant: == compares what operator< does.
SameValue_NamesOnly(v, w) == \A n \in Names : v[n] = NULL <=> w[n] = NULL

SameValue(v, w) ==
    \A n \in Names : IF v[n] = NULL \/ w[n] = NULL THEN v[n] = w[n] ELSE SameDefine(v[n], w[n])
=============================================================================
