-------------------------- MODULE MCLoggerManager --------------------------
(* Small instances of LoggerManager for TLC. *)
EXTENDS LoggerManager

CONSTANTS root, zn, i1, i2, i3, i4, std, own, fileA, fileB, c1

TwoNames == {root, zn}
OneName == {zn}
FourIds == {i1, i2, i3, i4}
TwoPatterns == {std, own}
OnePath == {fileA}
TwoPaths == {fileA, fileB}
NoPath == {}
OneCaller == {c1}
DebugAndError == {DEBUG, ERROR}

\* Nodes of documents.
Appender(type, file, level, formatter) ==
    [type |-> type, file |-> file, level |-> level, formatter |-> formatter]
Node(name, level, formatter, appender) ==
    [name |-> name, level |-> level, formatter |-> formatter, appender |-> appender]

RootA == Node(root, "DEBUG", std, <<Appender("file", fileA, NULL, own), Appender("stdout", NULL, NULL, NULL)>>)
RootB == Node(root, "verbose", own, <<Appender("stdout", NULL, "error", NULL)>>)
ZnA == Node(zn, "info", own, <<Appender("stdout", NULL, "debug", std), Appender("syslog", NULL, NULL, NULL)>>)
ZnB == Node(zn, "info", own, <<Appender("stdout", NULL, "error", std), Appender("syslog", NULL, NULL, NULL)>>)
Incomplete == Node(zn, "info", NULL, <<>>)

\* The first has a name twice, the second one logger less and a level that is
\* not known, the third differs from the first in the definition of root, the
\* last does not convert.
Reloads == {<<RootA, ZnA, ZnB>>, <<RootB>>, <<RootB, ZnA>>, <<RootA, Incomplete>>}
\* Two that differ in one appender's level only.
LevelOnly == {<<RootA, ZnA>>, <<RootA, ZnB>>}

SomeDefinitions == {[name |-> zn, define |-> ToDefine(ZnA)]}
SomeAdditions == {[type |-> "stdout", path |-> NULL], [type |-> "file", path |-> fileA]}

Creation(name, level, pattern, types, path) ==
    [name |-> name, level |-> level, pattern |-> pattern, types |-> types, path |-> path]
SomeCreations == {Creation(zn, ERROR, std, <<"stdout", "file">>, fileB),
                  Creation(root, DEBUG, own, <<"file">>, fileB)}
None == {}

Addresses == Permutations(FourIds)
=============================================================================
