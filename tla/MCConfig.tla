------------------------------ MODULE MCConfig ------------------------------
(* Small instances of Config for TLC. *)
EXTENDS Config

CONSTANTS system, port, bad, c1, c2

Port == <<system, port>>
System == <<system>>
Bad == <<bad>>
ThreeNames == {System, Port, Bad}
AllParts == {system, port, bad}
TwoCallers == {c1, c2}
GoodKeys == {system, port}

\* A document with a name that is not valid, and with system.port twice: the
\* second one does not convert to an int.
Inner(n) == MapNode(<<Entry(<<port>>, n)>>)
OneTwo == SeqNode(<<Num(1), Num(2)>>)
Twice == MapNode(<<Entry(<<bad>>, Inner(Num(1))), Entry(Port, Num(2)),
                   Entry(<<system>>, Inner(OneTwo))>>)
Docs == {Twice}
AllNodes == Docs \cup {Num(1), Num(2), OneTwo, Inner(Num(1)), Inner(OneTwo)}

Creation(name, type, value) == [name |-> name, type |-> type, value |-> value]
SomeCreations == {Creation(Port, "int", 1), Creation(Port, "set_int", {}), Creation(Bad, "int", 1),
                  Creation(System, "map_vector", <<>>)}
SomeAssignments == {[type |-> "int", value |-> 1], [type |-> "int", value |-> 2]}

Sets(name, type, node, by) == [does |-> "sets", name |-> name, type |-> type, node |-> node, by |-> by]
Subscription(type, id, cb) == [type |-> type, id |-> id, cb |-> cb]
SomeSubscriptions ==
    {Subscription("int", 1, [does |-> "throws"]),
     Subscription("int", 1, [does |-> "adds", id |-> 2]),
     Subscription("int", 2, Sets(Port, "int", Num(2), "fromString")),
     Subscription("int", 3, [does |-> "nothing"]),
     Subscription("int", 3, Sets(Port, "int", Num(1), "setValue")),
     Subscription("int", 3, [does |-> "removes", id |-> 2]),
     Subscription("map_vector", 1, Sets(Port, "int", Num(1), "setValue"))}
=============================================================================
