---------------------------- MODULE LexicalCast ----------------------------
(***************************************************************************)
(* The conversions of server/config.h between values and YAML text. Loading *)
(* a text and dumping a node undo each other, so a text is its YAML node:  *)
(*    [kind |-> "int", int |-> n]        a scalar that is a numeral        *)
(*    [kind |-> "word"], [kind |-> "null"]     any other scalar, no value  *)
(*    [kind |-> "seq", items |-> ...]                                      *)
(*    [kind |-> "map", entries |-> ...]  a sequence of a key and a node    *)
(*                                                                         *)
(* A container is converted after its elements: its conversion takes what *)
(* those of its elements gave, whatever the element type is.               *)
(***************************************************************************)
EXTENDS Naturals, SequencesExt

CONSTANT THROWS   \* the conversion throws an exception

Num(n) == [kind |-> "int", int |-> n]
Word == [kind |-> "word"]
Null == [kind |-> "null"]
SeqNode(items) == [kind |-> "seq", items |-> items]
MapNode(entries) == [kind |-> "map", entries |-> entries]
Entry(key, node) == [key |-> key, node |-> node]

\* node[0], ..., node[size() - 1]: of a map they are not there and dump as
\* nothing, as no key of the model is a number; a scalar has none.
Children(node) ==
    CASE node.kind = "seq" -> node.items
      [] node.kind = "map" -> [k \in DOMAIN node.entries |-> Word]
      [] OTHER -> <<>>

\* The nodes a loop over a map comes to.
Values(node) ==
    IF node.kind = "map" THEN [k \in DOMAIN node.entries |-> node.entries[k].node] ELSE <<>>

----------------------------------------------------------------------------
(* string -> T                                                             *)

\* boost::lexical_cast<int>
ToInt(node) == IF node.kind = "int" THEN node.int ELSE THROWS

Ints(node) == [k \in DOMAIN Children(node) |-> ToInt(Children(node)[k])]

\* vector<T>, and list<T>: the exception of an element is the container's.
ToVector(elems) == IF THROWS \in Range(elems) THEN THROWS ELSE elems

\* set<T>, and unordered_set<T>.
ToStdSet(elems) == IF THROWS \in Range(elems) THEN THROWS ELSE Range(elems)

\* map<string, T>, and unordered_map<string, T>: the last of equal keys stays.
\* A scalar iterates over nothing; the elements of a sequence have no key.
ToMap(node, elems) ==
    LET key(k) == node.entries[k].key
    IN  CASE THROWS \in Range(elems) -> THROWS
          [] node.kind = "seq" /\ node.items # <<>> -> THROWS
          [] OTHER -> [s \in {key(k) : k \in DOMAIN elems} |->
                         elems[Max({k \in DOMAIN elems : key(k) = s})]]

----------------------------------------------------------------------------
(* T -> string. A node nothing was added to is null.                       *)

FromInt(n) == Num(n)

\* Mutant: the elements are put in front.
FromVector_Reversed(nodes) == IF nodes = <<>> THEN Null ELSE SeqNode(Reverse(nodes))

FromVector(nodes) == IF nodes = <<>> THEN Null ELSE SeqNode(nodes)

FromStdSet(nodes) == FromVector(SetToSeq(nodes))

FromMap(nodes) ==
    IF DOMAIN nodes = {} THEN Null
    ELSE LET keys == SetToSeq(DOMAIN nodes)
         IN  MapNode([k \in DOMAIN keys |-> Entry(keys[k], nodes[keys[k]])])
=============================================================================
