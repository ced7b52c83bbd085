---------------------------- MODULE ConfigProofs ----------------------------
(***************************************************************************)
(* Proofs about Config, for any number of names, variables, callers,       *)
(* listeners and documents, and whatever the listeners do:                 *)
(*   - what the conversions give, and that they undo each other;           *)
(*   - what ListAllYamlMember gives of any tree;                           *)
(*   - there is one variable of a name;                                    *)
(*   - the state has its types, listeners know the value in force, and     *)
(*     LoadFromYaml treats each variable on its own.                       *)
(***************************************************************************)
EXTENDS Config, DataLemmas

----------------------------------------------------------------------------
(* LexicalCast: what a conversion gives is a value of its type, and what   *)
(* toString() writes fromString() reads back.                              *)

\* The values of all types.
AllValues == Int \cup (SUBSET Int) \cup UNION {[D -> Seq(Int)] : D \in SUBSET Seq(Parts)}

\* Each type's values are among them.
LEMMA ValuesListed ==
    ASSUME NEW type \in Types, NEW v, IsValue(type, v)
    PROVE  v \in AllValues
<1>1. CASE type = "int"
  BY <1>1 DEF IsValue, AllValues
<1>2. CASE type = "set_int"
  BY <1>2 DEF IsValue, AllValues
<1>3. CASE type = "map_vector"
  <2>1. DOMAIN v \in SUBSET Seq(Parts) /\ v \in [DOMAIN v -> Seq(Int)]
    BY <1>3 DEF IsValue
  <2>2. v \in UNION {[D -> Seq(Int)] : D \in SUBSET Seq(Parts)}
    BY <2>1, Zenon
  <2> QED  BY <2>2 DEF AllValues
<1> QED  BY <1>1, <1>2, <1>3 DEF Types

\* The range of a finite sequence is finite.
LEMMA FiniteRange ==
    ASSUME NEW n \in Nat, NEW f, DOMAIN f = 1 .. n, f = [k \in 1 .. n |-> f[k]]
    PROVE  IsFiniteSet(Range(f))
<1>1. f \in Surjection(1 .. n, Range(f))
  BY DEF Surjection, Range
<1>2. IsFiniteSet(1 .. n)
  BY FS_Interval
<1> QED  BY <1>1, <1>2, FS_Surjection

\* The elements of a container convert to ints one by one.
LEMMA IntsListed ==
    ASSUME NEW n \in Nodes
    PROVE  Ints(n) \in Seq(Int \cup {THROWS})
<1>1. CASE n.kind = "seq"
  <2>1. n.items \in Seq(Nodes) /\ Children(n) = n.items
    BY <1>1, NodesAssumption DEF Children
  <2>2. \A k \in 1 .. Len(n.items) : ToInt(n.items[k]) \in Int \cup {THROWS}
    BY <2>1, NodesAssumption DEF ToInt
  <2>3. Ints(n) = [k \in 1 .. Len(n.items) |-> ToInt(n.items[k])] /\ Len(n.items) \in Nat
    BY <2>1 DEF Ints
  <2> QED  BY <2>2, <2>3
<1>2. CASE n.kind = "map"
  <2>1. n.entries \in Seq([key : Seq(Parts), node : Nodes])
    BY <1>2, NodesAssumption
  <2>2. Children(n) = [k \in 1 .. Len(n.entries) |-> Word] /\ Len(n.entries) \in Nat
    BY <1>2, <2>1 DEF Children
  <2>3. Ints(n) = [k \in 1 .. Len(n.entries) |-> THROWS]
    BY <2>2 DEF Ints, ToInt, Word
  <2> QED  BY <2>2, <2>3
<1>3. CASE n.kind # "seq" /\ n.kind # "map"
  <2>1. Children(n) = <<>>
    BY <1>3 DEF Children
  <2>2. Ints(n) = <<>>
    BY <2>1 DEF Ints
  <2> QED  BY <2>2
<1> QED  BY <1>1, <1>2, <1>3

\* vector<int> from a node is a sequence of ints.
LEMMA VectorIsValue ==
    ASSUME NEW n \in Nodes
    PROVE  ToVector(Ints(n)) \in Seq(Int) \cup {THROWS}
<1> SUFFICES ASSUME THROWS \notin Range(Ints(n)) PROVE Ints(n) \in Seq(Int)
  BY DEF ToVector
<1>1. Ints(n) \in Seq(Int \cup {THROWS})
  BY IntsListed
<1>2. \A k \in 1 .. Len(Ints(n)) : Ints(n)[k] \in Int
  BY <1>1 DEF Range
<1> QED  BY <1>1, <1>2

\* set<int> from a node is a finite set of ints.
LEMMA SetIsValue ==
    ASSUME NEW n \in Nodes
    PROVE  ToStdSet(Ints(n)) = THROWS \/ IsValue("set_int", ToStdSet(Ints(n)))
<1> SUFFICES ASSUME THROWS \notin Range(Ints(n))
             PROVE  Range(Ints(n)) \subseteq Int /\ IsFiniteSet(Range(Ints(n)))
  BY DEF ToStdSet, IsValue
<1>1. Ints(n) \in Seq(Int \cup {THROWS})
  BY IntsListed
<1>2. IsFiniteSet(Range(Ints(n)))
  BY <1>1, FiniteRange
<1>3. Range(Ints(n)) \subseteq Int
  BY <1>1 DEF Range
<1> QED  BY <1>2, <1>3

\* The element a std::map keeps for a key is one of those under that key.
LEMMA LastOfKey ==
    ASSUME NEW n \in Nat, NEW S, S \subseteq 1 .. n, S # {}
    PROVE  Max(S) \in S /\ \A k \in S : k <= Max(S)
<1>1. IsFiniteSet(1 .. n)
  BY FS_Interval
<1>2. IsFiniteSet(S)
  BY <1>1, FS_Subset
<1>3. S \subseteq Nat
  OBVIOUS
<1> QED  BY <1>2, <1>3, Largest

\* map<string, vector<int>> from a node has finitely many keys, each with a
\* vector.
LEMMA MapIsValue ==
    ASSUME NEW n \in Nodes
    PROVE  FromStr("map_vector", n) = THROWS \/ IsValue("map_vector", FromStr("map_vector", n))
<1> DEFINE elems == [k \in DOMAIN Values(n) |-> ToVector(Ints(Values(n)[k]))]
<1>0. FromStr("map_vector", n) = ToMap(n, elems)
  BY DEF FromStr
<1>1. CASE n.kind = "map"
  <2> DEFINE m == Len(n.entries)
             key(k) == n.entries[k].key
             S(s) == {k \in 1 .. m : key(k) = s}
             D == {key(k) : k \in 1 .. m}
  <2>1. /\ m \in Nat /\ DOMAIN n.entries = 1 .. m
        /\ \A k \in 1 .. m : key(k) \in Seq(Parts) /\ n.entries[k].node \in Nodes
    <3>1. n.entries \in Seq([key : Seq(Parts), node : Nodes])
      BY <1>1, NodesAssumption
    <3>2. m \in Nat /\ DOMAIN n.entries = 1 .. m
      BY <3>1
    <3>3. \A k \in 1 .. m : n.entries[k] \in [key : Seq(Parts), node : Nodes]
      BY <3>1, ElementOfSeq
    <3> QED  BY <3>2, <3>3
  <2>2. DOMAIN elems = 1 .. m /\ \A k \in 1 .. m : elems[k] \in Seq(Int) \cup {THROWS}
    <3>1. Values(n) = [k \in 1 .. m |-> n.entries[k].node]
      BY <1>1, <2>1 DEF Values
    <3>2. \A k \in 1 .. m : elems[k] = ToVector(Ints(n.entries[k].node))
      BY <3>1
    <3> QED  BY <2>1, <3>1, <3>2, VectorIsValue
  <2> SUFFICES ASSUME THROWS \notin Range(elems)
               PROVE  IsValue("map_vector", [s \in D |-> elems[Max(S(s))]])
    <3> HIDE DEF elems
    <3> QED  BY <1>0, <1>1, <2>2 DEF ToMap
  <2>3. \A k \in 1 .. m : elems[k] \in Seq(Int)
    <3> HIDE DEF elems
    <3> QED  BY <2>2 DEF Range
  <2>4. \A s \in D : elems[Max(S(s))] \in Seq(Int)
    <3> TAKE s \in D
    <3>1. S(s) \subseteq 1 .. m /\ S(s) # {}
      OBVIOUS
    <3>2. Max(S(s)) \in S(s)
      <4> HIDE DEF S
      <4> QED  BY <2>1, <3>1, LastOfKey
    <3> HIDE DEF elems
    <3> QED  BY <2>3, <3>2
  <2>5. IsFiniteSet(D) /\ D \subseteq Seq(Parts)
    <3> DEFINE f == [k \in 1 .. m |-> key(k)]
    <3>1. Range(f) = D
      BY DEF Range
    <3>2. IsFiniteSet(Range(f))
      BY <2>1, FiniteRange
    <3> QED  BY <2>1, <3>1, <3>2
  <2> HIDE DEF elems, S, D
  <2> QED  BY <2>4, <2>5 DEF IsValue
<1>2. CASE n.kind # "map"
  <2>1. DOMAIN elems = {}
    BY <1>2 DEF Values
  <2>2. ToMap(n, elems) = THROWS \/ ToMap(n, elems) = [s \in {} |-> elems[Max({})]]
    <3> HIDE DEF elems
    <3> QED  BY <1>2, <2>1 DEF ToMap, Range
  <2>3. IsValue("map_vector", [s \in {} |-> elems[Max({})]])
    BY FS_EmptySet DEF IsValue
  <2> QED  BY <1>0, <2>2, <2>3
<1> QED  BY <1>1, <1>2

\* fromString() throws or gives a value of the variable's type.
LEMMA FromStrIsValue ==
    ASSUME NEW type \in Types, NEW n \in Nodes
    PROVE  FromStr(type, n) = THROWS \/ IsValue(type, FromStr(type, n))
<1>1. CASE type = "int"
  BY <1>1, NodesAssumption DEF FromStr, IsValue, ToInt
<1>2. CASE type = "set_int"
  BY <1>2, SetIsValue DEF FromStr
<1>3. CASE type = "map_vector"
  BY <1>3, MapIsValue
<1> QED  BY <1>1, <1>2, <1>3 DEF Types

----------------------------------------------------------------------------

\* A vector<int> is read back from its node.
LEMMA VectorRoundTrip ==
    ASSUME NEW x \in Seq(Int)
    PROVE  ToVector(Ints(FromVector([k \in DOMAIN x |-> FromInt(x[k])]))) = x
<1> DEFINE q == [k \in DOMAIN x |-> FromInt(x[k])]
<1>1. DOMAIN x = 1 .. Len(x) /\ Len(x) \in Nat /\ x = [k \in 1 .. Len(x) |-> x[k]]
  OBVIOUS
<1>2. Ints(FromVector(q)) = x
  <2>1. CASE q = <<>>
    <3>1. DOMAIN x = {}
      BY <2>1
    <3>2. x = <<>>
      BY <1>1, <3>1
    <3>3. FromVector(q) = Null
      BY <2>1 DEF FromVector
    <3>4. Children(Null) = <<>>
      BY DEF Children, Null
    <3>5. Ints(Null) = <<>>
      BY <3>4 DEF Ints
    <3> QED  BY <3>2, <3>3, <3>5
  <2>2. CASE q # <<>>
    <3>1. Children(FromVector(q)) = q
      BY <2>2 DEF FromVector, SeqNode, Children
    <3>2. Ints(FromVector(q)) = [k \in 1 .. Len(x) |-> ToInt(q[k])]
      BY <1>1, <3>1 DEF Ints
    <3>3. \A k \in 1 .. Len(x) : ToInt(q[k]) = x[k]
      BY <1>1 DEF FromInt, Num, ToInt
    <3> QED  BY <1>1, <3>2, <3>3
  <2> QED  BY <2>1, <2>2
<1>3. THROWS \notin Range(x)
  BY <1>1, ConfigAssumption DEF Range
<1> QED  BY <1>2, <1>3 DEF ToVector

\* A set<int> is read back from its node, in whatever order it is dumped.
LEMMA SetRoundTrip ==
    ASSUME NEW v, v \subseteq Int, IsFiniteSet(v)
    PROVE  ToStdSet(Ints(FromStdSet({FromInt(n) : n \in v}))) = v
<1> DEFINE nodes == {FromInt(n) : n \in v}
           q == SetToSeq(nodes)
<1>1. IsFiniteSet(nodes)
  <2>1. [n \in v |-> FromInt(n)] \in Surjection(v, nodes)
    BY DEF Surjection
  <2> QED  BY <2>1, FS_Surjection
<1>2. DOMAIN q = 1 .. Len(q) /\ Len(q) \in Nat /\ Range(q) = nodes /\ q \in Seq(nodes)
  <2> HIDE DEF nodes
  <2> QED  BY <1>1, SetListed
<1>3. Ints(FromVector(q)) = [k \in 1 .. Len(q) |-> ToInt(q[k])]
  <2> HIDE DEF q
  <2>1. CASE q = <<>>
    <3>1. Children(FromVector(q)) = <<>>
      BY <2>1 DEF FromVector, Null, Children
    <3> QED  BY <2>1, <3>1 DEF Ints
  <2>2. CASE q # <<>>
    <3>1. Children(FromVector(q)) = q
      BY <2>2 DEF FromVector, SeqNode, Children
    <3> QED  BY <1>2, <3>1 DEF Ints
  <2> QED  BY <2>1, <2>2
<1>4. \A n \in v : ToInt(FromInt(n)) = n
  BY DEF ToInt, FromInt, Num
<1>5. Range(Ints(FromVector(q))) = v
  <2>1. \A k \in 1 .. Len(q) : \E n \in v : q[k] = FromInt(n)
    BY <1>2 DEF Range
  <2>2. \A n \in v : \E k \in 1 .. Len(q) : q[k] = FromInt(n)
    BY <1>2 DEF Range
  <2>3. Range(Ints(FromVector(q))) = {ToInt(q[k]) : k \in 1 .. Len(q)}
    BY <1>3 DEF Range
  <2> HIDE DEF q, nodes
  <2> DEFINE W == {ToInt(q[k]) : k \in 1 .. Len(q)}
  <2>4. ASSUME NEW w \in W PROVE w \in v
    <3>1. PICK k \in 1 .. Len(q) : w = ToInt(q[k])
      OBVIOUS
    <3>2. PICK n \in v : q[k] = FromInt(n)
      BY <2>1
    <3> QED  BY <1>4, <3>1, <3>2
  <2>5. ASSUME NEW n \in v PROVE n \in W
    <3>1. PICK k \in 1 .. Len(q) : q[k] = FromInt(n)
      BY <2>2
    <3> QED  BY <1>4, <3>1
  <2> QED  BY <2>3, <2>4, <2>5
<1>6. THROWS \notin v
  BY ConfigAssumption
<1> QED  BY <1>5, <1>6 DEF ToStdSet, FromStdSet

\* A map<string, vector<int>> is read back from its node.
LEMMA MapRoundTrip ==
    ASSUME NEW v, IsValue("map_vector", v)
    PROVE  FromStr("map_vector", ToStr("map_vector", v)) = v
<1> DEFINE w == [s \in DOMAIN v |-> FromVector([k \in DOMAIN v[s] |-> FromInt(v[s][k])])]
           keys == SetToSeq(DOMAIN v)
           n == FromMap(w)
           elems == [k \in DOMAIN Values(n) |-> ToVector(Ints(Values(n)[k]))]
<1>1. IsFiniteSet(DOMAIN v) /\ v \in [DOMAIN v -> Seq(Int)]
  BY DEF IsValue
<1>2. /\ DOMAIN keys = 1 .. Len(keys) /\ Len(keys) \in Nat
      /\ Range(keys) = DOMAIN v /\ IsInjective(keys)
  BY <1>1, SetListed
<1>3. FromStr("map_vector", ToStr("map_vector", v)) = ToMap(n, elems)
  BY DEF FromStr, ToStr
<1>4. \A s \in DOMAIN v : ToVector(Ints(w[s])) = v[s]
  BY <1>1, VectorRoundTrip
<1>5. CASE DOMAIN v = {}
  <2>1. n = Null
    BY <1>5 DEF FromMap
  <2>2. DOMAIN elems = {}
    <3>1. Values(Null) = <<>>
      BY DEF Values, Null
    <3> HIDE DEF n
    <3> QED  BY <2>1, <3>1
  <2>3. ToMap(Null, elems) = [s \in {} |-> elems[Max({})]]
    <3> HIDE DEF elems
    <3> QED  BY <2>2 DEF ToMap, Range, Null
  <2>4. v = [s \in {} |-> elems[Max({})]]
    BY <1>1, <1>5
  <2> QED  BY <1>3, <2>1, <2>3, <2>4
<1>6. CASE DOMAIN v # {}
  <2>1. n = MapNode([k \in 1 .. Len(keys) |-> Entry(keys[k], w[keys[k]])])
    <3>1. DOMAIN w = DOMAIN v
      OBVIOUS
    <3> HIDE DEF w
    <3> QED  BY <1>2, <1>6, <3>1 DEF FromMap
  <2>2. \A k \in 1 .. Len(keys) : keys[k] \in DOMAIN v
    BY <1>2 DEF Range
  <2>3. Values(n) = [k \in 1 .. Len(keys) |-> w[keys[k]]]
    <3> HIDE DEF w, keys, n
    <3> QED  BY <2>1 DEF Values, MapNode, Entry
  <2>4. elems = [k \in 1 .. Len(keys) |-> v[keys[k]]]
    <3> HIDE DEF w, n, keys
    <3> QED  BY <1>4, <2>2, <2>3
  <2>5. THROWS \notin Range(elems)
    <3>1. \A k \in 1 .. Len(keys) : elems[k] \in Seq(Int)
      <4> HIDE DEF elems, keys
      <4> QED  BY <1>1, <2>2, <2>4
    <3> HIDE DEF elems
    <3> QED  BY <2>4, <3>1, ConfigAssumption DEF Range
  <2> DEFINE S(s) == {k \in 1 .. Len(keys) : keys[k] = s}
  <2>6. ToMap(n, elems) = [s \in {keys[k] : k \in 1 .. Len(keys)} |-> elems[Max(S(s))]]
    <3> DEFINE es == [k \in 1 .. Len(keys) |-> Entry(keys[k], w[keys[k]])]
    <3>1. n.kind = "map" /\ n.entries = es
      <4> HIDE DEF es, n
      <4> QED  BY <2>1 DEF es, MapNode
    <3>2. \A k \in 1 .. Len(keys) : n.entries[k].key = keys[k]
      <4> HIDE DEF n, keys, w
      <4> QED  BY <3>1 DEF Entry
    <3>3. DOMAIN elems = 1 .. Len(keys)
      BY <2>4
    <3> HIDE DEF elems, n, keys, es
    <3>4. {n.entries[k].key : k \in DOMAIN elems} = {keys[k] : k \in 1 .. Len(keys)}
      BY <3>2, <3>3
    <3>5. \A s : {k \in DOMAIN elems : n.entries[k].key = s} = S(s)
      BY <3>2, <3>3
    <3>6. ToMap(n, elems) =
             [s \in {n.entries[k].key : k \in DOMAIN elems} |->
                 elems[Max({k \in DOMAIN elems : n.entries[k].key = s})]]
      BY <2>5, <3>1 DEF ToMap
    <3> HIDE DEF S
    <3> QED  BY <3>4, <3>5, <3>6
  <2>7. {keys[k] : k \in 1 .. Len(keys)} = DOMAIN v
    BY <1>2 DEF Range
  <2>8. \A s \in DOMAIN v : elems[Max(S(s))] = v[s]
    <3> TAKE s \in DOMAIN v
    <3>1. S(s) \subseteq 1 .. Len(keys) /\ S(s) # {}
      BY <2>7
    <3>2. Max(S(s)) \in S(s)
      <4> HIDE DEF S, keys
      <4> QED  BY <1>2, <3>1, LastOfKey
    <3> HIDE DEF elems, keys
    <3> QED  BY <2>4, <3>2
  <2>9. v = [s \in DOMAIN v |-> v[s]]
    BY <1>1
  <2> HIDE DEF elems, n, keys, S
  <2> QED  BY <1>3, <2>6, <2>7, <2>8, <2>9
<1> QED  BY <1>5, <1>6

\* What toString() writes, fromString() reads back.
LEMMA ValueRoundTrip ==
    ASSUME NEW type \in Types, NEW v, IsValue(type, v)
    PROVE  FromStr(type, ToStr(type, v)) = v
<1>1. CASE type = "int"
  BY <1>1 DEF FromStr, ToStr, FromInt, Num, ToInt
<1>2. CASE type = "set_int"
  BY <1>2, SetRoundTrip DEF FromStr, ToStr, IsValue
<1>3. CASE type = "map_vector"
  BY <1>3, MapRoundTrip
<1> QED  BY <1>1, <1>2, <1>3 DEF Types

----------------------------------------------------------------------------
(* The registry.                                                           *)

\* The registry leads to variables of its names, and a pointer that was handed
\* out is what the registry holds.
RegistryInv ==
    /\ datas \in [Names -> Ids \cup {NULL}]
    /\ var = [o \in Ids |-> var[o]]
    /\ handle = [c \in Callers |-> handle[c]]
    /\ \A n \in Names : datas[n] # NULL =>
          /\ var[datas[n]] # NULL
          /\ var[datas[n]] = [name |-> n, type |-> var[datas[n]].type]
    /\ \A c \in Callers : handle[c] # NULL => handle[c].name \in Names /\ handle[c].ptr \in Ids
    /\ OneVariablePerName

registry == <<datas, var, handle>>

\* Nothing is registered and nobody holds a pointer.
LEMMA RegistryInitial == Init => RegistryInv
BY DEF Init, RegistryInv, OneVariablePerName

\* A caller takes the variable that is registered.
LEMMA RegistryHands ==
    ASSUME RegistryInv, NEW c \in Callers, NEW name \in Names, NEW type,
           datas[name] # NULL, var[datas[name]].type = type,
           handle' = [handle EXCEPT ![c] = [ptr |-> datas[name], name |-> name, type |-> type]],
           UNCHANGED <<datas, var>>
    PROVE  RegistryInv'
<1>1. datas[name] \in Ids /\ var[datas[name]] = [name |-> name, type |-> type]
  BY DEF RegistryInv
<1>2. handle' = [d \in Callers |-> handle'[d]]
  BY DEF RegistryInv
<1>3. ASSUME NEW d \in Callers, handle'[d] # NULL
      PROVE  /\ handle'[d].name \in Names /\ handle'[d].ptr \in Ids
             /\ datas[handle'[d].name] = handle'[d].ptr
             /\ var[handle'[d].ptr] = [name |-> handle'[d].name, type |-> handle'[d].type]
  <2>1. CASE d = c
    <3>1. handle'[d] = [ptr |-> datas[name], name |-> name, type |-> type]
      BY <2>1 DEF RegistryInv
    <3> QED
      BY <3>1, <1>1
  <2>2. CASE d # c
    <3>1. handle'[d] = handle[d]
      BY <2>2 DEF RegistryInv
    <3> QED
      BY <3>1, <1>3 DEF RegistryInv, OneVariablePerName
  <2> QED
    BY <2>1, <2>2
<1> QED
  BY <1>2, <1>3 DEF RegistryInv, OneVariablePerName

\* Create registers a variable under a name that had none.
LEMMA RegistryGrows ==
    ASSUME RegistryInv, NEW c \in Callers, NEW name \in Names, NEW type, NEW o \in Ids,
           [name |-> name, type |-> type] # NULL,
           datas[name] = NULL, Fresh(o),
           var' = [var EXCEPT ![o] = [name |-> name, type |-> type]],
           datas' = [datas EXCEPT ![name] = o],
           handle' = [handle EXCEPT ![c] = [ptr |-> o, name |-> name, type |-> type]]
    PROVE  RegistryInv'
<1>0. NULL \notin Ids
  BY ConfigAssumption DEF ConfigAssumption
<1>1. var[o] = NULL
  BY DEF Fresh
<1>2. var'[o] = [name |-> name, type |-> type] /\ \A q \in Ids \ {o} : var'[q] = var[q]
  BY DEF RegistryInv
<1>3. datas'[name] = o /\ \A n \in Names \ {name} : datas'[n] = datas[n]
  BY DEF RegistryInv
<1>4. handle' = [d \in Callers |-> handle'[d]] /\ var' = [q \in Ids |-> var'[q]]
  BY DEF RegistryInv
<1>5. datas' \in [Names -> Ids \cup {NULL}]
  BY DEF RegistryInv
<1>6. ASSUME NEW n \in Names, datas'[n] # NULL
      PROVE  /\ var'[datas'[n]] # NULL
             /\ var'[datas'[n]] = [name |-> n, type |-> var'[datas'[n]].type]
  <2>1. CASE n = name
    BY <2>1, <1>2, <1>3
  <2>2. CASE n # name
    <3>1. datas'[n] = datas[n] /\ datas[n] # NULL
      BY <2>2, <1>3, <1>6
    <3>2. /\ datas[n] \in Ids
          /\ var[datas[n]] # NULL
          /\ var[datas[n]] = [name |-> n, type |-> var[datas[n]].type]
      BY <3>1 DEF RegistryInv
    <3>3. datas[n] # o
      BY <3>2, <1>1
    <3> QED
      BY <3>1, <3>2, <3>3, <1>2
  <2> QED
    BY <2>1, <2>2
<1>7. ASSUME NEW d \in Callers, handle'[d] # NULL
      PROVE  /\ handle'[d].name \in Names /\ handle'[d].ptr \in Ids
             /\ datas'[handle'[d].name] = handle'[d].ptr
             /\ var'[handle'[d].ptr] = [name |-> handle'[d].name, type |-> handle'[d].type]
  <2>1. CASE d = c
    <3>1. handle'[d] = [ptr |-> o, name |-> name, type |-> type]
      BY <2>1 DEF RegistryInv
    <3> QED
      BY <3>1, <1>2, <1>3
  <2>2. CASE d # c
    <3>1. handle'[d] = handle[d]
      BY <2>2 DEF RegistryInv
    <3>2. /\ handle[d].name \in Names /\ handle[d].ptr \in Ids
          /\ datas[handle[d].name] = handle[d].ptr
          /\ var[handle[d].ptr] = [name |-> handle[d].name, type |-> handle[d].type]
      BY <3>1, <1>7 DEF RegistryInv, OneVariablePerName
    <3>3. handle[d].ptr # NULL /\ handle[d].name # name
      BY <3>2, <1>0
    <3>4. handle[d].ptr # o
      BY <3>2, <3>3, <1>1 DEF RegistryInv
    <3> QED
      BY <3>1, <3>2, <3>3, <3>4, <1>2, <1>3
  <2> QED
    BY <2>1, <2>2
<1> QED
  BY <1>4, <1>5, <1>6, <1>7 DEF RegistryInv, OneVariablePerName

\* Only Create and Lookup touch the registry and the pointers.
LEMMA RegistryStep == RegistryInv /\ [Next]_vars => RegistryInv'
<1> SUFFICES ASSUME RegistryInv, [Next]_vars PROVE RegistryInv'
  OBVIOUS
<1>1. CASE UNCHANGED registry
  BY <1>1 DEF registry, RegistryInv, OneVariablePerName
<1>2. ASSUME NEW c \in Callers, NEW a \in Creations, Create(c, a.name, a.type, a.value)
      PROVE  RegistryInv'
  <2>1. a.name \in Names /\ [name |-> a.name, type |-> a.type] # NULL
    BY ConfigAssumption DEF ConfigAssumption
  <2>2. CASE datas[a.name] # NULL
    BY <1>2, <2>1, <2>2, RegistryHands DEF Create
  <2>3. CASE datas[a.name] = NULL
    <3>1. PICK o \in Ids :
            /\ Fresh(o)
            /\ var' = [var EXCEPT ![o] = [name |-> a.name, type |-> a.type]]
            /\ datas' = [datas EXCEPT ![a.name] = o]
            /\ handle' = [handle EXCEPT ![c] = [ptr |-> o, name |-> a.name, type |-> a.type]]
      BY <1>2, <2>3 DEF Create
    <3> QED
      BY <2>1, <2>3, <3>1, RegistryGrows
  <2> QED
    BY <2>2, <2>3
<1>3. ASSUME NEW c \in Callers, NEW a \in Creations, Lookup(c, a.name, a.type)
      PROVE  RegistryInv'
  <2>1. a.name \in Names
    BY ConfigAssumption DEF ConfigAssumption
  <2>2. CASE Found(a.name, a.type) # NULL
    <3>1. /\ datas[a.name] # NULL /\ var[datas[a.name]].type = a.type
          /\ Found(a.name, a.type) = datas[a.name]
      BY <2>2 DEF Found
    <3>2. /\ handle' = [handle EXCEPT ![c] = [ptr |-> datas[a.name], name |-> a.name, type |-> a.type]]
          /\ UNCHANGED <<datas, var>>
      BY <1>3, <2>2, <3>1 DEF Lookup
    <3> QED
      BY <2>1, <3>1, <3>2, RegistryHands
  <2>3. CASE Found(a.name, a.type) = NULL
    <3>1. handle' = [handle EXCEPT ![c] = NULL] /\ UNCHANGED <<datas, var>>
      BY <1>3, <2>3 DEF Lookup
    <3>2. \A d \in Callers : handle'[d] # NULL => handle'[d] = handle[d]
      BY <3>1 DEF RegistryInv
    <3>3. handle' = [d \in Callers |-> handle'[d]]
      BY <3>1 DEF RegistryInv
    <3> QED
      BY <3>1, <3>2, <3>3 DEF RegistryInv, OneVariablePerName
  <2> QED
    BY <2>2, <2>3
<1>4. ASSUME NEW c \in Callers, NEW v, SetValue(c, v) PROVE UNCHANGED registry
  BY <1>4 DEF SetValue, registry
<1>5. ASSUME NEW c \in Callers, NEW l, NEW cb, AddListener(c, l, cb) PROVE UNCHANGED registry
  BY <1>5 DEF AddListener, registry
<1>6. ASSUME NEW c \in Callers, NEW l, RemoveListener(c, l) PROVE UNCHANGED registry
  BY <1>6 DEF RemoveListener, registry
<1>7. ASSUME NEW doc, LoadFromYaml(doc) PROVE UNCHANGED registry
  BY <1>7 DEF LoadFromYaml, registry
<1>8. ASSUME Steps PROVE UNCHANGED registry
  BY <1>8 DEF Steps, ListenerReturns, ListenerThrows, ListenerSets, ListenerAdds,
              ListenerRemoves, SetValueReturns, LoadNext, registry
<1>9. CASE UNCHANGED vars
  BY <1>1, <1>9 DEF vars, registry
<1> QED
  BY <1>1, <1>2, <1>3, <1>4, <1>5, <1>6, <1>7, <1>8, <1>9 DEF Next, Clients

\* However often a name is created or looked up, by whatever callers and in
\* whatever types, every pointer handed out is the one variable of its name,
\* of the type that was asked for (Config::Create, Config::Lookup).
THEOREM OneVariable == Spec => []OneVariablePerName
<1>1. Spec => []RegistryInv
  BY RegistryInitial, RegistryStep, PTL DEF Spec
<1>2. RegistryInv => OneVariablePerName
  BY DEF RegistryInv
<1> QED
  BY <1>1, <1>2, PTL

----------------------------------------------------------------------------
(* The documents.                                                          *)

\* What ListAllYamlMember gives of a node, when it gives f of what is inside.
Pieces(f, n) ==
    [k \in DOMAIN n.entries |->
       LET key == n.entries[k].key
           sub == f[n.entries[k].node]
       IN  IF Valid(key) THEN [m \in DOMAIN sub |-> [sub[m] EXCEPT !.name = key \o @]]
           ELSE <<>>]

Body(f, n) ==
    <<[name |-> <<>>, node |-> n]>> \o
    IF n.kind # "map" THEN <<>> ELSE FlattenSeq(Pieces(f, n))

IsDepth(depth) ==
    /\ depth \in [Nodes -> Nat]
    /\ \A n \in Nodes : n.kind = "map" =>
         \A k \in DOMAIN n.entries : /\ n.entries[k].node \in Nodes
                                     /\ depth[n.entries[k].node] < depth[n]

\* A node is deeper than those inside it.
LEMMA DepthExists == \E depth : IsDepth(depth)
<1>1. PICK depth \in [Nodes -> 0 .. Cardinality(Nodes)] :
         \A n \in Nodes : n.kind = "map" =>
           \A k \in DOMAIN n.entries : depth[n.entries[k].node] < depth[n]
  BY NodesAssumption DEF NodesAssumption
<1>2. Cardinality(Nodes) \in Nat
  BY NodesAssumption, FS_CardinalityType DEF NodesAssumption
<1>3. depth \in [Nodes -> Nat]
  BY <1>2
<1>4. ASSUME NEW n \in Nodes, n.kind = "map", NEW k \in DOMAIN n.entries
      PROVE  n.entries[k].node \in Nodes
  <2>1. n.entries \in Seq([key : Seq(Parts), node : Nodes])
    BY <1>4, NodesAssumption DEF NodesAssumption
  <2>2. n.entries[k] \in [key : Seq(Parts), node : Nodes]
    <3>1. k \in 1 .. Len(n.entries)
      BY <2>1
    <3> QED  BY <2>1, <3>1, ElementOfSeq
  <2> QED  BY <2>2
<1> QED  BY <1>1, <1>3, <1>4 DEF IsDepth

\* Only what is inside a node matters for it.
LEMMA BodyLocal ==
    ASSUME NEW f, NEW h, NEW n \in Nodes,
           n.kind = "map" => \A k \in DOMAIN n.entries : f[n.entries[k].node] = h[n.entries[k].node]
    PROVE  Body(f, n) = Body(h, n)
<1>1. CASE n.kind # "map"
  BY <1>1 DEF Body
<1>2. CASE n.kind = "map"
  <2>1. Pieces(f, n) = Pieces(h, n)
    BY <1>2 DEF Pieces
  <2> QED  BY <2>1 DEF Body
<1> QED  BY <1>1, <1>2

\* The recursion of ListAllYamlMember ends: every node has a list.
LEMMA ListedRecurs == \A n \in Nodes : Listed[n] = Body(Listed, n)
<1>1. PICK depth : IsDepth(depth)
  BY DepthExists
<1> DEFINE Upto(d) == {n \in Nodes : depth[n] < d}
           Lists(f, d) == f = [n \in Upto(d) |-> Body(f, n)]
           B == {d \in Nat : \E f : Lists(f, d)}
<1>2. 0 \in B
  <2>1. Upto(0) = {}
    BY <1>1 DEF IsDepth
  <2>2. Lists([n \in {} |-> 0], 0)
    <3> HIDE DEF Upto
    <3> QED  BY <2>1
  <2> HIDE DEF Lists
  <2> QED  BY <2>2
<1>3. ASSUME NEW d \in Nat, d \in B PROVE d + 1 \in B
  <2>1. PICK f : Lists(f, d)
    BY <1>3
  <2> DEFINE h == [n \in Upto(d + 1) |-> Body(f, n)]
  <2>2. ASSUME NEW n \in Upto(d) PROVE n \in Upto(d + 1) /\ h[n] = f[n]
    <3>1. n \in Upto(d + 1)
      BY <1>1 DEF IsDepth
    <3> HIDE DEF Upto
    <3> QED  BY <2>1, <3>1
  <2>3. ASSUME NEW n \in Upto(d + 1) PROVE Body(f, n) = Body(h, n)
    <3>1. n \in Nodes
      OBVIOUS
    <3>2. ASSUME n.kind = "map", NEW k \in DOMAIN n.entries
          PROVE  n.entries[k].node \in Upto(d)
      BY <1>1, <3>2 DEF IsDepth
    <3> HIDE DEF h, Upto
    <3> QED  BY <2>2, <3>1, <3>2, BodyLocal
  <2>4. h = [n \in Upto(d + 1) |-> h[n]] /\ \A n \in Upto(d + 1) : h[n] = Body(f, n)
    OBVIOUS
  <2>5. Lists(h, d + 1)
    <3> HIDE DEF h, Upto
    <3> QED  BY <2>3, <2>4
  <2> HIDE DEF h, Lists
  <2> QED  BY <2>5
<1>4. PICK b \in Nat : \A n \in Nodes : depth[n] < b
  <2> DEFINE D == {depth[n] : n \in Nodes}
  <2>1. IsFiniteSet(D) /\ D \subseteq Nat
    <3>1. depth \in Surjection(Nodes, D)
      BY <1>1 DEF IsDepth, Surjection
    <3>2. IsFiniteSet(Nodes)
      BY NodesAssumption DEF NodesAssumption
    <3> QED  BY <1>1, <3>1, <3>2, FS_Surjection DEF IsDepth
  <2>2. PICK c \in Nat : \A x \in D : x <= c
    <3> HIDE DEF D
    <3> QED  BY <2>1, Bounded
  <2>3. ASSUME NEW n \in Nodes PROVE depth[n] < c + 1
    <3>1. depth[n] \in D /\ depth[n] \in Nat
      BY <1>1 DEF IsDepth
    <3> HIDE DEF D
    <3>2. depth[n] <= c
      BY <2>2, <3>1
    <3> QED  BY <3>1, <3>2
  <2>4. c + 1 \in Nat
    OBVIOUS
  <2> QED  BY <2>3, <2>4
<1>5. b \in B
  <2> HIDE DEF B
  <2> QED  BY <1>2, <1>3, Induction
<1>6. Upto(b) = Nodes
  BY <1>4
<1>7. PICK f : f = [n \in Nodes |-> Body(f, n)]
  BY <1>5, <1>6
<1>8. Listed = CHOOSE g : g = [n \in Nodes |-> Body(g, n)]
  BY DEF Listed, Body, Pieces
<1>9. Listed = [n \in Nodes |-> Body(Listed, n)]
  BY <1>7, <1>8
<1> QED  BY <1>9

\* What LoadFromYaml's list is made of.
Members == [name : Seq(Parts), node : Nodes]

\* ListAllYamlMember lists names and nodes.
LEMMA ListedType == \A n \in Nodes : Listed[n] \in Seq(Members)
<1>1. PICK depth : IsDepth(depth)
  BY DepthExists
<1> DEFINE B == {d \in Nat : \A n \in Nodes : depth[n] < d => Listed[n] \in Seq(Members)}
<1>2. 0 \in B
  BY <1>1 DEF IsDepth
<1>3. ASSUME NEW d \in Nat, d \in B PROVE d + 1 \in B
  <2> SUFFICES ASSUME NEW n \in Nodes, depth[n] < d + 1 PROVE Listed[n] \in Seq(Members)
    OBVIOUS
  <2>1. Listed[n] = Body(Listed, n)
    BY ListedRecurs
  <2>2. <<[name |-> <<>>, node |-> n]>> \in Seq(Members)
    <3>1. [name |-> <<>>, node |-> n] \in Members
      BY DEF Members
    <3> QED  BY <3>1
  <2>3. CASE n.kind # "map"
    <3>1. Body(Listed, n) = <<[name |-> <<>>, node |-> n]>> \o <<>>
      BY <2>3 DEF Body
    <3>2. <<>> \in Seq(Members)
      OBVIOUS
    <3> QED  BY <2>1, <2>2, <3>1, <3>2, ConcatProperties
  <2>4. CASE n.kind = "map"
    <3>1. n.entries \in Seq([key : Seq(Parts), node : Nodes])
      BY <2>4, NodesAssumption DEF NodesAssumption
    <3>2. DOMAIN n.entries = 1 .. Len(n.entries) /\ Len(n.entries) \in Nat
      BY <3>1
    <3>3. ASSUME NEW k \in 1 .. Len(n.entries)
          PROVE  Pieces(Listed, n)[k] \in Seq(Members)
      <4> DEFINE key == n.entries[k].key
                 sub == Listed[n.entries[k].node]
      <4>1. n.entries[k] \in [key : Seq(Parts), node : Nodes]
        BY <3>1, <3>2, ElementOfSeq
      <4>2. key \in Seq(Parts)
        BY <4>1
      <4>3. sub \in Seq(Members)
        BY <1>1, <1>3, <2>4, <3>2 DEF IsDepth
      <4>4. [m \in DOMAIN sub |-> [sub[m] EXCEPT !.name = key \o @]] \in Seq(Members)
        <5> HIDE DEF key, sub
        <5>1. DOMAIN sub = 1 .. Len(sub) /\ Len(sub) \in Nat
          BY <4>3
        <5>2. ASSUME NEW m \in 1 .. Len(sub)
              PROVE  [sub[m] EXCEPT !.name = key \o @] \in Members
          <6>1. sub[m] \in Members
            BY <4>3, <5>1, <5>2, ElementOfSeq
          <6>2. key \o sub[m].name \in Seq(Parts)
            BY <4>2, <6>1, ConcatProperties DEF Members
          <6> QED  BY <6>1, <6>2 DEF Members
        <5> QED  BY <5>1, <5>2, SMTT(30)
      <4>5. Pieces(Listed, n)[k] =
              IF Valid(key) THEN [m \in DOMAIN sub |-> [sub[m] EXCEPT !.name = key \o @]] ELSE <<>>
        BY <3>2 DEF Pieces
      <4> HIDE DEF key, sub
      <4> QED  BY <4>4, <4>5
    <3>4. Pieces(Listed, n) \in Seq(Seq(Members))
      <4>1. Pieces(Listed, n) = [k \in 1 .. Len(n.entries) |-> Pieces(Listed, n)[k]]
        BY <3>2 DEF Pieces
      <4> QED  BY <3>2, <3>3, <4>1
    <3>5. FlattenSeq(Pieces(Listed, n)) \in Seq(Members)
      BY <3>4, FlattenType
    <3>6. Body(Listed, n) = <<[name |-> <<>>, node |-> n]>> \o FlattenSeq(Pieces(Listed, n))
      BY <2>4 DEF Body
    <3> QED  BY <2>1, <2>2, <3>5, <3>6, ConcatProperties
  <2> QED  BY <2>3, <2>4
<1>4. \A n \in Nodes : depth[n] \in Nat /\ depth[n] + 1 \in Nat /\ depth[n] < depth[n] + 1
  BY <1>1 DEF IsDepth
<1>5. Nat \subseteq B
  <2> HIDE DEF B
  <2> QED  BY <1>2, <1>3, Induction
<1> QED  BY <1>4, <1>5

----------------------------------------------------------------------------
(* What the state is made of.                                              *)

\* A setValue in progress.
Frames == [var : Ids, new : AllValues, old : AllValues, at : Nat, caught : BOOLEAN]

VariablesTyped ==
    /\ m_value = [o \in Ids |-> m_value[o]]
    /\ \A o \in Ids : var[o] = NULL <=> m_value[o] = NULL
    /\ \A o \in Ids : var[o] # NULL =>
         /\ var[o].type \in Types
         /\ IsValue(var[o].type, m_value[o])
         /\ var[o].name \in Names /\ datas[var[o].name] = o

ListenersTyped ==
    /\ m_cbs = [o \in Ids |-> m_cbs[o]]
    /\ heard = [o \in Ids |-> heard[o]]
    /\ \A o \in Ids :
         /\ DOMAIN m_cbs[o] \subseteq Listeners
         /\ DOMAIN heard[o] = DOMAIN m_cbs[o]
         /\ var[o] = NULL => DOMAIN m_cbs[o] = {}
         /\ \A l \in DOMAIN m_cbs[o] : CallbackOK(m_cbs[o][l])

FramesTyped(s) ==
    /\ s \in Seq(Frames) /\ Len(s) <= MaxDepth
    /\ \A k \in 1 .. Len(s) : var[s[k].var] # NULL /\ s[k].new # s[k].old

ConfigTypes ==
    /\ RegistryInv
    /\ VariablesTyped
    /\ ListenersTyped
    /\ FramesTyped(stack)
    /\ disturbed \in [Ids -> Nat]
    /\ members \in Seq(Members)
    /\ undefined \in BOOLEAN

\* The id no listener has is a number.
LEMMA UndisturbedType == Undisturbed \in Nat /\ \A l \in Listeners : l <= Undisturbed
<1>1. Listeners \cup {0} \subseteq Nat /\ IsFiniteSet(Listeners \cup {0}) /\ Listeners \cup {0} # {}
  BY ConfigAssumption, FS_AddElement DEF ConfigAssumption
<1>2. /\ Max(Listeners \cup {0}) \in Listeners \cup {0}
      /\ \A l \in Listeners \cup {0} : l <= Max(Listeners \cup {0})
  BY <1>1, Largest
<1>3. \A x \in Listeners \cup {0} : x \in Nat
  BY <1>1
<1> DEFINE m == Max(Listeners \cup {0})
<1> HIDE DEF m
<1>4. m \in Nat /\ \A l \in Listeners : l \in Nat /\ l <= m
  BY <1>2, <1>3 DEF m
<1>5. m + 1 \in Nat /\ \A l \in Listeners : l <= m + 1
  BY <1>4
<1> QED  BY <1>5 DEF m, Undisturbed

\* Nothing is there at first.
LEMMA TypesInitial == Init => ConfigTypes
<1> SUFFICES ASSUME Init PROVE ConfigTypes
  OBVIOUS
<1>1. RegistryInv
  BY RegistryInitial
<1>2. VariablesTyped
  BY DEF Init, VariablesTyped
<1>3. ListenersTyped
  <2>1. \A o \in Ids : m_cbs[o] = <<>> /\ heard[o] = <<>>
    BY DEF Init
  <2>3. m_cbs = [o \in Ids |-> m_cbs[o]] /\ heard = [o \in Ids |-> heard[o]]
    BY DEF Init
  <2>4. DOMAIN <<>> = {}
    OBVIOUS
  <2> QED  BY <2>1, <2>3, <2>4 DEF ListenersTyped
<1>4. FramesTyped(stack)
  <2>1. <<>> \in Seq(Frames) /\ Len(<<>>) = 0
    OBVIOUS
  <2> QED  BY <2>1, ConfigAssumption DEF Init, FramesTyped, ConfigAssumption
<1>5. members \in Seq(Members) /\ undefined \in BOOLEAN
  <2>1. <<>> \in Seq(Members)
    OBVIOUS
  <2> QED  BY <2>1 DEF Init
<1>6. disturbed \in [Ids -> Nat]
  BY UndisturbedType DEF Init
<1> QED  BY <1>1, <1>2, <1>3, <1>4, <1>5, <1>6 DEF ConfigTypes

\* A variable someone holds is registered, under the name and type asked for.
LEMMA HandleLive ==
    ASSUME ConfigTypes, NEW c \in Callers, handle[c] # NULL
    PROVE  /\ handle[c].ptr \in Ids /\ var[handle[c].ptr] # NULL
           /\ var[handle[c].ptr].type = handle[c].type
<1>1. handle[c].name \in Names /\ handle[c].ptr \in Ids /\ datas[handle[c].name] = handle[c].ptr
  BY DEF ConfigTypes, RegistryInv, OneVariablePerName
<1>2. var[handle[c].ptr] = [name |-> handle[c].name, type |-> handle[c].type]
  BY DEF ConfigTypes, RegistryInv, OneVariablePerName
<1>3. datas[handle[c].name] # NULL
  BY <1>1, ConfigAssumption DEF ConfigAssumption
<1>4. var[datas[handle[c].name]] # NULL
  BY <1>1, <1>3 DEF ConfigTypes, RegistryInv
<1> QED  BY <1>1, <1>2, <1>4

\* So is what a name leads to.
LEMMA FoundLive ==
    ASSUME ConfigTypes, NEW name, NEW type, Found(name, type) # NULL, name \in Names
    PROVE  /\ Found(name, type) \in Ids /\ var[Found(name, type)] # NULL
           /\ var[Found(name, type)].type = type
           /\ Found(name, type) = datas[name]
BY DEF Found, ConfigTypes, RegistryInv

----------------------------------------------------------------------------

\* The call the loop of which is at work, and the listener it comes to.
LEMMA LoopFacts ==
    ASSUME ConfigTypes, stack # <<>>
    PROVE  /\ Len(stack) \in Nat /\ Len(stack) \in 1 .. Len(stack)
           /\ Top = stack[Len(stack)] /\ Top \in Frames
           /\ var[Top.var] # NULL
           /\ After(Top.at) # {} =>
                 /\ Called \in Listeners /\ Called \in DOMAIN m_cbs[Top.var]
                 /\ Called \in Nat /\ Called > Top.at
                 /\ \A l \in DOMAIN m_cbs[Top.var] : l > Top.at => Called <= l
                 /\ CallbackOK(Callback)
<1>1. stack \in Seq(Frames)
  BY DEF ConfigTypes, FramesTyped
<1>2. Len(stack) \in Nat /\ Len(stack) # 0
  BY <1>1
<1>3. Len(stack) \in 1 .. Len(stack)
  BY <1>2
<1>4. Top = stack[Len(stack)]
  BY DEF Top, Last
<1>5. Top \in Frames
  BY <1>1, <1>3, <1>4, ElementOfSeq
<1>6. var[Top.var] # NULL
  BY <1>3, <1>4 DEF ConfigTypes, FramesTyped
<1>7. ASSUME After(Top.at) # {}
      PROVE  /\ Called \in Listeners /\ Called \in DOMAIN m_cbs[Top.var]
             /\ Called \in Nat /\ Called > Top.at
             /\ \A l \in DOMAIN m_cbs[Top.var] : l > Top.at => Called <= l
             /\ CallbackOK(Callback)
  <2>1. Top.var \in Ids
    BY <1>5 DEF Frames
  <2>2. /\ DOMAIN m_cbs[Top.var] \subseteq Listeners
        /\ \A l \in DOMAIN m_cbs[Top.var] : CallbackOK(m_cbs[Top.var][l])
    BY <2>1 DEF ConfigTypes, ListenersTyped
  <2>3. After(Top.at) \subseteq DOMAIN m_cbs[Top.var] /\ \A l \in After(Top.at) : l > Top.at
    BY DEF After
  <2>4. After(Top.at) \subseteq Nat
    BY <2>2, <2>3, ConfigAssumption DEF ConfigAssumption
  <2>5. Called \in After(Top.at) /\ \A l \in After(Top.at) : Called <= l
    BY <1>7, <2>4, Smallest DEF Called
  <2>6. \A l \in DOMAIN m_cbs[Top.var] : l > Top.at => l \in After(Top.at)
    BY DEF After
  <2> QED  BY <2>2, <2>3, <2>4, <2>5, <2>6 DEF Callback
<1> QED  BY <1>2, <1>3, <1>4, <1>5, <1>6, <1>7

\* The loop has moved on to the listener it calls; the rest is as it was.
LEMMA AdvancedFacts ==
    ASSUME ConfigTypes, stack # <<>>, After(Top.at) # {}
    PROVE  /\ FramesTyped(Advanced)
           /\ Len(Advanced) = Len(stack)
           /\ \A k \in 1 .. Len(stack) :
                /\ Advanced[k].var = stack[k].var /\ Advanced[k].new = stack[k].new
                /\ Advanced[k].caught = stack[k].caught
                /\ Advanced[k].at = IF k = Len(stack) THEN Called ELSE stack[k].at
<1> DEFINE n == Len(stack)
<1>1. /\ n \in Nat /\ n \in 1 .. n /\ stack \in Seq(Frames) /\ n <= MaxDepth
      /\ stack[n] \in Frames /\ Called \in Nat
  BY LoopFacts DEF ConfigTypes, FramesTyped
<1>2. [stack[n] EXCEPT !.at = Called] \in Frames
  BY <1>1 DEF Frames
<1>3. Advanced = [stack EXCEPT ![n] = [stack[n] EXCEPT !.at = Called]]
  BY DEF Advanced
<1>4. Advanced \in Seq(Frames) /\ Len(Advanced) = n
  BY <1>1, <1>2, <1>3
<1>5. \A k \in 1 .. n : Advanced[k] = IF k = n THEN [stack[n] EXCEPT !.at = Called] ELSE stack[k]
  BY <1>1, <1>3
<1>6. \A k \in 1 .. n : stack[k] \in Frames
  BY <1>1, ElementOfSeq
<1>7. \A k \in 1 .. n :
        /\ Advanced[k].var = stack[k].var /\ Advanced[k].new = stack[k].new
        /\ Advanced[k].old = stack[k].old /\ Advanced[k].caught = stack[k].caught
        /\ Advanced[k].at = IF k = n THEN Called ELSE stack[k].at
  BY <1>1, <1>5, <1>6 DEF Frames
<1>8. \A k \in 1 .. n : var[stack[k].var] # NULL /\ stack[k].new # stack[k].old
  BY DEF ConfigTypes, FramesTyped
<1> QED  BY <1>1, <1>4, <1>7, <1>8 DEF FramesTyped

\* What Lower gives: at most each of the bounds, and at most what it was.
LEMMA LowerFacts ==
    ASSUME NEW d \in [Ids -> Nat], NEW o \in Ids, NEW ats, ats \subseteq Nat
    PROVE  /\ Lower(d, o, ats) \in [Ids -> Nat]
           /\ \A q \in Ids \ {o} : Lower(d, o, ats)[q] = d[q]
           /\ Lower(d, o, ats)[o] <= d[o]
           /\ \A a \in ats : Lower(d, o, ats)[o] <= a
<1>1. {d[o]} \cup ats \subseteq Nat /\ {d[o]} \cup ats # {}
  OBVIOUS
<1> DEFINE m == Min({d[o]} \cup ats)
<1>2. m \in {d[o]} \cup ats /\ \A a \in {d[o]} \cup ats : m <= a
  BY <1>1, Smallest
<1>3. Lower(d, o, ats) = [d EXCEPT ![o] = m]
  BY DEF Lower
<1>4. m \in Nat
  BY <1>1, <1>2
<1> HIDE DEF m
<1> QED  BY <1>2, <1>3, <1>4

\* The places of the calls s on variable o.
Ats(s, o) == {s[k].at : k \in {k \in DOMAIN s : s[k].var = o}}

\* They are numbers.
LEMMA AtsType ==
    ASSUME NEW s \in Seq(Frames), NEW o
    PROVE  /\ Ats(s, o) \subseteq Nat
           /\ \A k \in 1 .. Len(s) : s[k].var = o => s[k].at \in Ats(s, o)
<1>1. DOMAIN s = 1 .. Len(s) /\ \A k \in 1 .. Len(s) : s[k] \in Frames
  BY ElementOfSeq
<1> QED  BY <1>1 DEF Ats, Frames

----------------------------------------------------------------------------
(* What the listeners know.                                                *)

\* A call hands out the value in force, unless the loop of its variable has
\* come past the listener that led to another one.
FramesInformed(s) ==
    \A k \in 1 .. Len(s) : \/ s[k].new = m_value[s[k].var]
                           \/ disturbed[s[k].var] <= s[k].at

\* A listener knows the value in force, or a call of its variable has yet to
\* come to it; those above the one that threw or set are out of the count.
ValuesKnown(s, h) ==
    \A o \in Ids : \A l \in DOMAIN m_cbs[o] : l <= disturbed[o] =>
        \/ h[o][l] = m_value[o]
        \/ \E k \in 1 .. Len(s) : s[k].var = o /\ s[k].at < l

Informed == FramesInformed(stack) /\ ValuesKnown(stack, heard)

\* The listener that is called hears the value of the call.
LEMMA HearsFacts ==
    ASSUME ConfigTypes, stack # <<>>, After(Top.at) # {}
    PROVE  /\ Hears = [o \in Ids |-> Hears[o]]
           /\ \A o \in Ids : /\ DOMAIN Hears[o] = DOMAIN m_cbs[o]
                             /\ \A l \in DOMAIN m_cbs[o] :
                                  Hears[o][l] = IF o = Top.var /\ l = Called THEN Top.new
                                                ELSE heard[o][l]
<1>1. Top.var \in Ids /\ Called \in DOMAIN m_cbs[Top.var]
  BY LoopFacts DEF Frames
<1>2. heard = [o \in Ids |-> heard[o]] /\ \A o \in Ids : DOMAIN heard[o] = DOMAIN m_cbs[o]
  BY DEF ConfigTypes, ListenersTyped
<1>3. Hears = [heard EXCEPT ![Top.var] = [heard[Top.var] EXCEPT ![Called] = Top.new]]
  BY DEF Hears
<1> DEFINE f == [heard[Top.var] EXCEPT ![Called] = Top.new]
<1>4. /\ DOMAIN f = DOMAIN m_cbs[Top.var]
      /\ \A l \in DOMAIN m_cbs[Top.var] : f[l] = IF l = Called THEN Top.new ELSE heard[Top.var][l]
  BY <1>1, <1>2
<1> HIDE DEF f
<1>5. \A o \in Ids : Hears[o] = IF o = Top.var THEN f ELSE heard[o]
  BY <1>1, <1>2, <1>3 DEF f
<1>6. Hears = [o \in Ids |-> Hears[o]]
  BY <1>2, <1>3
<1> QED  BY <1>2, <1>4, <1>5, <1>6

\* One round of a loop keeps everyone informed.
LEMMA RoundInformed ==
    ASSUME ConfigTypes, Informed, stack # <<>>, After(Top.at) # {}
    PROVE  FramesInformed(Advanced) /\ ValuesKnown(Advanced, Hears)
<1> DEFINE n == Len(stack)
<1>1. /\ n \in 1 .. n /\ Top = stack[n] /\ Top \in Frames
      /\ Called \in Nat /\ Called > Top.at
      /\ \A l \in DOMAIN m_cbs[Top.var] : l > Top.at => Called <= l
  BY LoopFacts
<1>2. /\ Len(Advanced) = n
      /\ \A k \in 1 .. n :
           /\ Advanced[k].var = stack[k].var /\ Advanced[k].new = stack[k].new
           /\ Advanced[k].at = IF k = n THEN Called ELSE stack[k].at
  BY AdvancedFacts
<1>3. \A k \in 1 .. n : stack[k] \in Frames
  BY ElementOfSeq DEF ConfigTypes, FramesTyped
<1>4. disturbed \in [Ids -> Nat]
  BY DEF ConfigTypes
<1> HIDE DEF n
<1>5. FramesInformed(Advanced)
  <2> SUFFICES ASSUME NEW k \in 1 .. n
               PROVE  \/ Advanced[k].new = m_value[Advanced[k].var]
                      \/ disturbed[Advanced[k].var] <= Advanced[k].at
    BY <1>2 DEF FramesInformed
  <2>1. stack[k].new = m_value[stack[k].var] \/ disturbed[stack[k].var] <= stack[k].at
    BY DEF Informed, FramesInformed, n
  <2>2. stack[k].at <= Advanced[k].at
    BY <1>1, <1>2, <1>3 DEF Frames
  <2>3. stack[k].at \in Nat /\ Advanced[k].at \in Nat /\ disturbed[stack[k].var] \in Nat
    BY <1>1, <1>2, <1>3, <1>4 DEF Frames
  <2> QED  BY <1>2, <2>1, <2>2, <2>3
<1>6. ValuesKnown(Advanced, Hears)
  <2> SUFFICES ASSUME NEW o \in Ids, NEW l \in DOMAIN m_cbs[o], l <= disturbed[o]
               PROVE  \/ Hears[o][l] = m_value[o]
                      \/ \E k \in 1 .. n : Advanced[k].var = o /\ Advanced[k].at < l
    BY <1>2 DEF ValuesKnown
  <2>1. Hears[o][l] = IF o = Top.var /\ l = Called THEN Top.new ELSE heard[o][l]
    BY HearsFacts
  <2>2. l \in Nat
    BY ConfigAssumption DEF ConfigAssumption, ConfigTypes, ListenersTyped
  <2>3. \/ heard[o][l] = m_value[o]
        \/ \E k \in 1 .. n : stack[k].var = o /\ stack[k].at < l
    BY DEF Informed, ValuesKnown, n
  <2>4. CASE o = Top.var /\ l = Called
    <3>1. Top.new = m_value[o] \/ disturbed[o] <= Top.at
      BY <1>1, <2>4 DEF Informed, FramesInformed, n
    <3>2. Top.at \in Nat /\ disturbed[o] \in Nat
      BY <1>1, <1>4 DEF Frames
    <3>3. ~(disturbed[o] <= Top.at)
      BY <1>1, <2>2, <2>4, <3>2
    <3> QED  BY <2>1, <2>4, <3>1, <3>3
  <2>5. CASE ~(o = Top.var /\ l = Called)
    <3>1. CASE heard[o][l] = m_value[o]
      BY <2>1, <2>5, <3>1
    <3>2. CASE \E k \in 1 .. n : stack[k].var = o /\ stack[k].at < l
      <4>1. PICK k \in 1 .. n : stack[k].var = o /\ stack[k].at < l
        BY <3>2
      <4>2. CASE k # n
        BY <1>2, <4>1, <4>2
      <4>3. CASE k = n
        <5>1. o = Top.var /\ l > Top.at
          BY <1>1, <1>3, <2>2, <4>1, <4>3 DEF Frames
        <5>2. Called <= l /\ Called # l
          BY <1>1, <2>5, <5>1
        <5>3. Called < l
          BY <1>1, <2>2, <5>2
        <5> QED  BY <1>2, <4>1, <4>3, <5>3
      <4> QED  BY <4>2, <4>3
    <3> QED  BY <2>3, <3>1, <3>2
  <2> QED  BY <2>4, <2>5
<1> QED  BY <1>5, <1>6

----------------------------------------------------------------------------
(* setValue.                                                               *)

\* A setValue keeps the variables, the calls in progress and what the
\* listeners will know in order.
LEMMA SetValueStep ==
    ASSUME ConfigTypes, NEW s, NEW h, FramesTyped(s), Len(s) < MaxDepth,
           FramesInformed(s), ValuesKnown(s, h),
           NEW o \in Ids, var[o] # NULL, NEW v, IsValue(var[o].type, v), v # NULL,
           NEW caught \in BOOLEAN, SetValueOn(s, o, v, caught),
           UNCHANGED <<datas, var, m_cbs>>, heard' = h
    PROVE  /\ VariablesTyped' /\ (disturbed \in [Ids -> Nat])'
           /\ FramesTyped(stack)' /\ Informed'
<1>0. /\ disturbed \in [Ids -> Nat] /\ s \in Seq(Frames)
      /\ m_value = [q \in Ids |-> m_value[q]]
  BY DEF ConfigTypes, FramesTyped, VariablesTyped
<1>1. CASE m_value[o] = v
  <2>1. stack' = s /\ UNCHANGED <<m_value, disturbed>>
    BY <1>1 DEF SetValueOn
  <2>2. VariablesTyped'
    BY <2>1 DEF ConfigTypes, VariablesTyped
  <2>3. FramesTyped(stack)'
    BY <2>1 DEF FramesTyped
  <2>4. Informed'
    BY <2>1 DEF Informed, FramesInformed, ValuesKnown
  <2> QED  BY <1>0, <2>1, <2>2, <2>3, <2>4
<1>2. CASE m_value[o] # v
  <2> DEFINE f == [var |-> o, new |-> v, old |-> m_value[o], at |-> 0, caught |-> caught]
  <2>1. /\ m_value' = [m_value EXCEPT ![o] = v]
        /\ stack' = Append(s, f)
        /\ disturbed' = Lower(disturbed, o, Ats(s, o))
    BY <1>2 DEF SetValueOn, Ats
  <2>2. f \in Frames
    <3>1. IsValue(var[o].type, m_value[o]) /\ var[o].type \in Types
      BY DEF ConfigTypes, VariablesTyped
    <3>2. v \in AllValues /\ m_value[o] \in AllValues
      BY <3>1, ValuesListed
    <3> QED  BY <3>2 DEF Frames
  <2>3. Ats(s, o) \subseteq Nat /\ \A k \in 1 .. Len(s) : s[k].var = o => s[k].at \in Ats(s, o)
    BY <1>0, AtsType
  <2>4. /\ disturbed' \in [Ids -> Nat]
        /\ \A q \in Ids \ {o} : disturbed'[q] = disturbed[q]
        /\ disturbed'[o] <= disturbed[o]
        /\ \A a \in Ats(s, o) : disturbed'[o] <= a
    BY <1>0, <2>1, <2>3, LowerFacts, SMTT(30)
  <2>5. /\ stack' \in Seq(Frames) /\ Len(stack') = Len(s) + 1 /\ Len(s) \in Nat
        /\ stack'[Len(s) + 1] = f /\ \A k \in 1 .. Len(s) : stack'[k] = s[k]
    <3> HIDE DEF f
    <3> QED  BY <1>0, <2>1, <2>2, AppendProperties, LenProperties
  <2>6. m_value'[o] = v /\ \A q \in Ids \ {o} : m_value'[q] = m_value[q]
    BY <1>0, <2>1
  <2>7. \A k \in 1 .. Len(s) : s[k] \in Frames
    BY <1>0, ElementOfSeq
  <2>8. VariablesTyped'
    <3>1. m_value' = [q \in Ids |-> m_value'[q]]
      BY <1>0, <2>1
    <3>2. \A q \in Ids : var'[q] = NULL <=> m_value'[q] = NULL
      BY <2>6 DEF ConfigTypes, VariablesTyped
    <3>3. \A q \in Ids : var'[q] # NULL =>
            /\ var'[q].type \in Types
            /\ IsValue(var'[q].type, m_value'[q])
            /\ var'[q].name \in Names /\ datas'[var'[q].name] = q
      BY <2>6 DEF ConfigTypes, VariablesTyped
    <3> QED  BY <3>1, <3>2, <3>3 DEF VariablesTyped
  <2>9. FramesTyped(stack)'
    <3>1. \A k \in 1 .. Len(stack') : var[stack'[k].var] # NULL /\ stack'[k].new # stack'[k].old
      <4> TAKE k \in 1 .. Len(stack')
      <4>1. CASE k = Len(s) + 1
        BY <1>2, <2>5, <4>1
      <4>2. CASE k # Len(s) + 1
        BY <2>5, <4>2 DEF FramesTyped
      <4> QED  BY <4>1, <4>2
    <3>2. Len(stack') <= MaxDepth
      BY <2>5, ConfigAssumption DEF ConfigAssumption
    <3> QED  BY <2>5, <3>1, <3>2 DEF FramesTyped
  <2>10. FramesInformed(stack)'
    <3> SUFFICES ASSUME NEW k \in 1 .. Len(stack')
                 PROVE  \/ stack'[k].new = m_value'[stack'[k].var]
                        \/ disturbed'[stack'[k].var] <= stack'[k].at
      BY DEF FramesInformed
    <3>1. CASE k = Len(s) + 1
      BY <2>5, <2>6, <3>1
    <3>2. CASE k # Len(s) + 1
      <4>1. k \in 1 .. Len(s) /\ stack'[k] = s[k] /\ s[k].var \in Ids
        BY <2>5, <2>7, <3>2 DEF Frames
      <4>2. s[k].new = m_value[s[k].var] \/ disturbed[s[k].var] <= s[k].at
        BY <4>1 DEF FramesInformed
      <4>3. CASE s[k].var = o
        BY <2>3, <2>4, <4>1, <4>3
      <4>4. CASE s[k].var # o
        BY <2>4, <2>6, <4>1, <4>2, <4>4
      <4> QED  BY <4>3, <4>4
    <3> QED  BY <3>1, <3>2
  <2>11. ValuesKnown(stack, heard)'
    <3> SUFFICES ASSUME NEW q \in Ids, NEW l \in DOMAIN m_cbs[q], l <= disturbed'[q]
                 PROVE  \/ heard'[q][l] = m_value'[q]
                        \/ \E k \in 1 .. Len(stack') : stack'[k].var = q /\ stack'[k].at < l
      BY DEF ValuesKnown
    <3>1. CASE q = o
      <4>1. l \in Nat /\ 0 < l
        BY ConfigAssumption DEF ConfigAssumption, ConfigTypes, ListenersTyped
      <4>2. Len(s) + 1 \in 1 .. Len(stack')
        BY <2>5
      <4> QED  BY <2>5, <3>1, <4>1, <4>2
    <3>2. CASE q # o
      <4>1. h[q][l] = m_value[q] \/ \E k \in 1 .. Len(s) : s[k].var = q /\ s[k].at < l
        BY <2>4, <3>2 DEF ValuesKnown
      <4>2. \A k \in 1 .. Len(s) : k \in 1 .. Len(stack') /\ stack'[k] = s[k]
        BY <2>5
      <4> QED  BY <2>6, <3>2, <4>1, <4>2
    <3> QED  BY <3>1, <3>2
  <2> QED  BY <2>4, <2>8, <2>9, <2>10, <2>11 DEF Informed
<1> QED  BY <1>1, <1>2

\* fromString: nothing, or a setValue.
LEMMA FromStringStep ==
    ASSUME ConfigTypes, NEW s, NEW h, FramesTyped(s), Len(s) < MaxDepth,
           FramesInformed(s), ValuesKnown(s, h),
           NEW o \in Ids, var[o] # NULL, NEW node \in Nodes, FromStringOn(s, o, node),
           UNCHANGED <<datas, var, m_cbs>>, heard' = h
    PROVE  /\ VariablesTyped' /\ (disturbed \in [Ids -> Nat])'
           /\ FramesTyped(stack)' /\ Informed'
<1> DEFINE v == FromStr(var[o].type, node)
<1>1. var[o].type \in Types
  BY DEF ConfigTypes, VariablesTyped
<1>2. v # NULL /\ (v = THROWS \/ IsValue(var[o].type, v))
  BY <1>1, FromStrIsValue, ConfigAssumption DEF ConfigAssumption
<1>3. CASE v = THROWS
  <2>1. stack' = s /\ UNCHANGED <<m_value, disturbed>>
    BY <1>3 DEF FromStringOn
  <2>2. VariablesTyped'
    BY <2>1 DEF ConfigTypes, VariablesTyped
  <2>3. FramesTyped(stack)'
    BY <2>1 DEF FramesTyped
  <2>4. Informed'
    BY <2>1 DEF Informed, FramesInformed, ValuesKnown
  <2>5. disturbed' \in [Ids -> Nat]
    BY <2>1 DEF ConfigTypes
  <2> QED  BY <2>2, <2>3, <2>4, <2>5
<1>4. CASE v # THROWS
  <2>1. SetValueOn(s, o, v, TRUE)
    BY <1>4 DEF FromStringOn
  <2> HIDE DEF v
  <2> QED  BY <1>2, <1>4, <2>1, SetValueStep
<1> QED  BY <1>3, <1>4

----------------------------------------------------------------------------
(* The listeners of a variable.                                            *)

\* A listener is added, or replaced, by someone who knows the value.
LEMMA ListenerAdded ==
    ASSUME ConfigTypes, NEW s, NEW h, FramesInformed(s), ValuesKnown(s, h),
           h = [o \in Ids |-> h[o]], \A o \in Ids : DOMAIN h[o] = DOMAIN m_cbs[o],
           NEW o \in Ids, var[o] # NULL, NEW l \in Listeners, NEW cb, CallbackOK(cb),
           m_cbs' = [m_cbs EXCEPT ![o] = With(m_cbs[o], l, cb)],
           heard' = [h EXCEPT ![o] = With(h[o], l, m_value[o])],
           stack' = s, UNCHANGED <<var, m_value, disturbed>>
    PROVE  ListenersTyped' /\ Informed'
<1> DEFINE f == With(m_cbs[o], l, cb)
           g == With(h[o], l, m_value[o])
<1>1. /\ DOMAIN f = {l} \cup DOMAIN m_cbs[o] /\ f[l] = cb
      /\ \A k \in DOMAIN m_cbs[o] \ {l} : f[k] = m_cbs[o][k]
  BY DEF ConfigTypes, ListenersTyped, With
<1>2. /\ DOMAIN g = {l} \cup DOMAIN m_cbs[o] /\ g[l] = m_value[o]
      /\ \A k \in DOMAIN m_cbs[o] \ {l} : g[k] = h[o][k]
  BY DEF ConfigTypes, ListenersTyped, With
<1> HIDE DEF f, g
<1>3. /\ m_cbs' = [q \in Ids |-> m_cbs'[q]] /\ m_cbs'[o] = f
      /\ \A q \in Ids \ {o} : m_cbs'[q] = m_cbs[q]
  BY DEF ConfigTypes, ListenersTyped, f
<1>4. /\ heard' = [q \in Ids |-> heard'[q]] /\ heard'[o] = g
      /\ \A q \in Ids \ {o} : heard'[q] = h[q]
  BY DEF g
<1>5. ListenersTyped'
  <2> SUFFICES ASSUME NEW q \in Ids
               PROVE  /\ DOMAIN m_cbs'[q] \subseteq Listeners
                      /\ DOMAIN heard'[q] = DOMAIN m_cbs'[q]
                      /\ var'[q] = NULL => DOMAIN m_cbs'[q] = {}
                      /\ \A k \in DOMAIN m_cbs'[q] : CallbackOK(m_cbs'[q][k])
    BY <1>3, <1>4 DEF ListenersTyped
  <2>1. CASE q = o
    BY <1>1, <1>2, <1>3, <1>4, <2>1 DEF ConfigTypes, ListenersTyped
  <2>2. CASE q # o
    BY <1>3, <1>4, <2>2 DEF ConfigTypes, ListenersTyped
  <2> QED  BY <2>1, <2>2
<1>6. FramesInformed(stack)'
  BY DEF FramesInformed
<1>7. ValuesKnown(stack, heard)'
  <2> SUFFICES ASSUME NEW q \in Ids, NEW k \in DOMAIN m_cbs'[q], k <= disturbed[q]
               PROVE  \/ heard'[q][k] = m_value[q]
                      \/ \E i \in 1 .. Len(s) : s[i].var = q /\ s[i].at < k
    BY DEF ValuesKnown
  <2>1. CASE q = o /\ k = l
    BY <1>2, <1>4, <2>1
  <2>2. CASE q = o /\ k # l
    <3>1. k \in DOMAIN m_cbs[o] /\ heard'[q][k] = h[o][k]
      BY <1>1, <1>2, <1>3, <1>4, <2>2
    <3> QED  BY <2>2, <3>1 DEF ValuesKnown
  <2>3. CASE q # o
    BY <1>3, <1>4, <2>3 DEF ValuesKnown
  <2> QED  BY <2>1, <2>2, <2>3
<1> QED  BY <1>5, <1>6, <1>7 DEF Informed

\* A listener is removed.
LEMMA ListenerRemoved ==
    ASSUME ConfigTypes, NEW s, NEW h, FramesInformed(s), ValuesKnown(s, h),
           h = [o \in Ids |-> h[o]], \A o \in Ids : DOMAIN h[o] = DOMAIN m_cbs[o],
           NEW o \in Ids, NEW l,
           m_cbs' = [m_cbs EXCEPT ![o] = Without(m_cbs[o], l)],
           heard' = [h EXCEPT ![o] = Without(h[o], l)],
           stack' = s, UNCHANGED <<var, m_value, disturbed>>
    PROVE  ListenersTyped' /\ Informed'
<1> DEFINE f == Without(m_cbs[o], l)
           g == Without(h[o], l)
<1>1. DOMAIN f = DOMAIN m_cbs[o] \ {l} /\ \A k \in DOMAIN f : f[k] = m_cbs[o][k]
  BY DEF Without
<1>2. DOMAIN g = DOMAIN m_cbs[o] \ {l} /\ \A k \in DOMAIN g : g[k] = h[o][k]
  BY DEF Without
<1> HIDE DEF f, g
<1>3. /\ m_cbs' = [q \in Ids |-> m_cbs'[q]] /\ m_cbs'[o] = f
      /\ \A q \in Ids \ {o} : m_cbs'[q] = m_cbs[q]
  BY DEF ConfigTypes, ListenersTyped, f
<1>4. /\ heard' = [q \in Ids |-> heard'[q]] /\ heard'[o] = g
      /\ \A q \in Ids \ {o} : heard'[q] = h[q]
  BY DEF g
<1>5. ListenersTyped'
  <2> SUFFICES ASSUME NEW q \in Ids
               PROVE  /\ DOMAIN m_cbs'[q] \subseteq Listeners
                      /\ DOMAIN heard'[q] = DOMAIN m_cbs'[q]
                      /\ var'[q] = NULL => DOMAIN m_cbs'[q] = {}
                      /\ \A k \in DOMAIN m_cbs'[q] : CallbackOK(m_cbs'[q][k])
    BY <1>3, <1>4 DEF ListenersTyped
  <2>1. CASE q = o
    BY <1>1, <1>2, <1>3, <1>4, <2>1 DEF ConfigTypes, ListenersTyped
  <2>2. CASE q # o
    BY <1>3, <1>4, <2>2 DEF ConfigTypes, ListenersTyped
  <2> QED  BY <2>1, <2>2
<1>6. FramesInformed(stack)'
  BY DEF FramesInformed
<1>7. ValuesKnown(stack, heard)'
  <2> SUFFICES ASSUME NEW q \in Ids, NEW k \in DOMAIN m_cbs'[q], k <= disturbed[q]
               PROVE  \/ heard'[q][k] = m_value[q]
                      \/ \E i \in 1 .. Len(s) : s[i].var = q /\ s[i].at < k
    BY DEF ValuesKnown
  <2>1. CASE q = o
    <3>1. k \in DOMAIN m_cbs[o] /\ heard'[q][k] = h[o][k]
      BY <1>1, <1>2, <1>3, <1>4, <2>1
    <3> QED  BY <2>1, <3>1 DEF ValuesKnown
  <2>2. CASE q # o
    BY <1>3, <1>4, <2>2 DEF ValuesKnown
  <2> QED  BY <2>1, <2>2
<1> QED  BY <1>5, <1>6, <1>7 DEF Informed

----------------------------------------------------------------------------
(* The clients' steps.                                                     *)

ConfigInv == ConfigTypes /\ Informed

\* The variables ConfigInv is about, the registry apart.
values == <<datas, var, m_value, m_cbs, stack, members, undefined, heard, disturbed>>

\* Nothing but pointers and history.
LEMMA QuietStep ==
    ASSUME ConfigInv, RegistryInv', UNCHANGED values
    PROVE  ConfigInv'
<1>1. VariablesTyped' /\ ListenersTyped' /\ FramesTyped(stack)'
  BY DEF ConfigInv, ConfigTypes, VariablesTyped, ListenersTyped, FramesTyped, values
<1>2. Informed'
  BY DEF ConfigInv, Informed, FramesInformed, ValuesKnown, values
<1>3. (disturbed \in [Ids -> Nat])' /\ (members \in Seq(Members))' /\ (undefined \in BOOLEAN)'
  BY DEF ConfigInv, ConfigTypes, values
<1> QED  BY <1>1, <1>2, <1>3 DEF ConfigInv, ConfigTypes

\* Create
LEMMA CreateInv ==
    ASSUME ConfigInv, RegistryInv', NEW c \in Callers, NEW a \in Creations,
           Create(c, a.name, a.type, a.value)
    PROVE  ConfigInv'
<1>1. CASE datas[a.name] # NULL
  <2>1. UNCHANGED values
    BY <1>1 DEF Create, values
  <2> QED  BY <2>1, QuietStep
<1>2. CASE datas[a.name] = NULL
  <2>1. PICK o \in Ids :
          /\ Fresh(o)
          /\ var' = [var EXCEPT ![o] = [name |-> a.name, type |-> a.type]]
          /\ m_value' = [m_value EXCEPT ![o] = a.value]
          /\ datas' = [datas EXCEPT ![a.name] = o]
    BY <1>2 DEF Create
  <2>2. stack = <<>> /\ UNCHANGED <<m_cbs, stack, members, undefined, heard, disturbed>>
    BY DEF Create, Idle
  <2>3. /\ a.name \in Names /\ a.type \in Types /\ IsValue(a.type, a.value) /\ a.value # NULL
        /\ [name |-> a.name, type |-> a.type] # NULL
    BY ConfigAssumption DEF ConfigAssumption
  <2>4. /\ m_value = [q \in Ids |-> m_value[q]] /\ var = [q \in Ids |-> var[q]]
        /\ datas \in [Names -> Ids \cup {NULL}]
        /\ var[o] = NULL /\ DOMAIN m_cbs[o] = {}
    BY <2>1 DEF ConfigInv, ConfigTypes, RegistryInv, VariablesTyped, ListenersTyped, Fresh
  <2>5. /\ var'[o] = [name |-> a.name, type |-> a.type] /\ m_value'[o] = a.value /\ datas'[a.name] = o
        /\ \A q \in Ids \ {o} : var'[q] = var[q] /\ m_value'[q] = m_value[q]
        /\ \A n \in Names \ {a.name} : datas'[n] = datas[n]
    BY <2>1, <2>3, <2>4
  <2>6. VariablesTyped'
    <3>1. m_value' = [q \in Ids |-> m_value'[q]]
      BY <2>1, <2>4
    <3>2. ASSUME NEW q \in Ids
          PROVE  /\ var'[q] = NULL <=> m_value'[q] = NULL
                 /\ var'[q] # NULL =>
                      /\ var'[q].type \in Types
                      /\ IsValue(var'[q].type, m_value'[q])
                      /\ var'[q].name \in Names /\ datas'[var'[q].name] = q
      <4>1. CASE q = o
        BY <2>3, <2>5, <4>1
      <4>2. CASE q # o
        <5>1. var'[q] = var[q] /\ m_value'[q] = m_value[q]
          BY <2>5, <4>2
        <5>2. /\ var[q] = NULL <=> m_value[q] = NULL
              /\ var[q] # NULL =>
                   /\ var[q].type \in Types
                   /\ IsValue(var[q].type, m_value[q])
                   /\ var[q].name \in Names /\ datas[var[q].name] = q
          BY DEF ConfigInv, ConfigTypes, VariablesTyped
        <5>3. q # NULL
          BY ConfigAssumption DEF ConfigAssumption
        <5>4. var[q] # NULL => var[q].name # a.name
          BY <1>2, <5>2, <5>3
        <5> QED  BY <2>5, <5>1, <5>2, <5>4
      <4> QED  BY <4>1, <4>2
    <3> QED  BY <3>1, <3>2 DEF VariablesTyped
  <2>7. ListenersTyped'
    <3>1. \A q \in Ids : var'[q] = NULL => var[q] = NULL
      BY <2>3, <2>5
    <3> QED  BY <2>2, <3>1 DEF ConfigInv, ConfigTypes, ListenersTyped
  <2>8. FramesTyped(stack)'
    <3>1. Len(stack') = 0
      BY <2>2
    <3> QED  BY <2>2, <3>1 DEF ConfigInv, ConfigTypes, FramesTyped
  <2>9. Informed'
    <3>1. Len(stack') = 0
      BY <2>2
    <3>2. FramesInformed(stack)'
      BY <3>1 DEF FramesInformed
    <3>3. ValuesKnown(stack, heard)'
      <4> SUFFICES ASSUME NEW q \in Ids, NEW l \in DOMAIN m_cbs[q], l <= disturbed[q]
                   PROVE  heard[q][l] = m_value'[q]
        BY <2>2 DEF ValuesKnown
      <4>1. q # o
        BY <2>4
      <4>2. heard[q][l] = m_value[q]
        BY <2>2, <3>1 DEF ConfigInv, Informed, ValuesKnown
      <4> QED  BY <2>5, <4>1, <4>2
    <3> QED  BY <3>2, <3>3 DEF Informed
  <2> QED  BY <2>2, <2>6, <2>7, <2>8, <2>9 DEF ConfigInv, ConfigTypes
<1> QED  BY <1>1, <1>2

\* No setValue is in progress.
LEMMA NoFrames == FramesTyped(<<>>) /\ Len(<<>>) < MaxDepth
<1>1. <<>> \in Seq(Frames) /\ Len(<<>>) = 0
  OBVIOUS
<1> QED  BY <1>1, ConfigAssumption DEF FramesTyped, ConfigAssumption

\* setValue, by a client
LEMMA ClientSetsInv ==
    ASSUME ConfigInv, RegistryInv', NEW c \in Callers, NEW a \in Assignments,
           handle[c] # NULL, handle[c].type = a.type, SetValue(c, a.value)
    PROVE  ConfigInv'
<1>1. PICK o \in Ids : o = handle[c].ptr /\ var[o] # NULL /\ var[o].type = a.type
  BY HandleLive DEF ConfigInv
<1>2. IsValue(a.type, a.value) /\ a.value # NULL
  BY ConfigAssumption DEF ConfigAssumption
<1>3. /\ stack = <<>> /\ SetValueOn(<<>>, o, a.value, FALSE)
      /\ UNCHANGED <<datas, var, m_cbs, members, undefined, heard>>
  BY <1>1 DEF SetValue, Idle
<1>4. /\ FramesTyped(<<>>) /\ Len(<<>>) < MaxDepth
      /\ FramesInformed(<<>>) /\ ValuesKnown(<<>>, heard)
  BY <1>3, NoFrames DEF ConfigInv, Informed
<1>5. /\ VariablesTyped' /\ (disturbed \in [Ids -> Nat])'
      /\ FramesTyped(stack)' /\ Informed'
  BY <1>1, <1>2, <1>3, <1>4, SetValueStep DEF ConfigInv
<1>6. ListenersTyped'
  BY <1>3 DEF ConfigInv, ConfigTypes, ListenersTyped
<1> QED  BY <1>3, <1>5, <1>6 DEF ConfigInv, ConfigTypes

\* addListener
LEMMA ClientAddsInv ==
    ASSUME ConfigInv, RegistryInv', NEW c \in Callers, NEW s \in Subscriptions,
           handle[c] # NULL, AddListener(c, s.id, s.cb)
    PROVE  ConfigInv'
<1>1. PICK o \in Ids : o = handle[c].ptr /\ var[o] # NULL
  BY HandleLive DEF ConfigInv
<1>2. s.id \in Listeners /\ CallbackOK(s.cb)
  BY ConfigAssumption DEF ConfigAssumption
<1>3. /\ m_cbs' = [m_cbs EXCEPT ![o] = With(m_cbs[o], s.id, s.cb)]
      /\ heard' = [heard EXCEPT ![o] = With(heard[o], s.id, m_value[o])]
      /\ UNCHANGED <<datas, var, m_value, stack, members, undefined, disturbed>>
  BY <1>1 DEF AddListener
<1>4. ListenersTyped' /\ Informed'
  <2>1. heard = [q \in Ids |-> heard[q]] /\ \A q \in Ids : DOMAIN heard[q] = DOMAIN m_cbs[q]
    BY DEF ConfigInv, ConfigTypes, ListenersTyped
  <2>2. FramesInformed(stack) /\ ValuesKnown(stack, heard)
    BY DEF ConfigInv, Informed
  <2> QED  BY <1>1, <1>2, <1>3, <2>1, <2>2, ListenerAdded DEF ConfigInv
<1>5. VariablesTyped' /\ FramesTyped(stack)'
  BY <1>3 DEF ConfigInv, ConfigTypes, VariablesTyped, FramesTyped
<1> QED  BY <1>3, <1>4, <1>5 DEF ConfigInv, ConfigTypes

\* delListener
LEMMA ClientRemovesInv ==
    ASSUME ConfigInv, RegistryInv', NEW c \in Callers, NEW l, RemoveListener(c, l)
    PROVE  ConfigInv'
<1>1. PICK o \in Ids : o = handle[c].ptr
  BY HandleLive DEF ConfigInv, RemoveListener
<1>2. /\ m_cbs' = [m_cbs EXCEPT ![o] = Without(m_cbs[o], l)]
      /\ heard' = [heard EXCEPT ![o] = Without(heard[o], l)]
      /\ UNCHANGED <<datas, var, m_value, stack, members, undefined, disturbed>>
  BY <1>1 DEF RemoveListener
<1>3. ListenersTyped' /\ Informed'
  <2>1. heard = [q \in Ids |-> heard[q]] /\ \A q \in Ids : DOMAIN heard[q] = DOMAIN m_cbs[q]
    BY DEF ConfigInv, ConfigTypes, ListenersTyped
  <2>2. FramesInformed(stack) /\ ValuesKnown(stack, heard)
    BY DEF ConfigInv, Informed
  <2> QED  BY <1>1, <1>2, <2>1, <2>2, ListenerRemoved DEF ConfigInv
<1>4. VariablesTyped' /\ FramesTyped(stack)'
  BY <1>2 DEF ConfigInv, ConfigTypes, VariablesTyped, FramesTyped
<1> QED  BY <1>2, <1>3, <1>4 DEF ConfigInv, ConfigTypes

\* LoadFromYaml
LEMMA LoadInvStep ==
    ASSUME ConfigInv, RegistryInv', NEW doc \in Documents, LoadFromYaml(doc)
    PROVE  ConfigInv'
<1>1. /\ members' = Listed[doc]
      /\ UNCHANGED <<datas, var, m_value, m_cbs, stack, undefined, heard, disturbed>>
  BY DEF LoadFromYaml
<1>2. members' \in Seq(Members)
  BY <1>1, ListedType, NodesAssumption DEF NodesAssumption
<1>3. VariablesTyped' /\ ListenersTyped' /\ FramesTyped(stack)'
  BY <1>1 DEF ConfigInv, ConfigTypes, VariablesTyped, ListenersTyped, FramesTyped
<1>4. Informed'
  BY <1>1 DEF ConfigInv, Informed, FramesInformed, ValuesKnown
<1> QED  BY <1>1, <1>2, <1>3, <1>4 DEF ConfigInv, ConfigTypes

----------------------------------------------------------------------------
(* The steps of a loop.                                                    *)

\* What every round of a loop starts from.
LEMMA RoundFacts ==
    ASSUME ConfigInv, NEW does, Calls(does)
    PROVE  /\ stack # <<>> /\ After(Top.at) # {} /\ Callback.does = does
           /\ FramesTyped(Advanced) /\ Len(Advanced) = Len(stack) /\ Len(stack) \in Nat
           /\ FramesInformed(Advanced) /\ ValuesKnown(Advanced, Hears)
           /\ Hears = [o \in Ids |-> Hears[o]]
           /\ \A o \in Ids : DOMAIN Hears[o] = DOMAIN m_cbs[o]
           /\ Top.var \in Ids /\ var[Top.var] # NULL
           /\ Called \in DOMAIN m_cbs[Top.var] /\ CallbackOK(Callback)
BY LoopFacts, AdvancedFacts, HearsFacts, RoundInformed DEF ConfigInv, Calls, Frames

\* The listeners stay when one is called.
LEMMA HearsTyped ==
    ASSUME ConfigInv, heard' = Hears, UNCHANGED <<m_cbs, var>>,
           Hears = [o \in Ids |-> Hears[o]],
           \A o \in Ids : DOMAIN Hears[o] = DOMAIN m_cbs[o]
    PROVE  ListenersTyped'
BY DEF ConfigInv, ConfigTypes, ListenersTyped

\* The listener returns.
LEMMA ReturnsInv ==
    ASSUME ConfigInv, RegistryInv', ListenerReturns
    PROVE  ConfigInv'
<1>1. /\ heard' = Hears /\ stack' = Advanced
      /\ UNCHANGED <<datas, var, m_value, m_cbs, members, undefined, disturbed>>
      /\ Calls("nothing")
  BY DEF ListenerReturns
<1>2. /\ FramesTyped(Advanced) /\ FramesInformed(Advanced) /\ ValuesKnown(Advanced, Hears)
      /\ Hears = [o \in Ids |-> Hears[o]] /\ \A o \in Ids : DOMAIN Hears[o] = DOMAIN m_cbs[o]
  BY <1>1, RoundFacts
<1>3. PICK s, h : s = Advanced /\ h = Hears
  OBVIOUS
<1>4. ListenersTyped'
  BY <1>1, <1>2, HearsTyped
<1>5. VariablesTyped'
  BY <1>1 DEF ConfigInv, ConfigTypes, VariablesTyped
<1>6. FramesTyped(stack)'
  BY <1>1, <1>2, <1>3 DEF FramesTyped
<1>7. Informed'
  <2>1. FramesInformed(s) /\ ValuesKnown(s, h) /\ stack' = s /\ heard' = h
    BY <1>1, <1>2, <1>3
  <2> QED  BY <1>1, <2>1 DEF Informed, FramesInformed, ValuesKnown
<1> QED  BY <1>1, <1>4, <1>5, <1>6, <1>7 DEF ConfigInv, ConfigTypes

\* The listener sets a variable.
LEMMA SetsInv ==
    ASSUME ConfigInv, RegistryInv', ListenerSets
    PROVE  ConfigInv'
<1>1. /\ heard' = Hears /\ Calls("sets")
      /\ UNCHANGED <<datas, var, m_cbs, members, undefined>>
  BY DEF ListenerSets
<1>2. /\ FramesTyped(Advanced) /\ FramesInformed(Advanced) /\ ValuesKnown(Advanced, Hears)
      /\ Hears = [o \in Ids |-> Hears[o]] /\ \A o \in Ids : DOMAIN Hears[o] = DOMAIN m_cbs[o]
      /\ Callback.does = "sets" /\ CallbackOK(Callback) /\ Len(Advanced) = Len(stack)
  BY <1>1, RoundFacts
<1>3. ListenersTyped'
  BY <1>1, <1>2, HearsTyped
<1>4. PICK s, h, o, cb : /\ s = Advanced /\ h = Hears /\ cb = Callback
                         /\ o = Found(Callback.name, Callback.type)
  OBVIOUS
<1>5. /\ FramesTyped(s) /\ FramesInformed(s) /\ ValuesKnown(s, h) /\ heard' = h
      /\ cb.does = "sets" /\ CallbackOK(cb)
  BY <1>1, <1>2, <1>4
<1>6. CASE o = NULL
  <2>1. stack' = s /\ UNCHANGED <<m_value, disturbed>>
    BY <1>4, <1>6 DEF ListenerSets
  <2>2. VariablesTyped'
    BY <1>1, <2>1 DEF ConfigInv, ConfigTypes, VariablesTyped
  <2>3. FramesTyped(stack)'
    BY <1>1, <1>5, <2>1 DEF FramesTyped
  <2>4. Informed'
    BY <1>1, <1>5, <2>1 DEF Informed, FramesInformed, ValuesKnown
  <2> QED  BY <1>1, <1>3, <2>1, <2>2, <2>3, <2>4 DEF ConfigInv, ConfigTypes
<1>7. CASE o # NULL
  <2>1. /\ Len(s) < MaxDepth
        /\ IF cb.by = "setValue" THEN SetValueOn(s, o, FromStr(cb.type, cb.node), FALSE)
           ELSE FromStringOn(s, o, cb.node)
    BY <1>2, <1>4, <1>7 DEF ListenerSets
  <2>2. o \in Ids /\ var[o] # NULL /\ var[o].type = cb.type
    BY <1>4, <1>5, <1>7, FoundLive DEF ConfigInv, CallbackOK
  <2>3. /\ cb.type \in Types /\ cb.node \in Nodes
        /\ cb.by = "setValue" => FromStr(cb.type, cb.node) # THROWS
    BY <1>5 DEF CallbackOK
  <2>4. /\ VariablesTyped' /\ (disturbed \in [Ids -> Nat])'
        /\ FramesTyped(stack)' /\ Informed'
    <3>1. CASE cb.by = "setValue"
      <4>1. PICK v : v = FromStr(cb.type, cb.node)
        OBVIOUS
      <4>2. IsValue(var[o].type, v) /\ v # NULL
        BY <2>2, <2>3, <3>1, <4>1, FromStrIsValue, ConfigAssumption DEF ConfigAssumption
      <4>3. SetValueOn(s, o, v, FALSE)
        BY <2>1, <3>1, <4>1
      <4> QED  BY <1>1, <1>5, <2>1, <2>2, <4>2, <4>3, SetValueStep DEF ConfigInv
    <3>2. CASE cb.by # "setValue"
      <4>1. FromStringOn(s, o, cb.node)
        BY <2>1, <3>2
      <4> QED  BY <1>1, <1>5, <2>1, <2>2, <2>3, <4>1, FromStringStep DEF ConfigInv
    <3> QED  BY <3>1, <3>2
  <2> QED  BY <1>1, <1>3, <2>4 DEF ConfigInv, ConfigTypes
<1> QED  BY <1>6, <1>7

\* The listener adds one.
LEMMA AddsInv ==
    ASSUME ConfigInv, RegistryInv', ListenerAdds
    PROVE  ConfigInv'
<1>0. PICK s, h, o, cb : s = Advanced /\ h = Hears /\ o = Top.var /\ cb = Callback
  OBVIOUS
<1>1. /\ m_cbs' = [m_cbs EXCEPT ![o] = With(m_cbs[o], cb.id, [does |-> "nothing"])]
      /\ heard' = [h EXCEPT ![o] = With(h[o], cb.id, m_value[o])]
      /\ stack' = s /\ undefined' = Loses(cb.id)
      /\ UNCHANGED <<datas, var, m_value, members, disturbed>>
      /\ Calls("adds")
  BY <1>0 DEF ListenerAdds
<1>2. /\ FramesTyped(s) /\ FramesInformed(s) /\ ValuesKnown(s, h)
      /\ h = [q \in Ids |-> h[q]] /\ \A q \in Ids : DOMAIN h[q] = DOMAIN m_cbs[q]
      /\ cb.does = "adds" /\ CallbackOK(cb) /\ o \in Ids /\ var[o] # NULL
  BY <1>0, <1>1, RoundFacts
<1>3. cb.id \in Listeners /\ CallbackOK([does |-> "nothing"])
  BY <1>2 DEF CallbackOK
<1>4. ListenersTyped' /\ Informed'
  BY <1>1, <1>2, <1>3, ListenerAdded DEF ConfigInv
<1>5. VariablesTyped'
  BY <1>1 DEF ConfigInv, ConfigTypes, VariablesTyped
<1>6. FramesTyped(stack)'
  BY <1>1, <1>2 DEF FramesTyped
<1>7. undefined' \in BOOLEAN
  BY <1>1 DEF Loses
<1> QED  BY <1>1, <1>4, <1>5, <1>6, <1>7 DEF ConfigInv, ConfigTypes

\* The listener removes one.
LEMMA RemovesInv ==
    ASSUME ConfigInv, RegistryInv', ListenerRemoves
    PROVE  ConfigInv'
<1>0. PICK s, h, o, cb : s = Advanced /\ h = Hears /\ o = Top.var /\ cb = Callback
  OBVIOUS
<1>1. /\ m_cbs' = [m_cbs EXCEPT ![o] = Without(m_cbs[o], cb.id)]
      /\ heard' = [h EXCEPT ![o] = Without(h[o], cb.id)]
      /\ stack' = s /\ undefined' = Loses(cb.id)
      /\ UNCHANGED <<datas, var, m_value, members, disturbed>>
      /\ Calls("removes")
  BY <1>0 DEF ListenerRemoves
<1>2. /\ FramesTyped(s) /\ FramesInformed(s) /\ ValuesKnown(s, h)
      /\ h = [q \in Ids |-> h[q]] /\ \A q \in Ids : DOMAIN h[q] = DOMAIN m_cbs[q]
      /\ o \in Ids
  BY <1>0, <1>1, RoundFacts
<1>4. ListenersTyped' /\ Informed'
  BY <1>1, <1>2, ListenerRemoved DEF ConfigInv
<1>5. VariablesTyped'
  BY <1>1 DEF ConfigInv, ConfigTypes, VariablesTyped
<1>6. FramesTyped(stack)'
  BY <1>1, <1>2 DEF FramesTyped
<1>7. undefined' \in BOOLEAN
  BY <1>1 DEF Loses
<1> QED  BY <1>1, <1>4, <1>5, <1>6, <1>7 DEF ConfigInv, ConfigTypes

\* What is left of the calls s when the innermost of them end.
LEMMA CutFrames ==
    ASSUME NEW s, FramesTyped(s), NEW m \in 0 .. Len(s)
    PROVE  /\ FramesTyped(SubSeq(s, 1, m)) /\ Len(SubSeq(s, 1, m)) = m
           /\ \A k \in 1 .. m : SubSeq(s, 1, m)[k] = s[k]
<1> DEFINE t == SubSeq(s, 1, m)
<1>1. s \in Seq(Frames) /\ Len(s) \in Nat /\ Len(s) <= MaxDepth /\ m \in Nat
  BY DEF FramesTyped
<1>2. \A k \in 1 .. m : s[k] \in Frames
  BY <1>1, ElementOfSeq
<1>3. t \in Seq(Frames) /\ Len(t) = m /\ \A k \in 1 .. m : t[k] = s[k]
  BY <1>1, <1>2, SubSeqProperties
<1>4. Len(t) <= MaxDepth
  BY <1>1, <1>3, ConfigAssumption DEF ConfigAssumption
<1> HIDE DEF t
<1>5. \A k \in 1 .. Len(t) : var[t[k].var] # NULL /\ t[k].new # t[k].old
  BY <1>1, <1>3 DEF FramesTyped
<1>6. FramesTyped(t)
  BY <1>3, <1>4, <1>5 DEF FramesTyped
<1> QED  BY <1>3, <1>6 DEF t

\* An exception ends the calls from some place on.
LEMMA UnwoundFacts ==
    ASSUME NEW s, FramesTyped(s)
    PROVE  \E m \in 0 .. Len(s) : Unwound(s) = SubSeq(s, 1, m)
<1> DEFINE catching == {k \in DOMAIN s : s[k].caught}
<1>1. s \in Seq(Frames) /\ DOMAIN s = 1 .. Len(s) /\ Len(s) \in Nat
  BY DEF FramesTyped
<1>2. CASE catching = {}
  <2>1. Unwound(s) = <<>>
    BY <1>2 DEF Unwound
  <2>2. SubSeq(s, 1, 0) = <<>>
    BY <1>1, SubSeqProperties
  <2>3. 0 \in 0 .. Len(s)
    BY <1>1
  <2> QED  BY <2>1, <2>2, <2>3
<1>3. CASE catching # {}
  <2>1. catching \subseteq Nat /\ IsFiniteSet(catching)
    <3>1. IsFiniteSet(1 .. Len(s)) /\ catching \subseteq 1 .. Len(s)
      BY <1>1, FS_Interval
    <3> QED  BY <3>1, FS_Subset
  <2>2. Max(catching) \in catching
    <3> HIDE DEF catching
    <3> QED  BY <1>3, <2>1, Largest
  <2>3. Unwound(s) = SubSeq(s, 1, Max(catching) - 1)
    BY <1>3 DEF Unwound
  <2>4. PICK x : x = Max(catching)
    OBVIOUS
  <2>5. x \in 1 .. Len(s)
    BY <1>1, <2>2, <2>4
  <2>6. x - 1 \in 0 .. Len(s)
    BY <1>1, <2>5
  <2> QED  BY <2>3, <2>4, <2>6
<1> QED  BY <1>2, <1>3

\* The calls that end leave what the others stand for, when the variables'
\* counts go down to where those calls were.
LEMMA CutInformed ==
    ASSUME ConfigInv, NEW s, NEW h, FramesTyped(s), FramesInformed(s), ValuesKnown(s, h),
           NEW m \in 0 .. Len(s), stack' = SubSeq(s, 1, m), heard' = h,
           UNCHANGED <<var, m_value, m_cbs>>,
           disturbed' \in [Ids -> Nat], \A o \in Ids : disturbed'[o] <= disturbed[o],
           \A k \in m + 1 .. Len(s) : \/ disturbed'[s[k].var] <= s[k].at
                                      \/ \A l \in DOMAIN m_cbs[s[k].var] : l <= s[k].at
    PROVE  FramesTyped(stack)' /\ Informed'
<1>0. disturbed \in [Ids -> Nat] /\ Len(s) \in Nat /\ \A k \in 1 .. Len(s) : s[k] \in Frames
  BY ElementOfSeq DEF ConfigInv, ConfigTypes, FramesTyped
<1>1. /\ FramesTyped(SubSeq(s, 1, m)) /\ Len(stack') = m
      /\ \A k \in 1 .. m : stack'[k] = s[k]
  BY CutFrames
<1>2. FramesTyped(stack)'
  <2>1. PICK t : t = SubSeq(s, 1, m)
    OBVIOUS
  <2>2. FramesTyped(t) /\ stack' = t
    BY <1>1, <2>1
  <2> QED  BY <2>2 DEF FramesTyped
<1>3. FramesInformed(stack)'
  <2> SUFFICES ASSUME NEW k \in 1 .. m
               PROVE  s[k].new = m_value[s[k].var] \/ disturbed'[s[k].var] <= s[k].at
    BY <1>1 DEF FramesInformed
  <2>1. s[k].new = m_value[s[k].var] \/ disturbed[s[k].var] <= s[k].at
    BY <1>0 DEF FramesInformed
  <2>2. s[k].var \in Ids /\ s[k].at \in Nat
    BY <1>0 DEF Frames
  <2>3. /\ disturbed[s[k].var] \in Nat /\ disturbed'[s[k].var] \in Nat
        /\ disturbed'[s[k].var] <= disturbed[s[k].var]
    BY <1>0, <2>2
  <2> QED  BY <2>1, <2>2, <2>3
<1>4. ValuesKnown(stack, heard)'
  <2> SUFFICES ASSUME NEW o \in Ids, NEW l \in DOMAIN m_cbs[o], l <= disturbed'[o]
               PROVE  \/ h[o][l] = m_value[o]
                      \/ \E k \in 1 .. m : s[k].var = o /\ s[k].at < l
    BY <1>1 DEF ValuesKnown
  <2>1. l \in Nat
    BY ConfigAssumption DEF ConfigAssumption, ConfigInv, ConfigTypes, ListenersTyped
  <2>2. l <= disturbed[o] /\ disturbed'[o] \in Nat
    <3>1. disturbed[o] \in Nat /\ disturbed'[o] \in Nat /\ disturbed'[o] <= disturbed[o]
      BY <1>0
    <3> QED  BY <2>1, <3>1
  <2>3. CASE h[o][l] = m_value[o]
    BY <2>3
  <2>4. CASE h[o][l] # m_value[o]
    <3>1. PICK k \in 1 .. Len(s) : s[k].var = o /\ s[k].at < l
      BY <2>2, <2>4 DEF ValuesKnown
    <3>2. s[k].at \in Nat
      BY <1>0, <3>1 DEF Frames
    <3>3. ~(l <= s[k].at) /\ ~(disturbed'[o] <= s[k].at)
      BY <2>1, <2>2, <3>1, <3>2
    <3>4. k \notin m + 1 .. Len(s)
      BY <3>1, <3>3
    <3>5. k \in 1 .. m
      BY <1>0, <3>1, <3>4
    <3> QED  BY <3>1, <3>5
  <2> QED  BY <2>3, <2>4
<1> QED  BY <1>2, <1>3, <1>4 DEF Informed

\* The listener throws.
LEMMA ThrowsInv ==
    ASSUME ConfigInv, RegistryInv', ListenerThrows
    PROVE  ConfigInv'
<1>0. PICK s, h : s = Advanced /\ h = Hears
  OBVIOUS
<1>1. /\ heard' = h /\ stack' = Unwound(s) /\ Calls("throws")
      /\ members' = IF \E k \in DOMAIN stack : stack[k].caught THEN members ELSE <<>>
      /\ disturbed' =
           [o \in Ids |-> Min({disturbed[o]} \cup
              {s[k].at : k \in {k \in DOMAIN stack : k > Len(stack') /\ stack[k].var = o}})]
      /\ UNCHANGED <<datas, var, m_value, m_cbs, undefined>>
  BY <1>0 DEF ListenerThrows
<1>2. /\ FramesTyped(s) /\ FramesInformed(s) /\ ValuesKnown(s, h)
      /\ Hears = [o \in Ids |-> Hears[o]] /\ \A o \in Ids : DOMAIN Hears[o] = DOMAIN m_cbs[o]
      /\ Len(s) = Len(stack) /\ Len(stack) \in Nat
      /\ stack # <<>> /\ After(Top.at) # {}
  BY <1>0, <1>1, RoundFacts
<1>3. \A k \in 1 .. Len(stack) : s[k].var = stack[k].var
  BY <1>0, <1>2, AdvancedFacts DEF ConfigInv
<1>4. PICK m \in 0 .. Len(s) : Unwound(s) = SubSeq(s, 1, m)
  BY <1>2, UnwoundFacts
<1>5. stack' = SubSeq(s, 1, m) /\ Len(stack') = m
  BY <1>1, <1>2, <1>4, CutFrames
<1>6. /\ DOMAIN stack = 1 .. Len(stack)
      /\ \A k \in 1 .. Len(s) : s[k] \in Frames
      /\ disturbed \in [Ids -> Nat]
  BY <1>2, ElementOfSeq DEF ConfigInv, ConfigTypes, FramesTyped
<1>7. ASSUME NEW o \in Ids
      PROVE  /\ disturbed'[o] \in Nat /\ disturbed'[o] <= disturbed[o]
             /\ \A k \in m + 1 .. Len(s) : s[k].var = o => disturbed'[o] <= s[k].at
  <2> DEFINE K == {k \in DOMAIN stack : k > m /\ stack[k].var = o}
             S == {disturbed[o]} \cup {s[k].at : k \in K}
  <2>1. disturbed'[o] = Min(S)
    BY <1>1, <1>5
  <2>2. S \subseteq Nat /\ S # {} /\ disturbed[o] \in S
    BY <1>2, <1>6 DEF Frames
  <2>3. \A k \in m + 1 .. Len(s) : s[k].var = o => s[k].at \in S
    <3> SUFFICES ASSUME NEW k \in m + 1 .. Len(s), s[k].var = o PROVE k \in K
      OBVIOUS
    <3>1. k \in 1 .. Len(stack) /\ k > m
      BY <1>2
    <3> QED  BY <1>3, <1>6, <3>1
  <2>4. Min(S) \in S /\ \A y \in S : Min(S) <= y
    <3> HIDE DEF S
    <3> QED  BY <2>2, Smallest
  <2> HIDE DEF S
  <2> QED  BY <2>1, <2>2, <2>3, <2>4
<1>8. disturbed' \in [Ids -> Nat]
  <2>1. disturbed' = [o \in Ids |-> disturbed'[o]]
    BY <1>1
  <2> QED  BY <1>7, <2>1
<1>9. ListenersTyped'
  BY <1>0, <1>1, <1>2, HearsTyped
<1>10. VariablesTyped'
  BY <1>1 DEF ConfigInv, ConfigTypes, VariablesTyped
<1>11. FramesTyped(stack)' /\ Informed'
  <2>1. \A k \in m + 1 .. Len(s) : disturbed'[s[k].var] <= s[k].at
    <3> TAKE k \in m + 1 .. Len(s)
    <3>1. s[k].var \in Ids
      <4>1. k \in 1 .. Len(s)
        BY <1>2
      <4> QED  BY <1>6, <4>1 DEF Frames
    <3> QED  BY <1>7, <3>1
  <2> QED  BY <1>1, <1>2, <1>5, <1>7, <1>8, <2>1, CutInformed
<1>12. members' \in Seq(Members)
  BY <1>1 DEF ConfigInv, ConfigTypes
<1> QED  BY <1>1, <1>8, <1>9, <1>10, <1>11, <1>12 DEF ConfigInv, ConfigTypes

\* A setValue returns when its loop has come past all listeners.
LEMMA SetValueReturnsInv ==
    ASSUME ConfigInv, RegistryInv', SetValueReturns
    PROVE  ConfigInv'
<1>1. /\ stack # <<>> /\ After(Top.at) = {} /\ stack' = Front(stack)
      /\ UNCHANGED <<datas, var, m_value, m_cbs, members, undefined, heard, disturbed>>
  BY DEF SetValueReturns, history
<1>2. Len(stack) \in Nat /\ Len(stack) \in 1 .. Len(stack) /\ Top = stack[Len(stack)] /\ Top \in Frames
  BY <1>1, LoopFacts DEF ConfigInv
<1>3. PICK m \in 0 .. Len(stack) : m = Len(stack) - 1
  <2>1. Len(stack) - 1 \in 0 .. Len(stack)
    BY <1>2
  <2> QED  BY <2>1
<1>4. stack' = SubSeq(stack, 1, m)
  BY <1>1, <1>3 DEF Front
<1>5. \A l \in DOMAIN m_cbs[Top.var] : l <= Top.at
  <2>1. DOMAIN m_cbs[Top.var] \subseteq Nat /\ Top.at \in Nat
    BY <1>2, ConfigAssumption DEF ConfigInv, ConfigTypes, ListenersTyped, Frames, ConfigAssumption
  <2> QED  BY <1>1, <2>1 DEF After
<1>6. \A k \in m + 1 .. Len(stack) : k = Len(stack)
  BY <1>2, <1>3
<1>7. /\ FramesTyped(stack) /\ FramesInformed(stack) /\ ValuesKnown(stack, heard)
      /\ disturbed \in [Ids -> Nat]
  BY DEF ConfigInv, ConfigTypes, Informed
<1>8. FramesTyped(stack)' /\ Informed'
  <2>1. PICK s, h : s = stack /\ h = heard
    OBVIOUS
  <2>2. /\ FramesTyped(s) /\ FramesInformed(s) /\ ValuesKnown(s, h)
        /\ m \in 0 .. Len(s) /\ stack' = SubSeq(s, 1, m) /\ heard' = h
        /\ \A k \in m + 1 .. Len(s) : \A l \in DOMAIN m_cbs[s[k].var] : l <= s[k].at
    BY <1>1, <1>2, <1>4, <1>5, <1>6, <1>7, <2>1
  <2>3. disturbed' \in [Ids -> Nat] /\ \A o \in Ids : disturbed'[o] <= disturbed[o]
    BY <1>1, <1>7
  <2> QED  BY <1>1, <2>2, <2>3, CutInformed
<1>9. VariablesTyped' /\ ListenersTyped'
  BY <1>1 DEF ConfigInv, ConfigTypes, VariablesTyped, ListenersTyped
<1> QED  BY <1>1, <1>8, <1>9 DEF ConfigInv, ConfigTypes

\* LoadFromYaml sets the next variable.
LEMMA LoadNextInv ==
    ASSUME ConfigInv, RegistryInv', LoadNext
    PROVE  ConfigInv'
<1>1. /\ stack = <<>> /\ members # <<>> /\ members' = Tail(members)
      /\ UNCHANGED <<datas, var, m_cbs, undefined, heard>>
  BY DEF LoadNext
<1>2. members \in Seq(Members)
  BY DEF ConfigInv, ConfigTypes
<1>3. Head(members) \in Members /\ Tail(members) \in Seq(Members)
  BY <1>1, <1>2, HeadTailProperties
<1>4. PICK name, node : name = Head(members).name /\ node = Head(members).node
  OBVIOUS
<1>5. ListenersTyped'
  BY <1>1 DEF ConfigInv, ConfigTypes, ListenersTyped
<1>6. CASE name \notin Names \/ datas[name] = NULL
  <2>1. UNCHANGED <<m_value, stack, disturbed>>
    BY <1>4, <1>6 DEF LoadNext
  <2>2. VariablesTyped' /\ FramesTyped(stack)'
    BY <1>1, <2>1 DEF ConfigInv, ConfigTypes, VariablesTyped, FramesTyped
  <2>3. Informed'
    BY <1>1, <2>1 DEF ConfigInv, Informed, FramesInformed, ValuesKnown
  <2> QED  BY <1>1, <1>3, <1>5, <2>1, <2>2, <2>3 DEF ConfigInv, ConfigTypes
<1>7. CASE name \in Names /\ datas[name] # NULL
  <2>1. PICK o \in Ids : o = datas[name] /\ var[o] # NULL
    BY <1>7 DEF ConfigInv, ConfigTypes, RegistryInv
  <2>2. FromStringOn(<<>>, o, node)
    BY <1>4, <1>7, <2>1 DEF LoadNext
  <2>3. node \in Nodes
    BY <1>3, <1>4 DEF Members
  <2>4. /\ FramesTyped(<<>>) /\ Len(<<>>) < MaxDepth
        /\ FramesInformed(<<>>) /\ ValuesKnown(<<>>, heard)
    BY <1>1, NoFrames DEF ConfigInv, Informed
  <2>5. /\ VariablesTyped' /\ (disturbed \in [Ids -> Nat])'
        /\ FramesTyped(stack)' /\ Informed'
    BY <1>1, <2>1, <2>2, <2>3, <2>4, FromStringStep DEF ConfigInv
  <2> QED  BY <1>1, <1>3, <1>5, <2>5 DEF ConfigInv, ConfigTypes
<1> QED  BY <1>6, <1>7

----------------------------------------------------------------------------

\* Nobody has heard of anything at first.
LEMMA ConfigInitial == Init => ConfigInv
<1> SUFFICES ASSUME Init PROVE ConfigInv
  OBVIOUS
<1>1. ConfigTypes
  BY TypesInitial
<1>2. Len(stack) = 0 /\ \A o \in Ids : DOMAIN m_cbs[o] = {}
  BY DEF Init
<1>3. Informed
  BY <1>2 DEF Informed, FramesInformed, ValuesKnown
<1> QED  BY <1>1, <1>3 DEF ConfigInv

\* Every step keeps the types and keeps the listeners informed.
LEMMA ConfigStep == ConfigInv /\ [Next]_vars => ConfigInv'
<1> SUFFICES ASSUME ConfigInv, [Next]_vars PROVE ConfigInv'
  OBVIOUS
<1>0. RegistryInv'
  BY RegistryStep DEF ConfigInv, ConfigTypes
<1>1. CASE UNCHANGED vars
  <2>1. UNCHANGED values
    BY <1>1 DEF vars, values, history
  <2> QED  BY <1>0, <2>1, QuietStep
<1>2. CASE Clients
  <2>1. ASSUME NEW c \in Callers, NEW a \in Creations, Create(c, a.name, a.type, a.value)
        PROVE  ConfigInv'
    BY <1>0, <2>1, CreateInv
  <2>2. ASSUME NEW c \in Callers, NEW a \in Creations, Lookup(c, a.name, a.type)
        PROVE  ConfigInv'
    <3>1. UNCHANGED values
      BY <2>2 DEF Lookup, values
    <3> QED  BY <1>0, <3>1, QuietStep
  <2>3. ASSUME NEW c \in Callers, NEW a \in Assignments,
               handle[c] # NULL, handle[c].type = a.type, SetValue(c, a.value)
        PROVE  ConfigInv'
    BY <1>0, <2>3, ClientSetsInv
  <2>4. ASSUME NEW c \in Callers, NEW s \in Subscriptions, handle[c] # NULL, AddListener(c, s.id, s.cb)
        PROVE  ConfigInv'
    BY <1>0, <2>4, ClientAddsInv
  <2>5. ASSUME NEW c \in Callers, NEW l \in Listeners, RemoveListener(c, l)
        PROVE  ConfigInv'
    BY <1>0, <2>5, ClientRemovesInv
  <2> QED  BY <1>2, <2>1, <2>2, <2>3, <2>4, <2>5 DEF Clients
<1>3. ASSUME NEW doc \in Documents, LoadFromYaml(doc) PROVE ConfigInv'
  BY <1>0, <1>3, LoadInvStep
<1>4. CASE Steps
  BY <1>0, <1>4, ReturnsInv, ThrowsInv, SetsInv, AddsInv, RemovesInv, SetValueReturnsInv, LoadNextInv
     DEF Steps
<1> QED  BY <1>1, <1>2, <1>3, <1>4 DEF Next

\* The inductive invariant holds throughout.
LEMMA ConfigInvariant == Spec => []ConfigInv
BY ConfigInitial, ConfigStep, PTL DEF Spec

\* A ConfigVar keeps its name and a value of its type, there are no variables but
\* those registered, and a setValue in progress is on a registered variable and
\* changed it (config.h, ConfigVar and Config).
THEOREM ConfigTypeOK == Spec => []TypeOK
<1>1. ASSUME ConfigInv PROVE TypeOK
  <2> USE <1>1
  <2>0. datas \in [Names -> Ids \cup {NULL}]
    BY DEF ConfigInv, ConfigTypes, RegistryInv
  <2>1. ASSUME NEW n \in Names, datas[n] # NULL
        PROVE  var[datas[n]] # NULL /\ var[datas[n]].name = n
    <3>1. var[datas[n]] # NULL /\ var[datas[n]] = [name |-> n, type |-> var[datas[n]].type]
      BY <2>1 DEF ConfigInv, ConfigTypes, RegistryInv
    <3>2. PICK x : x = var[datas[n]].type
      OBVIOUS
    <3>3. var[datas[n]] = [name |-> n, type |-> x]
      BY <3>1, <3>2
    <3> QED  BY <3>1, <3>3
  <2>2. ASSUME NEW o \in Ids
        PROVE  IF Registered(o) THEN IsValue(var[o].type, m_value[o])
               ELSE var[o] = NULL /\ m_value[o] = NULL
    <3>1. CASE var[o] = NULL
      <4>1. ~Registered(o)
        BY <3>1, <2>1, ConfigAssumption DEF Registered
      <4> QED  BY <3>1, <4>1 DEF ConfigInv, ConfigTypes, VariablesTyped
    <3>2. CASE var[o] # NULL
      <4>1. /\ var[o].name \in Names /\ datas[var[o].name] = o
            /\ IsValue(var[o].type, m_value[o])
        BY <3>2 DEF ConfigInv, ConfigTypes, VariablesTyped
      <4> QED  BY <4>1 DEF Registered
    <3> QED  BY <3>1, <3>2
  <2>3. \A o \in Ids : DOMAIN m_cbs[o] \subseteq Listeners /\ DOMAIN heard[o] = DOMAIN m_cbs[o]
    BY DEF ConfigInv, ConfigTypes, ListenersTyped
  <2>4. stack \in Seq(Frames) /\ DOMAIN stack = 1 .. Len(stack) /\ Len(stack) <= MaxDepth
    BY DEF ConfigInv, ConfigTypes, FramesTyped
  <2>5. ASSUME NEW k \in DOMAIN stack
        PROVE  Registered(stack[k].var) /\ stack[k].new # stack[k].old
    <3>1. stack[k] \in Frames /\ var[stack[k].var] # NULL /\ stack[k].new # stack[k].old
      BY <2>4, ElementOfSeq DEF ConfigInv, ConfigTypes, FramesTyped
    <3>2. PICK o \in Ids : o = stack[k].var /\ var[o] # NULL
      BY <3>1 DEF Frames
    <3>3. var[o].name \in Names /\ datas[var[o].name] = o
      BY <3>2 DEF ConfigInv, ConfigTypes, VariablesTyped
    <3> QED  BY <3>1, <3>2, <3>3 DEF Registered
  <2>6. members \in Seq([name : Seq(Parts), node : Nodes]) /\ undefined \in BOOLEAN
    BY DEF ConfigInv, ConfigTypes, Members
  <2> QED  BY <2>0, <2>1, <2>2, <2>3, <2>4, <2>5, <2>6 DEF TypeOK
<1> QED  BY <1>1, ConfigInvariant, PTL

\* What toString() writes, fromString() reads back, whatever value a variable
\* has come to have: converted from a document, assigned, or set by a
\* listener (config.h, LexicalCast).
THEOREM ConfigRoundTrip == Spec => []RoundTrip
<1>1. ASSUME ConfigInv PROVE RoundTrip
  <2> SUFFICES ASSUME NEW o \in Ids, var[o] # NULL
               PROVE  FromStr(var[o].type, ToStr(var[o].type, m_value[o])) = m_value[o]
    BY DEF RoundTrip
  <2>1. var[o].type \in Types /\ IsValue(var[o].type, m_value[o])
    BY <1>1 DEF ConfigInv, ConfigTypes, VariablesTyped
  <2> QED  BY <2>1, ValueRoundTrip
<1> QED  BY <1>1, ConfigInvariant, PTL

\* When no setValue is in progress a variable's listeners know the value in
\* force, up to the first that ever threw or led back to a setValue of that
\* variable, however they nest, add and remove one another (config.h,
\* ConfigVar::setValue).
THEOREM ConfigListenersInformed == Spec => []ListenersInformed
<1>1. ASSUME ConfigInv PROVE ListenersInformed
  <2> SUFFICES ASSUME stack = <<>>, NEW n \in Names, datas[n] # NULL,
                      NEW l \in DOMAIN m_cbs[datas[n]], l <= disturbed[datas[n]]
               PROVE  heard[datas[n]][l] = m_value[datas[n]]
    BY DEF ListenersInformed
  <2>1. datas[n] \in Ids
    BY <1>1 DEF ConfigInv, ConfigTypes, RegistryInv
  <2>2. Len(stack) = 0
    OBVIOUS
  <2> QED  BY <1>1, <2>1, <2>2 DEF ConfigInv, Informed, ValuesKnown
<1> QED  BY <1>1, ConfigInvariant, PTL

----------------------------------------------------------------------------
(* LoadFromYaml.                                                           *)

\* What the k-th entry of the list says of a variable, and what the first j of
\* them make of it.
Given(list, name, type, k) ==
    IF list[k].name = name THEN FromStr(type, list[k].node) ELSE THROWS

Good(list, name, type, j) == {k \in 1 .. j : Given(list, name, type, k) # THROWS}

Outcome(list, name, type, before, j) ==
    IF Good(list, name, type, j) = {} THEN before
    ELSE Given(list, name, type, Max(Good(list, name, type, j)))

\* The variables that no listener has set have come as far as the loop.
LoadProgress(list, j) ==
    /\ Len(members) = Len(list) - j
    /\ \A k \in 1 .. Len(members) : members[k] = list[j + k]
    /\ \A o \in Ids : (var[o] # NULL /\ o \notin load.touched) =>
         m_value[o] = Outcome(list, var[o].name, var[o].type, load.before[o], j)

LoadInv ==
    load # NULL =>
        /\ load.doc \in Documents
        /\ load = [doc |-> load.doc, before |-> load.before, touched |-> load.touched]
        /\ stack # <<>> => stack[1].caught
        /\ \E list \in {Listed[load.doc]} : \E j \in 0 .. Len(list) : LoadProgress(list, j)

\* The list of a document that is loaded.
LEMMA ListOfLoad ==
    ASSUME NEW doc \in Documents
    PROVE  Listed[doc] \in Seq(Members) /\ Len(Listed[doc]) \in Nat
           /\ DOMAIN Listed[doc] = 1 .. Len(Listed[doc])
<1>1. Listed[doc] \in Seq(Members)
  BY ListedType, NodesAssumption DEF NodesAssumption
<1> QED  BY <1>1

\* The last entry that converts is the one that counts.
LEMMA OutcomeNext ==
    ASSUME NEW list, NEW name, NEW type, NEW before, NEW j \in Nat
    PROVE  Outcome(list, name, type, before, j + 1) =
             IF Given(list, name, type, j + 1) = THROWS THEN Outcome(list, name, type, before, j)
             ELSE Given(list, name, type, j + 1)
<1>1. CASE Given(list, name, type, j + 1) = THROWS
  <2>1. Good(list, name, type, j + 1) = Good(list, name, type, j)
    <3>1. \A k \in 1 .. j + 1 : k \in 1 .. j \/ k = j + 1
      OBVIOUS
    <3>2. \A k \in 1 .. j : k \in 1 .. j + 1
      OBVIOUS
    <3> QED  BY <1>1, <3>1, <3>2 DEF Good
  <2> QED  BY <1>1, <2>1 DEF Outcome
<1>2. CASE Given(list, name, type, j + 1) # THROWS
  <2>1. PICK S : S = Good(list, name, type, j + 1)
    OBVIOUS
  <2>2. S \subseteq 1 .. j + 1 /\ j + 1 \in S
    BY <1>2, <2>1 DEF Good
  <2>3. S \subseteq 1 .. j + 1 /\ S # {} /\ j + 1 \in Nat
    BY <2>2
  <2>4. Max(S) \in S /\ \A k \in S : k <= Max(S)
    BY <2>3, LastOfKey
  <2>5. Max(S) = j + 1
    <3>1. PICK m : m = Max(S)
      OBVIOUS
    <3>2. m \in 1 .. j + 1 /\ j + 1 <= m
      BY <2>2, <2>4, <3>1
    <3> QED  BY <3>1, <3>2
  <2> QED  BY <1>2, <2>1, <2>3, <2>5 DEF Outcome
<1> QED  BY <1>1, <1>2

\* Nothing has been loaded before the first entry.
LEMMA OutcomeStart ==
    ASSUME NEW list, NEW name, NEW type, NEW before
    PROVE  Outcome(list, name, type, before, 0) = before
BY DEF Outcome, Good

\* All entries together make of a variable what LoadIsolated expects.
LEMMA OutcomeIsExpected ==
    ASSUME NEW o, load.doc \in Documents
    PROVE  Expected(o) = Outcome(Listed[load.doc], var[o].name, var[o].type, load.before[o],
                                 Len(Listed[load.doc]))
<1> DEFINE list == Listed[load.doc]
           n == Len(list)
           given == [k \in DOMAIN list |-> IF list[k].name = var[o].name
                                           THEN FromStr(var[o].type, list[k].node) ELSE THROWS]
           good == {k \in DOMAIN list : given[k] # THROWS}
<1>1. DOMAIN list = 1 .. n /\ n \in Nat
  BY ListOfLoad
<1>2. \A k \in DOMAIN list : given[k] = Given(list, var[o].name, var[o].type, k)
  BY DEF Given
<1>3. good = Good(list, var[o].name, var[o].type, n)
  <2> HIDE DEF given, list, n
  <2> QED  BY <1>1, <1>2 DEF Good
<1>4. Expected(o) = IF good = {} THEN load.before[o] ELSE given[Max(good)]
  BY DEF Expected
<1>5. good # {} => Max(good) \in DOMAIN list
  <2> HIDE DEF given, list, n
  <2>1. good \subseteq 1 .. n
    BY <1>1
  <2> HIDE DEF good
  <2>2. good # {} => Max(good) \in good
    BY <1>1, <2>1, LastOfKey
  <2> QED  BY <1>1, <2>1, <2>2
<1> HIDE DEF given, list, n, good
<1>6. Expected(o) = Outcome(list, var[o].name, var[o].type, load.before[o], n)
  BY <1>2, <1>3, <1>4, <1>5 DEF Outcome
<1> QED  BY <1>6 DEF list, n

\* What a setValue does to the other variables and to the calls in progress.
LEMMA SetElsewhere ==
    ASSUME ConfigInv, NEW s \in Seq(Frames), NEW o \in Ids, NEW v, NEW caught \in BOOLEAN,
           SetValueOn(s, o, v, caught)
    PROVE  /\ m_value'[o] = v /\ \A q \in Ids \ {o} : m_value'[q] = m_value[q]
           /\ s = <<>> => stack' = <<>> \/ (stack' # <<>> /\ stack'[1].caught = caught)
           /\ s # <<>> => stack' # <<>> /\ stack'[1] = s[1]
<1>1. CASE m_value[o] = v
  BY <1>1 DEF SetValueOn
<1>2. CASE m_value[o] # v
  <2> DEFINE f == [var |-> o, new |-> v, old |-> m_value[o], at |-> 0, caught |-> caught]
  <2>1. m_value' = [m_value EXCEPT ![o] = v] /\ stack' = Append(s, f)
    BY <1>2 DEF SetValueOn
  <2>2. m_value = [q \in Ids |-> m_value[q]]
    BY DEF ConfigInv, ConfigTypes, VariablesTyped
  <2>3. m_value'[o] = v /\ \A q \in Ids \ {o} : m_value'[q] = m_value[q]
    BY <2>1, <2>2
  <2>4. f.caught = caught
    OBVIOUS
  <2>5. /\ Len(s) \in Nat /\ stack' # <<>> /\ stack'[Len(s) + 1] = f
        /\ \A k \in 1 .. Len(s) : stack'[k] = s[k]
    <3> HIDE DEF f
    <3> QED  BY <2>1
  <2>6. s = <<>> => Len(s) + 1 = 1
    OBVIOUS
  <2>7. s # <<>> => 1 \in 1 .. Len(s)
    OBVIOUS
  <2> HIDE DEF f
  <2> QED  BY <2>3, <2>4, <2>5, <2>6, <2>7
<1> QED  BY <1>1, <1>2

\* A step that leaves the load and the variables no listener set alone, and
\* the outermost call.
LEMMA LoadKept ==
    ASSUME LoadInv, UNCHANGED <<var, members>>,
           load # NULL => /\ load'.doc = load.doc /\ load'.before = load.before
                          /\ load' = [doc |-> load.doc, before |-> load.before, touched |-> load'.touched]
                          /\ load.touched \subseteq load'.touched,
           load' # NULL => load # NULL,
           \A o \in Ids : (var[o] # NULL /\ m_value'[o] # m_value[o]) => load = NULL \/ o \in load'.touched,
           (load # NULL /\ stack' # <<>>) => stack # <<>> /\ stack'[1].caught = stack[1].caught
    PROVE  LoadInv'
<1> SUFFICES ASSUME load' # NULL
             PROVE  /\ load'.doc \in Documents
                    /\ load' = [doc |-> load'.doc, before |-> load'.before, touched |-> load'.touched]
                    /\ stack' # <<>> => stack'[1].caught
                    /\ \E list \in {Listed[load'.doc]} : \E j \in 0 .. Len(list) : LoadProgress(list, j)'
  BY DEF LoadInv, LoadProgress
<1>1. load # NULL /\ load'.doc = load.doc /\ load'.before = load.before
  OBVIOUS
<1>2. load.doc \in Documents /\ (stack # <<>> => stack[1].caught)
  BY <1>1 DEF LoadInv
<1>3. PICK list : list = Listed[load.doc]
  OBVIOUS
<1>4. PICK j \in 0 .. Len(list) : LoadProgress(list, j)
  BY <1>1, <1>3 DEF LoadInv
<1>5. LoadProgress(list, j)'
  BY <1>1, <1>4 DEF LoadProgress
<1>6. load'.doc \in Documents
      /\ load' = [doc |-> load'.doc, before |-> load'.before, touched |-> load'.touched]
  BY <1>1, <1>2
<1>7. stack' # <<>> => stack'[1].caught
  BY <1>1, <1>2
<1> QED  BY <1>1, <1>3, <1>4, <1>5, <1>6, <1>7 DEF LoadProgress

\* A round of a loop leaves the outermost call's catcher, if there is one.
LEMMA RoundOutermost ==
    ASSUME ConfigInv, stack # <<>>, After(Top.at) # {}
    PROVE  Advanced # <<>> /\ Advanced[1].caught = stack[1].caught /\ 1 \in 1 .. Len(stack)
<1>1. Len(stack) \in Nat /\ Len(stack) \in 1 .. Len(stack)
  BY LoopFacts DEF ConfigInv
<1>2. 1 \in 1 .. Len(stack) /\ Len(stack) # 0
  BY <1>1
<1>3. Len(Advanced) = Len(stack) /\ \A k \in 1 .. Len(stack) : Advanced[k].caught = stack[k].caught
  BY AdvancedFacts DEF ConfigInv
<1>4. Advanced # <<>>
  BY <1>2, <1>3
<1> QED  BY <1>2, <1>3, <1>4

\* A listener returns, adds or removes.
LEMMA RoundLoad ==
    ASSUME ConfigInv, LoadInv, NEW does, Calls(does), stack' = Advanced,
           UNCHANGED <<var, m_value, members, load>>
    PROVE  LoadInv'
<1>1. stack # <<>> /\ stack' # <<>> /\ stack'[1].caught = stack[1].caught
  BY RoundOutermost DEF Calls
<1>2. load # NULL => load = [doc |-> load.doc, before |-> load.before, touched |-> load.touched]
  BY DEF LoadInv
<1> QED  BY <1>1, <1>2, LoadKept

\* A listener throws: the load goes on, because it calls fromString.
LEMMA ThrowsLoad ==
    ASSUME ConfigInv, LoadInv, ListenerThrows
    PROVE  LoadInv'
<1>1. Calls("throws") /\ stack' = Unwound(Advanced) /\ UNCHANGED <<var, m_value, load>>
      /\ members' = IF \E k \in DOMAIN stack : stack[k].caught THEN members ELSE <<>>
  BY DEF ListenerThrows
<1>2. CASE load = NULL
  BY <1>1, <1>2 DEF LoadInv
<1>3. CASE load # NULL
  <2>1. /\ load = [doc |-> load.doc, before |-> load.before, touched |-> load.touched]
        /\ stack # <<>> /\ stack[1].caught
    BY <1>1, <1>3 DEF LoadInv, Calls
  <2>2. Advanced # <<>> /\ Advanced[1].caught = stack[1].caught /\ 1 \in 1 .. Len(stack)
    BY <1>1, RoundOutermost DEF Calls
  <2>3. members' = members
    <3>1. DOMAIN stack = 1 .. Len(stack)
      BY DEF ConfigInv, ConfigTypes, FramesTyped
    <3> QED  BY <1>1, <2>1, <2>2, <3>1
  <2>4. FramesTyped(Advanced)
    BY <1>1, RoundFacts
  <2>5. PICK m \in 0 .. Len(Advanced) : Unwound(Advanced) = SubSeq(Advanced, 1, m)
    BY <2>4, UnwoundFacts
  <2>6. Len(stack') = m /\ \A k \in 1 .. m : stack'[k] = Advanced[k]
    BY <1>1, <2>4, <2>5, CutFrames
  <2>7. stack' # <<>> => stack'[1].caught = stack[1].caught
    <3>1. stack' \in Seq(Frames)
      <4>1. FramesTyped(SubSeq(Advanced, 1, m))
        BY <2>4, CutFrames
      <4> QED  BY <1>1, <2>5, <4>1 DEF FramesTyped
    <3>2. stack' # <<>> => m # 0
      BY <2>6, <3>1
    <3>3. m \in Nat
      BY <2>5, <2>6, <3>1, LenProperties
    <3>4. stack' # <<>> => 1 \in 1 .. m
      BY <3>2, <3>3
    <3> QED  BY <2>2, <2>6, <3>4
  <2> QED  BY <1>1, <1>3, <2>1, <2>3, <2>7, LoadKept
<1> QED  BY <1>2, <1>3

\* A listener sets a variable: that one is excepted from now on.
LEMMA SetsLoad ==
    ASSUME ConfigInv, LoadInv, ListenerSets
    PROVE  LoadInv'
<1>1. Calls("sets") /\ UNCHANGED <<var, members>>
  BY DEF ListenerSets
<1>2. PICK s, o, cb : s = Advanced /\ o = Found(Callback.name, Callback.type) /\ cb = Callback
  OBVIOUS
<1>3. s \in Seq(Frames) /\ s # <<>> /\ s[1].caught = stack[1].caught /\ stack # <<>>
      /\ CallbackOK(cb) /\ cb.does = "sets"
  BY <1>1, <1>2, RoundFacts, RoundOutermost DEF FramesTyped
<1>4. load # NULL => load = [doc |-> load.doc, before |-> load.before, touched |-> load.touched]
  BY DEF LoadInv
<1>5. CASE o = NULL
  <2>1. stack' = s /\ UNCHANGED <<m_value, load>>
    BY <1>2, <1>5 DEF ListenerSets
  <2> QED  BY <1>1, <1>3, <1>4, <2>1, LoadKept
<1>6. CASE o # NULL
  <2>1. /\ IF cb.by = "setValue" THEN SetValueOn(s, o, FromStr(cb.type, cb.node), FALSE)
           ELSE FromStringOn(s, o, cb.node)
        /\ load' = IF load = NULL THEN NULL ELSE [load EXCEPT !.touched = @ \cup {o}]
    BY <1>2, <1>6 DEF ListenerSets
  <2>2. o \in Ids
    BY <1>2, <1>3, <1>6, FoundLive DEF ConfigInv, CallbackOK
  <2>3. /\ \A q \in Ids \ {o} : m_value'[q] = m_value[q]
        /\ stack' # <<>> /\ stack'[1] = s[1]
    <3>1. CASE cb.by = "setValue"
      <4>1. PICK v : v = FromStr(cb.type, cb.node)
        OBVIOUS
      <4>2. SetValueOn(s, o, v, FALSE)
        BY <2>1, <3>1, <4>1
      <4> QED  BY <1>3, <2>2, <4>2, SetElsewhere
    <3>2. CASE cb.by # "setValue"
      <4>1. FromStringOn(s, o, cb.node)
        BY <2>1, <3>2
      <4>2. PICK v : v = FromStr(var[o].type, cb.node)
        OBVIOUS
      <4>3. CASE v = THROWS
        BY <1>3, <4>1, <4>2, <4>3 DEF FromStringOn
      <4>4. CASE v # THROWS
        <5>1. SetValueOn(s, o, v, TRUE)
          BY <4>1, <4>2, <4>4 DEF FromStringOn
        <5> QED  BY <1>3, <2>2, <5>1, SetElsewhere
      <4> QED  BY <4>3, <4>4
    <3> QED  BY <3>1, <3>2
  <2>4. load # NULL =>
          /\ load'.doc = load.doc /\ load'.before = load.before
          /\ load' = [doc |-> load.doc, before |-> load.before, touched |-> load'.touched]
          /\ load'.touched = load.touched \cup {o}
    <3> SUFFICES ASSUME load # NULL
                 PROVE  load' = [doc |-> load.doc, before |-> load.before, touched |-> load.touched \cup {o}]
      OBVIOUS
    <3>1. load' = [load EXCEPT !.touched = @ \cup {o}]
      BY <2>1
    <3> QED  BY <1>4, <3>1
  <2>5. load' # NULL => load # NULL
    BY <2>1
  <2> QED  BY <1>1, <1>3, <2>3, <2>4, <2>5, LoadKept
<1> QED  BY <1>5, <1>6

\* A setValue returns.
LEMMA SetValueReturnsLoad ==
    ASSUME ConfigInv, LoadInv, SetValueReturns
    PROVE  LoadInv'
<1>1. stack # <<>> /\ stack' = Front(stack) /\ UNCHANGED <<var, m_value, members, load>>
  BY DEF SetValueReturns, history
<1>2. stack \in Seq(Frames) /\ Len(stack) \in Nat /\ Len(stack) \in 1 .. Len(stack) /\ FramesTyped(stack)
  BY <1>1, LoopFacts DEF ConfigInv, ConfigTypes, FramesTyped
<1>3. PICK m \in 0 .. Len(stack) : m = Len(stack) - 1
  <2>1. Len(stack) - 1 \in 0 .. Len(stack)
    BY <1>2
  <2> QED  BY <2>1
<1>4. stack' = SubSeq(stack, 1, m)
  BY <1>1, <1>3 DEF Front
<1>5. Len(stack') = m /\ \A k \in 1 .. m : stack'[k] = stack[k]
  BY <1>2, <1>4, CutFrames
<1>6. stack' # <<>> => stack'[1].caught = stack[1].caught
  <2>1. stack' \in Seq(Frames)
    BY <1>2, <1>4, CutFrames DEF FramesTyped
  <2>2. stack' # <<>> => m # 0
    BY <1>5, <2>1
  <2>3. stack' # <<>> => 1 \in 1 .. m
    BY <1>2, <1>3, <2>2
  <2> QED  BY <1>5, <2>3
<1>7. load # NULL => load = [doc |-> load.doc, before |-> load.before, touched |-> load.touched]
  BY DEF LoadInv
<1> QED  BY <1>1, <1>6, <1>7, LoadKept

\* The loop of LoadFromYaml goes one entry further, and so does the variable
\* of that name.
LEMMA LoadNextLoad ==
    ASSUME ConfigInv, LoadInv, LoadNext
    PROVE  LoadInv'
<1> SUFFICES ASSUME load # NULL PROVE LoadInv'
  BY DEF LoadInv, LoadNext
<1>1. /\ stack = <<>> /\ members # <<>> /\ members' = Tail(members)
      /\ UNCHANGED <<datas, var, load>>
  BY DEF LoadNext
<1>2. PICK list : list = Listed[load.doc]
  OBVIOUS
<1>3. PICK j \in 0 .. Len(list) : LoadProgress(list, j)
  BY <1>2 DEF LoadInv
<1>4. /\ load.doc \in Documents
      /\ load = [doc |-> load.doc, before |-> load.before, touched |-> load.touched]
  BY DEF LoadInv
<1>5. list \in Seq(Members) /\ Len(list) \in Nat
  BY <1>2, <1>4, ListOfLoad
<1>6. members \in Seq(Members) /\ Len(members) \in Nat /\ Len(members) # 0
  BY <1>1 DEF ConfigInv, ConfigTypes
<1>7. /\ Len(members) = Len(list) - j /\ members[1] = list[j + 1]
      /\ \A k \in 1 .. Len(members) : members[k] = list[j + k]
  BY <1>3, <1>6 DEF LoadProgress
<1>8. /\ j \in Nat /\ j + 1 \in 0 .. Len(list)
      /\ Len(members') = Len(list) - (j + 1)
      /\ \A k \in 1 .. Len(members') : members'[k] = list[(j + 1) + k]
  <2>1. j \in Nat /\ j + 1 \in 0 .. Len(list)
    BY <1>5, <1>6, <1>7
  <2>2. Len(members') = Len(members) - 1 /\ \A k \in 1 .. Len(members) - 1 : members'[k] = members[k + 1]
    BY <1>1, <1>6, HeadTailProperties
  <2>3. ASSUME NEW k \in 1 .. Len(members') PROVE members'[k] = list[(j + 1) + k]
    <3>1. k + 1 \in 1 .. Len(members) /\ k \in 1 .. Len(members) - 1 /\ j + (k + 1) = (j + 1) + k
      BY <1>6, <2>1, <2>2
    <3> QED  BY <1>7, <2>2, <3>1
  <2> QED  BY <1>5, <1>6, <1>7, <2>1, <2>2, <2>3
<1>9. PICK name, node : name = list[j + 1].name /\ node = list[j + 1].node
  OBVIOUS
<1>10. Head(members) = list[j + 1]
  BY <1>1, <1>6, <1>7
\* What the entry says of a variable, and what becomes of it.
<1>11. \A o \in Ids : var[o] # NULL =>
         Given(list, var[o].name, var[o].type, j + 1) =
           IF name = var[o].name THEN FromStr(var[o].type, node) ELSE THROWS
  BY <1>9 DEF Given
<1>12. /\ stack' # <<>> => stack'[1].caught
       /\ \A o \in Ids : var[o] # NULL =>
            m_value'[o] = LET g == Given(list, var[o].name, var[o].type, j + 1)
                          IN  IF g = THROWS THEN m_value[o] ELSE g
  <2>0. \A o \in Ids : var[o] # NULL => var[o].name \in Names /\ datas[var[o].name] = o
    BY DEF ConfigInv, ConfigTypes, VariablesTyped
  <2>1. CASE name \notin Names \/ datas[name] = NULL
    <3>1. UNCHANGED <<m_value, stack>>
      BY <1>9, <1>10, <2>1 DEF LoadNext
    <3>2. NULL \notin Ids
      BY ConfigAssumption DEF ConfigAssumption
    <3>3. \A o \in Ids : var[o] # NULL => var[o].name # name
      BY <2>0, <2>1, <3>2
    <3> QED  BY <1>1, <1>11, <3>1, <3>3
  <2>2. CASE name \in Names /\ datas[name] # NULL
    <3>1. PICK q \in Ids : q = datas[name] /\ var[q] # NULL /\ var[q].name = name
      <4>1. datas[name] \in Ids /\ var[datas[name]] = [name |-> name, type |-> var[datas[name]].type]
            /\ var[datas[name]] # NULL
        BY <2>2 DEF ConfigInv, ConfigTypes, RegistryInv
      <4>2. PICK x : x = var[datas[name]].type
        OBVIOUS
      <4>3. var[datas[name]] = [name |-> name, type |-> x]
        BY <4>1, <4>2
      <4> QED  BY <4>1, <4>3
    <3>2. FromStringOn(<<>>, q, node)
      BY <1>9, <1>10, <2>2, <3>1 DEF LoadNext
    <3>3. PICK v : v = FromStr(var[q].type, node)
      OBVIOUS
    <3>4. \A o \in Ids \ {q} : var[o] # NULL => var[o].name # name
      BY <2>0, <3>1
    <3>5. Given(list, var[q].name, var[q].type, j + 1) = v
      BY <1>11, <3>1, <3>3
    <3>6. CASE v = THROWS
      <4>1. stack' = <<>> /\ m_value' = m_value
        BY <3>2, <3>3, <3>6 DEF FromStringOn
      <4> QED  BY <1>11, <3>4, <3>5, <3>6, <4>1
    <3>7. CASE v # THROWS
      <4>1. SetValueOn(<<>>, q, v, TRUE)
        BY <3>2, <3>3, <3>7 DEF FromStringOn
      <4>2. /\ m_value'[q] = v /\ \A o \in Ids \ {q} : m_value'[o] = m_value[o]
            /\ stack' = <<>> \/ stack'[1].caught = TRUE
        <5>1. <<>> \in Seq(Frames)
          OBVIOUS
        <5> QED  BY <4>1, <5>1, SetElsewhere
      <4> QED  BY <1>11, <3>4, <3>5, <3>7, <4>2
    <3> QED  BY <3>6, <3>7
  <2> QED  BY <2>1, <2>2
<1>13. ASSUME NEW o \in Ids, var[o] # NULL, o \notin load.touched
       PROVE  m_value'[o] = Outcome(list, var[o].name, var[o].type, load.before[o], j + 1)
  <2>1. m_value[o] = Outcome(list, var[o].name, var[o].type, load.before[o], j)
    BY <1>3, <1>13 DEF LoadProgress
  <2>2. Outcome(list, var[o].name, var[o].type, load.before[o], j + 1) =
          IF Given(list, var[o].name, var[o].type, j + 1) = THROWS
          THEN Outcome(list, var[o].name, var[o].type, load.before[o], j)
          ELSE Given(list, var[o].name, var[o].type, j + 1)
    BY <1>8, OutcomeNext
  <2> QED  BY <1>12, <1>13, <2>1, <2>2
<1>14. LoadProgress(list, j + 1)'
  BY <1>1, <1>8, <1>13 DEF LoadProgress
<1>15. PICK i \in 0 .. Len(list) : LoadProgress(list, i)'
  BY <1>8, <1>14
<1> QED  BY <1>1, <1>2, <1>4, <1>12, <1>15 DEF LoadInv

\* LoadFromYaml starts.
LEMMA LoadStarts ==
    ASSUME ConfigInv, NEW doc \in Documents, LoadFromYaml(doc)
    PROVE  LoadInv'
<1>1. /\ members' = Listed[doc] /\ stack' = <<>>
      /\ load' = [doc |-> doc, before |-> m_value, touched |-> {}]
      /\ UNCHANGED <<var, m_value>>
  BY DEF LoadFromYaml, Idle
<1>2. PICK list : list = Listed[doc]
  OBVIOUS
<1>3. Len(list) \in Nat
  BY <1>2, ListOfLoad
<1>4. load'.doc = doc /\ load'.before = m_value /\ load'.touched = {}
  BY <1>1
<1>5. LoadProgress(list, 0)'
  <2>1. Len(members') = Len(list) - 0 /\ \A k \in 1 .. Len(members') : members'[k] = list[0 + k]
    BY <1>1, <1>2, <1>3
  <2>2. \A o \in Ids : m_value'[o] = Outcome(list, var'[o].name, var'[o].type, load'.before[o], 0)
    BY <1>1, <1>4, OutcomeStart
  <2> QED  BY <2>1, <2>2 DEF LoadProgress
<1>6. PICK i \in 0 .. Len(list) : LoadProgress(list, i)'
  BY <1>3, <1>5
<1>7. load' = [doc |-> load'.doc, before |-> load'.before, touched |-> load'.touched]
  BY <1>1, <1>4
<1> QED  BY <1>1, <1>2, <1>4, <1>6, <1>7 DEF LoadInv

\* Every step keeps the load's progress.
LEMMA LoadStep == ConfigInv /\ LoadInv /\ [Next]_vars => LoadInv'
<1> SUFFICES ASSUME ConfigInv, LoadInv, [Next]_vars PROVE LoadInv'
  OBVIOUS
<1>1. CASE UNCHANGED vars
  <2>1. UNCHANGED <<var, m_value, members, load, stack>>
    BY <1>1 DEF vars, history
  <2>2. load # NULL => load = [doc |-> load.doc, before |-> load.before, touched |-> load.touched]
    BY DEF LoadInv
  <2> QED  BY <2>1, <2>2, LoadKept
<1>2. CASE Clients
  <2>1. load' = NULL
    BY <1>2 DEF Clients, Create, Lookup, SetValue, AddListener, RemoveListener
  <2> QED  BY <2>1 DEF LoadInv
<1>3. ASSUME NEW doc \in Documents, LoadFromYaml(doc) PROVE LoadInv'
  BY <1>3, LoadStarts
<1>4. CASE ListenerReturns
  BY <1>4, RoundLoad DEF ListenerReturns
<1>5. CASE ListenerAdds
  BY <1>5, RoundLoad DEF ListenerAdds
<1>6. CASE ListenerRemoves
  BY <1>6, RoundLoad DEF ListenerRemoves
<1>7. CASE ListenerThrows \/ ListenerSets \/ SetValueReturns \/ LoadNext
  BY <1>7, ThrowsLoad, SetsLoad, SetValueReturnsLoad, LoadNextLoad
<1> QED  BY <1>1, <1>2, <1>3, <1>4, <1>5, <1>6, <1>7 DEF Next, Steps

\* When LoadFromYaml is over, every variable has the last value of its name
\* that converts, or the one it had when none does, whatever the other entries
\* hold and whatever the listeners throw (config.cpp, Config::LoadFromYaml and
\* ListAllYamlMember); those a listener has set meanwhile are excepted.
THEOREM ConfigLoadIsolated == Spec => []LoadIsolated
<1>1. Init => LoadInv
  BY DEF Init, LoadInv
<1>2. Spec => []LoadInv
  BY <1>1, ConfigInvariant, LoadStep, PTL DEF Spec
<1>3. ASSUME ConfigInv, LoadInv PROVE LoadIsolated
  <2> SUFFICES ASSUME load # NULL, Idle, NEW n \in Names, datas[n] # NULL, datas[n] \notin load.touched
               PROVE  m_value[datas[n]] = Expected(datas[n])
    BY DEF LoadIsolated
  <2>1. PICK o \in Ids : o = datas[n] /\ var[o] # NULL
    BY <1>3 DEF ConfigInv, ConfigTypes, RegistryInv
  <2>2. PICK list : list = Listed[load.doc]
    OBVIOUS
  <2>3. PICK j \in 0 .. Len(list) : LoadProgress(list, j)
    BY <1>3, <2>2 DEF LoadInv
  <2>4. load.doc \in Documents
    BY <1>3 DEF LoadInv
  <2>5. Len(list) \in Nat /\ Len(members) = 0
    BY <2>2, <2>4, ListOfLoad DEF Idle
  <2>6. j = Len(list)
    BY <2>3, <2>5 DEF LoadProgress
  <2>7. m_value[o] = Outcome(list, var[o].name, var[o].type, load.before[o], Len(list))
    BY <2>1, <2>3, <2>6 DEF LoadProgress
  <2> QED  BY <2>1, <2>2, <2>4, <2>7, OutcomeIsExpected
<1> QED  BY <1>2, <1>3, ConfigInvariant, PTL
=============================================================================
