------------------------------- MODULE Config -------------------------------
(***************************************************************************)
(* The configuration system of server/config.{h,cpp}: the registry of      *)
(* variables (Config), the variables with their listeners (ConfigVar), and *)
(* loading a YAML document into them.                                      *)
(*                                                                         *)
(* Nothing takes a lock: one thread does all of it. A setValue in progress *)
(* is a frame of the stack, because the listeners it calls are code of the *)
(* program that may throw, set variables, and add or remove listeners. A   *)
(* name is the sequence of what its dots separate.                         *)
(***************************************************************************)
EXTENDS LexicalCast

CONSTANTS
    Parts,        \* what the dots of names and of keys separate
    Names,        \* of variables
    ValidKeys,    \* the parts without a forbidden character
    Ids,          \* numbers of ConfigVar objects
    Callers,      \* variables of the program that hold a ConfigVar::ptr
    Listeners,    \* listener ids
    Subscriptions, \* types, listener ids and callbacks addListener is called with
    Creations,    \* names, types and defaults Create is called with
    Assignments,  \* types and values setValue is called with
    Nodes,        \* YAML nodes, with the nodes inside them
    Documents,    \* those LoadFromYaml is called with
    MaxDepth,     \* bound on the setValue calls in progress
    NULL

VARIABLES
    datas,     \* GetDatas(): a ConfigVar or NULL for each name
    var,       \* the ConfigVar objects: name and type
    m_value,
    m_cbs,     \* listener id -> callback
    stack,     \* setValue calls in progress
    members,   \* what LoadFromYaml has not looked at yet
    handle,    \* the pointer each caller got last, and what it asked for
    undefined, \* has a loop over m_cbs lost the element it stands on?
    heard,     \* history: the value each listener knows
    disturbed, \* history: the lowest id of a variable's listeners that threw,
               \* or led back to a setValue of that variable
    load       \* history: the last LoadFromYaml, NULL when a client did
               \* something since

history == <<heard, disturbed, load>>
vars == <<datas, var, m_value, m_cbs, stack, members, handle, undefined, history>>

Undisturbed == Max(Listeners \cup {0}) + 1

\* Some types of variables, which use all conversions of LexicalCast, and the
\* values of the C++ types they stand for.
Types == {"int", "set_int", "map_vector"}

IsValue(type, v) ==
    CASE type = "int" -> v \in Int
      [] type = "set_int" -> v \subseteq Int /\ IsFiniteSet(v)
      [] type = "map_vector" ->
           IsFiniteSet(DOMAIN v) /\ DOMAIN v \subseteq Seq(Parts) /\ v \in [DOMAIN v -> Seq(Int)]

FromStr(type, node) ==
    CASE type = "int" -> ToInt(node)
      [] type = "set_int" -> ToStdSet(Ints(node))
      [] type = "map_vector" ->
           ToMap(node, [k \in DOMAIN Values(node) |-> ToVector(Ints(Values(node)[k]))])

ToStr(type, value) ==
    CASE type = "int" -> FromInt(value)
      [] type = "set_int" -> FromStdSet({FromInt(n) : n \in value})
      [] type = "map_vector" ->
           FromMap([s \in DOMAIN value |->
                      FromVector([k \in DOMAIN value[s] |-> FromInt(value[s][k])])])

\* A listener is a callback of the program: what it adds has an id, what it
\* sets is a document, or a value written as one.
CallbackOK(cb) ==
    /\ cb.does = "adds" => cb.id \in Listeners
    /\ cb.does = "sets" => /\ cb.name \in Names /\ cb.type \in Types /\ cb.node \in Nodes
                           /\ cb.by = "setValue" => FromStr(cb.type, cb.node) # THROWS

ASSUME ConfigAssumption ==
    /\ Listeners \subseteq Nat \ {0} /\ IsFiniteSet(Listeners)
    /\ Ids \subseteq Nat /\ NULL \notin Ids
    /\ MaxDepth \in Nat \ {0}
    /\ Names \subseteq Seq(Parts)
    /\ THROWS \notin Int \cup Seq(Int)
    /\ \A a \in Creations : /\ a.name \in Names /\ a.type \in Types
                            /\ [name |-> a.name, type |-> a.type] # NULL
                            /\ IsValue(a.type, a.value) /\ a.value # NULL
    /\ \A a \in Assignments : IsValue(a.type, a.value) /\ a.value # NULL
    /\ \A s \in Subscriptions : s.id \in Listeners /\ CallbackOK(s.cb)
    /\ \A type \in Types, n \in Nodes : FromStr(type, n) # NULL

\* YAML documents are finite trees.
ASSUME NodesAssumption ==
    /\ Documents \subseteq Nodes /\ IsFiniteSet(Nodes)
    /\ \A n \in Nodes : /\ n.kind \in {"int", "word", "null", "seq", "map"}
                        /\ n.kind = "int" => n.int \in Int
                        /\ n.kind = "seq" => n.items \in Seq(Nodes)
                        /\ n.kind = "map" => n.entries \in Seq([key : Seq(Parts), node : Nodes])
    /\ \E depth \in [Nodes -> 0 .. Cardinality(Nodes)] :
         \A n \in Nodes : n.kind = "map" =>
           \A k \in DOMAIN n.entries : depth[n.entries[k].node] < depth[n]

Init ==
    /\ datas = [n \in Names |-> NULL]
    /\ var = [o \in Ids |-> NULL]
    /\ m_value = [o \in Ids |-> NULL]
    /\ m_cbs = [o \in Ids |-> <<>>]
    /\ stack = <<>> /\ members = <<>>
    /\ handle = [c \in Callers |-> NULL]
    /\ undefined = FALSE
    /\ heard = [o \in Ids |-> <<>>]
    /\ disturbed = [o \in Ids |-> Undisturbed]
    /\ load = NULL

\* The program outside listeners and LoadFromYaml.
Idle == stack = <<>> /\ members = <<>> /\ ~undefined

----------------------------------------------------------------------------
(* The registry.                                                           *)

Registered(o) == \E n \in Names : datas[n] = o

\* Lookup<T>: a variable of that name and type.
Found(name, type) ==
    IF datas[name] # NULL /\ var[datas[name]].type = type THEN datas[name] ELSE NULL

Lookup(c, name, type) ==
    /\ Idle
    /\ handle' = [handle EXCEPT ![c] = IF Found(name, type) = NULL THEN NULL
                                       ELSE [ptr |-> Found(name, type), name |-> name, type |-> type]]
    /\ load' = NULL
    /\ UNCHANGED <<datas, var, m_value, m_cbs, stack, members, undefined, heard, disturbed>>

\* Is o the next variable? They are numbered as they are made.
Fresh(o) == var[o] = NULL /\ \A q \in Ids : var[q] = NULL => o <= q

\* Mutant: whether there is one is decided by Lookup<T>.
Create_ByLookup(c, name, type, value) ==
    /\ Idle
    /\ IF Found(name, type) # NULL
       THEN /\ handle' = [handle EXCEPT ![c] = [ptr |-> datas[name], name |-> name, type |-> type]]
            /\ UNCHANGED <<datas, var, m_value>>
       ELSE \E o \in Ids :
              /\ Fresh(o)
              /\ var' = [var EXCEPT ![o] = [name |-> name, type |-> type]]
              /\ m_value' = [m_value EXCEPT ![o] = value]
              /\ datas' = [datas EXCEPT ![name] = o]
              /\ handle' = [handle EXCEPT ![c] = [ptr |-> o, name |-> name, type |-> type]]
    /\ load' = NULL
    /\ UNCHANGED <<m_cbs, stack, members, undefined, heard, disturbed>>

\* Create<T>(name, value): the variable there is, or an exception when it has
\* another type or the name is not valid, or a new variable. An exception
\* leaves the caller's pointer as it was.
Create(c, name, type, value) ==
    /\ Idle
    /\ IF datas[name] # NULL
       THEN /\ var[datas[name]].type = type
            /\ handle' = [handle EXCEPT ![c] = [ptr |-> datas[name], name |-> name, type |-> type]]
            /\ UNCHANGED <<datas, var, m_value>>
       ELSE /\ \A k \in DOMAIN name : name[k] \in ValidKeys
            /\ \E o \in Ids :
                 /\ Fresh(o)
                 /\ var' = [var EXCEPT ![o] = [name |-> name, type |-> type]]
                 /\ m_value' = [m_value EXCEPT ![o] = value]
                 /\ datas' = [datas EXCEPT ![name] = o]
                 /\ handle' = [handle EXCEPT ![c] = [ptr |-> o, name |-> name, type |-> type]]
    /\ load' = NULL
    /\ UNCHANGED <<m_cbs, stack, members, undefined, heard, disturbed>>

----------------------------------------------------------------------------
(* setValue and the listeners.                                             *)

Lower(d, o, ats) == [d EXCEPT ![o] = Min({@} \cup ats)]

\* Mutant: the same value is a change as well.
SetValueOn_Always(s, o, v, caught) ==
    /\ m_value' = [m_value EXCEPT ![o] = v]
    /\ stack' = Append(s, [var |-> o, new |-> v, old |-> m_value[o], at |-> 0,
                            caught |-> caught])
    /\ disturbed' = Lower(disturbed, o, {s[k].at : k \in {k \in DOMAIN s : s[k].var = o}})

\* setValue(v) on variable o, called with the calls s in progress; caught says
\* whether fromString will catch what the listeners throw. Nothing to do when
\* the value is the same.
SetValueOn(s, o, v, caught) ==
    IF m_value[o] = v
    THEN stack' = s /\ UNCHANGED <<m_value, disturbed>>
    ELSE /\ m_value' = [m_value EXCEPT ![o] = v]
         /\ stack' = Append(s, [var |-> o, new |-> v, old |-> m_value[o], at |-> 0,
                                caught |-> caught])
         /\ disturbed' = Lower(disturbed, o, {s[k].at : k \in {k \in DOMAIN s : s[k].var = o}})

\* fromString(node) on variable o: a text that does not convert changes nothing.
FromStringOn(s, o, node) ==
    LET v == FromStr(var[o].type, node)
    IN  IF v = THROWS THEN stack' = s /\ UNCHANGED <<m_value, disturbed>>
        ELSE SetValueOn(s, o, v, TRUE)

\* A client's call: what the listeners throw goes on to the client.
SetValue(c, v) ==
    /\ Idle
    /\ handle[c] # NULL
    /\ SetValueOn(<<>>, handle[c].ptr, v, FALSE)
    /\ load' = NULL
    /\ UNCHANGED <<datas, var, m_cbs, members, handle, undefined, heard>>

\* f[l] = x and f.erase(l), on a std::map.
With(f, l, x) == [k \in DOMAIN f \cup {l} |-> IF k = l THEN x ELSE f[k]]
Without(f, l) == [k \in DOMAIN f \ {l} |-> f[k]]

\* m_cbs[l] = cb, by a client that knows the value.
AddListener(c, l, cb) ==
    /\ Idle
    /\ handle[c] # NULL
    /\ LET o == handle[c].ptr
       IN  /\ m_cbs' = [m_cbs EXCEPT ![o] = With(@, l, cb)]
           /\ heard' = [heard EXCEPT ![o] = With(@, l, m_value[o])]
    /\ load' = NULL
    /\ UNCHANGED <<datas, var, m_value, stack, members, handle, undefined, disturbed>>

RemoveListener(c, l) ==
    /\ Idle
    /\ handle[c] # NULL
    /\ m_cbs' = [m_cbs EXCEPT ![handle[c].ptr] = Without(@, l)]
    /\ heard' = [heard EXCEPT ![handle[c].ptr] = Without(@, l)]
    /\ load' = NULL
    /\ UNCHANGED <<datas, var, m_value, stack, members, handle, undefined, disturbed>>

----------------------------------------------------------------------------
(* The loop of the innermost setValue: one listener is called per step, in *)
(* the order of their ids.                                                 *)

Top == Last(stack)
After(at) == {l \in DOMAIN m_cbs[Top.var] : l > at}
Called == Min(After(Top.at))
Callback == m_cbs[Top.var][Called]
Advanced == [stack EXCEPT ![Len(stack)].at = Called]

Calls(does) ==
    /\ ~undefined /\ stack # <<>>
    /\ After(Top.at) # {}
    /\ Callback.does = does

\* Mutant: the arguments are swapped.
Hears_Old == [heard EXCEPT ![Top.var][Called] = Top.old]

\* cb.second(value, old_value)
Hears == [heard EXCEPT ![Top.var][Called] = Top.new]

ListenerReturns ==
    /\ Calls("nothing")
    /\ heard' = Hears
    /\ stack' = Advanced
    /\ UNCHANGED <<datas, var, m_value, m_cbs, members, handle, undefined, disturbed, load>>

\* Where a std::exception out of the calls s is caught: by the innermost
\* fromString among them, which returns false, or by the caller of them all.
Unwound(s) ==
    LET catching == {k \in DOMAIN s : s[k].caught}
    IN  IF catching = {} THEN <<>> ELSE SubSeq(s, 1, Max(catching) - 1)

\* LoadFromYaml is left as well when nothing catches the exception.
ListenerThrows ==
    /\ Calls("throws")
    /\ heard' = Hears
    /\ stack' = Unwound(Advanced)
    /\ members' = IF \E k \in DOMAIN stack : stack[k].caught THEN members ELSE <<>>
    /\ disturbed' =
         [o \in Ids |-> Min({disturbed[o]} \cup
            {Advanced[k].at : k \in {k \in DOMAIN stack : k > Len(stack') /\ stack[k].var = o}})]
    /\ UNCHANGED <<datas, var, m_value, m_cbs, handle, undefined, load>>

\* A listener sets a variable, if there is one of that name and type, with
\* setValue or fromString.
ListenerSets ==
    /\ Calls("sets")
    /\ heard' = Hears
    /\ LET o == Found(Callback.name, Callback.type)
       IN  IF o = NULL THEN stack' = Advanced /\ UNCHANGED <<m_value, disturbed, load>>
           ELSE /\ Len(stack) < MaxDepth
                /\ IF Callback.by = "setValue"
                   THEN SetValueOn(Advanced, o, FromStr(Callback.type, Callback.node), FALSE)
                   ELSE FromStringOn(Advanced, o, Callback.node)
                /\ load' = IF load = NULL THEN NULL ELSE [load EXCEPT !.touched = @ \cup {o}]
    /\ UNCHANGED <<datas, var, m_cbs, members, handle, undefined>>

\* A loop that stands on the listener l has lost its way when l is erased or
\* replaced under it: what follows is undefined.
Loses(l) == \E k \in DOMAIN stack : Advanced[k].var = Top.var /\ Advanced[k].at = l

\* A listener adds another to the variable that calls it: the loop comes to
\* it if its id is higher.
ListenerAdds ==
    /\ Calls("adds")
    /\ m_cbs' = [m_cbs EXCEPT ![Top.var] = With(@, Callback.id, [does |-> "nothing"])]
    /\ heard' = [Hears EXCEPT ![Top.var] = With(@, Callback.id, m_value[Top.var])]
    /\ undefined' = Loses(Callback.id)
    /\ stack' = Advanced
    /\ UNCHANGED <<datas, var, m_value, members, handle, disturbed, load>>

\* A listener removes one from the variable that calls it.
ListenerRemoves ==
    /\ Calls("removes")
    /\ m_cbs' = [m_cbs EXCEPT ![Top.var] = Without(@, Callback.id)]
    /\ heard' = [Hears EXCEPT ![Top.var] = Without(@, Callback.id)]
    /\ undefined' = Loses(Callback.id)
    /\ stack' = Advanced
    /\ UNCHANGED <<datas, var, m_value, members, handle, disturbed, load>>

SetValueReturns ==
    /\ ~undefined /\ stack # <<>>
    /\ After(Top.at) = {}
    /\ stack' = Front(stack)
    /\ UNCHANGED <<datas, var, m_value, m_cbs, members, handle, undefined, history>>

----------------------------------------------------------------------------
(* Loading.                                                                *)

Valid(key) == \A k \in DOMAIN key : key[k] \in ValidKeys

\* ListAllYamlMember: the node itself and the members of each member, under
\* its key. A name that is not valid is left out, with what is below it.
Listed[n \in Nodes] ==
    <<[name |-> <<>>, node |-> n]>> \o
    IF n.kind # "map" THEN <<>>
    ELSE FlattenSeq([k \in DOMAIN n.entries |->
             LET key == n.entries[k].key
                 sub == Listed[n.entries[k].node]
             IN  IF Valid(key) THEN [m \in DOMAIN sub |-> [sub[m] EXCEPT !.name = key \o @]]
                 ELSE <<>>])

LoadFromYaml(doc) ==
    /\ Idle
    /\ members' = Listed[doc]
    /\ load' = [doc |-> doc, before |-> m_value, touched |-> {}]
    /\ UNCHANGED <<datas, var, m_value, m_cbs, stack, handle, undefined, heard, disturbed>>

\* Mutant: the loop sets the variable without fromString's try.
LoadNext_NotCaught ==
    /\ ~undefined /\ stack = <<>> /\ members # <<>>
    /\ members' = Tail(members)
    /\ LET m == Head(members)
       IN  IF m.name \notin Names \/ datas[m.name] = NULL
              \/ FromStr(var[datas[m.name]].type, m.node) = THROWS
           THEN UNCHANGED <<m_value, stack, disturbed>>
           ELSE SetValueOn(<<>>, datas[m.name], FromStr(var[datas[m.name]].type, m.node), FALSE)
    /\ UNCHANGED <<datas, var, m_cbs, handle, undefined, heard, load>>

\* Mutant: an entry that does not convert is tried again.
LoadNext_Retries ==
    /\ ~undefined /\ stack = <<>> /\ members # <<>>
    /\ LET m == Head(members)
       IN  IF m.name \notin Names \/ datas[m.name] = NULL
           THEN members' = Tail(members) /\ UNCHANGED <<m_value, stack, disturbed>>
           ELSE /\ members' = IF FromStr(var[datas[m.name]].type, m.node) = THROWS
                              THEN members ELSE Tail(members)
                /\ FromStringOn(<<>>, datas[m.name], m.node)
    /\ UNCHANGED <<datas, var, m_cbs, handle, undefined, heard, load>>

\* One round of LoadFromYaml's loop.
LoadNext ==
    /\ ~undefined /\ stack = <<>> /\ members # <<>>
    /\ members' = Tail(members)
    /\ LET m == Head(members)
       IN  IF m.name \notin Names \/ datas[m.name] = NULL
           THEN UNCHANGED <<m_value, stack, disturbed>>
           ELSE FromStringOn(<<>>, datas[m.name], m.node)
    /\ UNCHANGED <<datas, var, m_cbs, handle, undefined, heard, load>>

Clients ==
    \E c \in Callers :
      \/ \E a \in Creations : Create(c, a.name, a.type, a.value) \/ Lookup(c, a.name, a.type)
      \/ \E a \in Assignments : handle[c] # NULL /\ handle[c].type = a.type /\ SetValue(c, a.value)
      \/ \E s \in Subscriptions : handle[c] # NULL /\ handle[c].type = s.type /\ AddListener(c, s.id, s.cb)
      \/ \E l \in Listeners : RemoveListener(c, l)

Steps ==
    \/ ListenerReturns \/ ListenerThrows \/ ListenerSets \/ ListenerAdds \/ ListenerRemoves
    \/ SetValueReturns \/ LoadNext

Next == Clients \/ (\E doc \in Documents : LoadFromYaml(doc)) \/ Steps

\* The thread that loads goes on, and callbacks return.
Spec == Init /\ [][Next]_vars /\ WF_vars(Steps)

----------------------------------------------------------------------------
(* Properties.                                                             *)

\* A registered name leads to a variable of that name with a value of its type,
\* and there are no other variables; a setValue in progress is on one of them
\* and changed it, and what a load has still to look at are members of documents.
TypeOK ==
    /\ datas \in [Names -> Ids \cup {NULL}]
    /\ \A n \in Names : datas[n] # NULL => var[datas[n]] # NULL /\ var[datas[n]].name = n
    /\ \A o \in Ids : IF Registered(o) THEN IsValue(var[o].type, m_value[o])
                      ELSE var[o] = NULL /\ m_value[o] = NULL
    /\ \A o \in Ids : DOMAIN m_cbs[o] \subseteq Listeners /\ DOMAIN heard[o] = DOMAIN m_cbs[o]
    /\ \A k \in DOMAIN stack : Registered(stack[k].var) /\ stack[k].new # stack[k].old
    /\ members \in Seq([name : Seq(Parts), node : Nodes])
    /\ Len(stack) <= MaxDepth
    /\ undefined \in BOOLEAN

\* There is one variable of a name, of one type, for as long as the program
\* runs: whatever else was created under that name or looked for, a caller's
\* pointer is the variable LoadFromYaml sets, and of the type the caller asked
\* for (config.h, the comment in Create).
OneVariablePerName ==
    \A c \in Callers : handle[c] # NULL =>
        /\ datas[handle[c].name] = handle[c].ptr
        /\ var[handle[c].ptr] = [name |-> handle[c].name, type |-> handle[c].type]

Expected(o) ==
    LET list == Listed[load.doc]
        values == [k \in DOMAIN list |-> IF list[k].name = var[o].name
                                         THEN FromStr(var[o].type, list[k].node) ELSE THROWS]
        good == {k \in DOMAIN list : values[k] # THROWS}
    IN  IF good = {} THEN load.before[o] ELSE values[Max(good)]

\* LoadFromYaml treats each variable on its own: when it is over, every
\* variable it names has the last value there that converts, or its old one
\* when none does, whatever other entries do not convert, have invalid names,
\* or have listeners that throw in the middle of it. Variables that a listener
\* sets are excepted.
LoadIsolated ==
    (load # NULL /\ Idle) => \A n \in Names :
        (datas[n] # NULL /\ datas[n] \notin load.touched) => m_value[datas[n]] = Expected(datas[n])

\* When no setValue is in progress, a variable's listeners know the value in
\* force: all of them, up to the first that ever threw or led back to a
\* setValue of the same variable. Those after that one may have missed a
\* value, or have been told an older one last.
ListenersInformed ==
    (stack = <<>> /\ ~undefined) => \A n \in Names : datas[n] # NULL =>
        \A l \in DOMAIN m_cbs[datas[n]] :
            l <= disturbed[datas[n]] => heard[datas[n]][l] = m_value[datas[n]]

\* What toString() writes, fromString() reads back, for every value a variable
\* can come to have, containers in containers included.
RoundTrip ==
    \A o \in Ids : var[o] # NULL =>
        FromStr(var[o].type, ToStr(var[o].type, m_value[o])) = m_value[o]

\* The listeners that set something: their variable and their callback.
Setters == UNION {{<<o, cb>> : cb \in {c \in Range(m_cbs[o]) : c.does = "sets"}} : o \in Ids}
Target(cb) == Found(cb.name, cb.type)

\* Can a change of p come to change q, by way of listeners?
LeadsTo(p, q) ==
    \A C \in SUBSET Ids :
        (p \in C /\ \A s \in Setters : s[1] \in C /\ Target(s[2]) # NULL => Target(s[2]) \in C)
        => q \in C

\* No change of a variable comes back to it as two different values.
ListenersAgree ==
    \A o \in Ids : \A s, t \in {u \in Setters : Target(u[2]) = o /\ LeadsTo(o, u[1])} :
        LET v == FromStr(s[2].type, s[2].node)
            w == FromStr(t[2].type, t[2].node)
        IN  v = w \/ THROWS \in {v, w}

\* LoadFromYaml returns, whatever listeners throw or set, as long as they agree
\* on what they set: the comparison at the head of setValue ends the nesting
\* (config.h:209). It does not when two listeners of one variable set it to
\* different values, or two that lead back to it do: each of the two setValue
\* calls the other again, without end. Nor is anything claimed when a listener
\* erases the element a loop stands on.
LoadCompletes == (members # <<>> /\ ListenersAgree) ~> (Idle \/ undefined)
=============================================================================
