------------------------------ MODULE LuaValues ------------------------------
(* EseLuaValue (scripting/lua_value.c): the values that go between C and     *)
(* Lua.  Nodes form trees that C code makes, copies, puts into each other,   *)
(* gives to an entity as default props and destroys; Entity.publish and      *)
(* Entity.dispatch make trees of what a script passes, and push them for     *)
(* the functions they call.  The text and the object a node points to count  *)
(* as part of it, although nothing frees an error's text or the object of a  *)
(* copied typed value.                                                      *)
EXTENDS Integers, FiniteSets, Sequences, SequencesExt, TLC

CONSTANTS
  Nodes,      \* bound: memory for EseLuaValue, an interval from 1
  Labels,     \* names a node may have; "" is none
  Made, Set,  \* types that C code creates and sets values to
  Sendables   \* what scripts publish and dispatch (see Scalar and Table)

ASSUME LuaValuesAssumption == Nodes = 1 .. Cardinality(Nodes) /\ "" \in Labels

VARIABLES
  node,     \* Nodes -> [type, name, items]
  roots,    \* what C code has to destroy
  props,    \* the entity's default_props
  data,     \* the entity's data table: name -> Lua value
  wild,     \* freed memory was used, or lua_next was asked about a non-table
  sending,  \* what the running publish or dispatch converted: arguments
  meant,    \* what the script passed
  heard     \* and what the called function got

valueVars == <<node, roots, props, data, wild, sending, meant, heard>>

NoNode == [type |-> "free", name |-> "", items |-> <<>>]
NodeTypes == {"free", "nil", "number", "boolean", "userdata", "string", "error", "table", "object"}

LuaValuesInit ==
  /\ node = [c \in Nodes |-> NoNode]
  /\ roots = {} /\ props = <<>> /\ data = << >> /\ wild = FALSE
  /\ sending = <<>> /\ meant = <<>> /\ heard = <<>>

-----------------------------------------------------------------------------
Used == {c \in Nodes : node[c].type # "free"}
Room(n) == Cardinality(Nodes \ Used) >= n

Tree(c) ==
  LET grown[k \in 0 .. Cardinality(Nodes)] ==
        IF k = 0 THEN {c}
        ELSE grown[k - 1] \cup UNION {ToSet(node[b].items) : b \in grown[k - 1]}
  IN  grown[Cardinality(Nodes)]

(* The nodes the allocator hands out for n nodes, in order. *)
Fresh(n) == SubSeq(SetToSortSeq(Nodes \ Used, <), 1, n)

(* lua_value_destroy and _lua_value_reset: what is below goes. *)
Without(f, cs) == [c \in Nodes |-> IF c \in cs THEN NoNode ELSE f[c]]

(* lua_value_copy into fresh nodes: deep, but for what is shared on purpose *)
(* (a map, a function); a typed value's object is copied as well.           *)
CopyInto(c, fresh) ==
  LET old == SetToSortSeq(Tree(c), <)
      at == [b \in Tree(c) |-> fresh[CHOOSE i \in DOMAIN old : old[i] = b]]
  IN  [b \in {at[o] : o \in Tree(c)} |->
        LET o == CHOOSE o \in Tree(c) : at[o] = b IN
          [node[o] EXCEPT !.items = [i \in DOMAIN @ |-> at[@[i]]]]]

CopyRoot(c, fresh) == LET old == SetToSortSeq(Tree(c), <) IN fresh[CHOOSE i \in DOMAIN old : old[i] = c]

-----------------------------------------------------------------------------
(* What a function of Lua sees.  Fields are pairs of a key and what is there. *)
Scalar(kind) == [kind |-> kind, fields |-> {}]
Table(fields) == [kind |-> "table", fields |-> fields]

(* _lua_engine_push_luavalue: only these kinds arrive; fields without a name *)
(* are counted on their own.                                                *)
ToLua[c \in Nodes] ==
  LET n == node[c]
      Unnamed(i) == Cardinality({j \in 1 .. i : node[n.items[j]].name = ""})
      Key(i) == LET f == node[n.items[i]] IN IF f.name # "" THEN f.name ELSE ToString(Unnamed(i))
      Last1(i) == \A j \in DOMAIN n.items : Key(j) = Key(i) => j <= i
  IN  CASE n.type \in {"number", "boolean", "string"} -> Scalar(n.type)
        [] n.type = "userdata" -> Scalar("lightuserdata")
        [] n.type = "table" ->
             Table({<<Key(i), ToLua[n.items[i]]>> :
                      i \in {i \in DOMAIN n.items : Last1(i)}} \ ({Key(i) : i \in DOMAIN n.items} \X {Scalar("nil")}))
        [] OTHER -> Scalar("nil")

(* _lua_value_to_stack, for default props: the place in the table counts.   *)
Stored[c \in Nodes] ==
  LET n == node[c]
      Key(i) == LET f == node[n.items[i]] IN IF f.name # "" THEN f.name ELSE ToString(i)
      Last1(i) == \A j \in DOMAIN n.items : Key(j) = Key(i) => j <= i
  IN  CASE n.type \in {"number", "boolean", "string"} -> Scalar(n.type)
        [] n.type = "table" ->
             Table({<<Key(i), Stored[n.items[i]]>> :
                      i \in {i \in DOMAIN n.items : Last1(i)}} \ ({Key(i) : i \in DOMAIN n.items} \X {Scalar("nil")}))
        [] OTHER -> Scalar("nil")

(* lua_value_from_stack: functions and the rest become nil. *)
Arrived(kind) == IF kind \in {"number", "boolean", "string", "userdata"} THEN kind ELSE "nil"

(* A script's value is a kind, or a table as the sequence of pairs that     *)
(* lua_next goes through.                                                   *)
Size(v) == IF v.kind = "table" THEN 1 + Len(v.fields) ELSE 1
Nested(v) == v.kind = "table" /\ \E i \in DOMAIN v.fields : v.fields[i][2] = "table"

-----------------------------------------------------------------------------
Idle == ~wild /\ sending = <<>>

CreateValue(type, name) ==
  /\ Idle /\ Room(1)
  /\ LET c == Fresh(1)[1] IN
       /\ node' = [node EXCEPT ![c] = [NoNode EXCEPT !.type = type, !.name = name]]
       /\ roots' = roots \cup {c}
  /\ UNCHANGED <<props, data, wild, sending, meant, heard>>

CopyLuaValue(c) ==
  /\ Idle /\ c \in Used /\ Room(Cardinality(Tree(c)))
  /\ LET fresh == Fresh(Cardinality(Tree(c))) IN
       /\ node' = CopyInto(c, fresh) @@ node
       /\ roots' = roots \cup {CopyRoot(c, fresh)}
  /\ UNCHANGED <<props, data, wild, sending, meant, heard>>

(* lua_value_push: the table takes the value, or a copy of it.  C code does  *)
(* not put a table into itself.                                             *)
PushValue(t, c, copy) ==
  /\ Idle /\ t \in roots /\ c \in roots \ {t} /\ node[t].type = "table"
  /\ copy => Room(Cardinality(Tree(c)))
  /\ LET fresh == Fresh(Cardinality(Tree(c)))
         item == IF copy THEN CopyRoot(c, fresh) ELSE c
         now == IF copy THEN CopyInto(c, fresh) @@ node ELSE node
     IN  node' = [now EXCEPT ![t].items = Append(@, item)]
  /\ roots' = IF copy THEN roots ELSE roots \ {c}
  /\ UNCHANGED <<props, data, wild, sending, meant, heard>>

(* lua_value_set_nil and its like: the name stays. *)
SetValue(c, type) ==
  /\ Idle /\ c \in UNION {Tree(r) : r \in roots}
  /\ node' = [Without(node, Tree(c) \ {c}) EXCEPT ![c] = [NoNode EXCEPT !.type = type, !.name = node[c].name]]
  /\ UNCHANGED <<roots, props, data, wild, sending, meant, heard>>

(* lua_value_set_table_prop: the item of that name is destroyed before the   *)
(* new one is copied, which ends badly for a value that needs the old one,   *)
(* like the one lua_value_get_table_prop gives.                             *)
Named(t, name) == {i \in DOMAIN node[t].items : node[node[t].items[i]].name = name}

SetProp(t, c) ==
  /\ Idle /\ t \in roots /\ node[t].type = "table" /\ node[c].name # "" /\ Room(Cardinality(Tree(c)))
  /\ c \in roots \cup ToSet(node[t].items)
  /\ LET old == Named(t, node[c].name)
         i == CHOOSE i \in old : \A j \in old : i <= j
         gone == IF old = {} THEN {} ELSE Tree(node[t].items[i])
         fresh == Fresh(Cardinality(Tree(c)))
         new == CopyRoot(c, fresh)
     IN  IF gone \cap Tree(c) # {}
         THEN wild' = TRUE /\ UNCHANGED <<node>>
         ELSE /\ node' = [CopyInto(c, fresh) @@ Without(node, gone) EXCEPT
                            ![t].items = IF old = {} THEN Append(@, new) ELSE [@ EXCEPT ![i] = new]]
              /\ UNCHANGED wild
  /\ UNCHANGED <<roots, props, data, sending, meant, heard>>

DestroyValue(c) ==
  /\ Idle /\ c \in roots
  /\ node' = Without(node, Tree(c))
  /\ roots' = roots \ {c}
  /\ UNCHANGED <<props, data, wild, sending, meant, heard>>

(* entity_add_prop takes the value and shows it in the entity's data. *)
AddProp(c) ==
  /\ Idle /\ c \in roots /\ node[c].name # ""
  /\ data' = (node[c].name :> Stored[c]) @@ data
  /\ props' = Append(props, c)
  /\ roots' = roots \ {c}
  /\ UNCHANGED <<node, wild, sending, meant, heard>>

(* _entity_cleanup, and a new entity in its place. *)
DropProps ==
  LET gone == UNION {Tree(props[i]) : i \in DOMAIN props} IN
    /\ Idle /\ props # <<>>
    /\ node' = Without(node, gone)
    /\ props' = <<>> /\ data' = << >>
    /\ UNCHANGED <<roots, wild, sending, meant, heard>>

-----------------------------------------------------------------------------
(* The nodes for one value: of a table, its fields in the order of lua_next, *)
(* without their keys.                                                      *)
Converted(v, fresh) ==
  IF v.kind # "table" THEN fresh[1] :> [NoNode EXCEPT !.type = Arrived(v.kind)]
  ELSE (fresh[1] :> [NoNode EXCEPT !.type = "table", !.items = Tail(fresh)])
         @@ [c \in ToSet(Tail(fresh)) |->
              [NoNode EXCEPT !.type = Arrived(v.fields[CHOOSE i \in DOMAIN v.fields : fresh[i + 1] = c][2])]]

(* _entity_lua_publish, or _entity_lua_dispatch without an error in its      *)
(* arguments.  Of a table within a table, lua_next is asked about the nil    *)
(* that was just pushed.                                                    *)
Send(vs) ==
  /\ Idle
  /\ IF \E i \in DOMAIN vs : Nested(vs[i]) THEN wild' = TRUE /\ UNCHANGED <<node, sending, meant>>
     ELSE LET first[i \in 1 .. Len(vs) + 1] == IF i = 1 THEN 1 ELSE first[i - 1] + Size(vs[i - 1])
              need == first[Len(vs) + 1] - 1
              fresh == Fresh(need)
              Part(i) == SubSeq(fresh, first[i], first[i + 1] - 1)
              made[i \in 0 .. Len(vs)] ==
                IF i = 0 THEN node ELSE Converted(vs[i], Part(i)) @@ made[i - 1]
          IN  /\ Room(need)
              /\ node' = made[Len(vs)]
              /\ sending' = [i \in DOMAIN vs |-> fresh[first[i]]]
              /\ meant' = vs
              /\ UNCHANGED wild
  /\ UNCHANGED <<roots, props, data, heard>>

(* The function of one receiver is called; it may run again for the next.   *)
Hear ==
  /\ ~wild /\ sending # <<>>
  /\ heard' = [i \in DOMAIN sending |-> ToLua[sending[i]]]
  /\ UNCHANGED <<node, roots, props, data, wild, sending, meant>>

(* All have been called: the arguments are destroyed. *)
EndSend ==
  LET gone == UNION {Tree(sending[i]) : i \in DOMAIN sending} IN
    /\ ~wild /\ sending # <<>>
    /\ node' = Without(node, gone)
    /\ sending' = <<>> /\ meant' = <<>> /\ heard' = <<>>
    /\ UNCHANGED <<roots, props, data, wild>>

LuaValuesNext ==
  \/ \E type \in Made, name \in Labels : CreateValue(type, name)
  \/ \E c \in Nodes : CopyLuaValue(c) \/ DestroyValue(c) \/ AddProp(c)
  \/ \E t, c \in Nodes : SetProp(t, c) \/ \E copy \in BOOLEAN : PushValue(t, c, copy)
  \/ \E c \in Nodes, type \in Set : SetValue(c, type)
  \/ DropProps
  \/ \E vs \in Sendables : Send(vs)
  \/ Hear \/ EndSend

-----------------------------------------------------------------------------
LuaValuesTypeOK ==
  /\ \A c \in Nodes : node[c].type \in NodeTypes /\ node[c].name \in Labels /\ ToSet(node[c].items) \subseteq Nodes
  /\ roots \subseteq Nodes /\ ToSet(props) \subseteq Nodes /\ ToSet(sending) \subseteq Nodes
  /\ DOMAIN data \subseteq Labels
  /\ wild \in BOOLEAN

(* Every value has one owner: the C code that made it, the table it is in,   *)
(* the entity or the running call; what nobody owns is freed, and nothing    *)
(* freed is owned.                                                          *)
Owners(c) ==
  Cardinality({r \in roots : r = c}) + Cardinality({i \in DOMAIN props : props[i] = c})
    + Cardinality({i \in DOMAIN sending : sending[i] = c})
    + Cardinality({p \in Nodes \X (1 .. Cardinality(Nodes)) :
                     p[2] \in DOMAIN node[p[1]].items /\ node[p[1]].items[p[2]] = c})

OneOwner == ~wild => \A c \in Nodes : Owners(c) = IF c \in Used THEN 1 ELSE 0

(* What is left of a value of a kind on its way through C. *)
Surviving(kind) ==
  CASE kind \in {"number", "boolean", "string"} -> kind
    [] kind = "userdata" -> "lightuserdata"
    [] OTHER -> "nil"

(* A table arrives as the array of what lua_next found, without the keys,    *)
(* and with a hole where nothing is left.                                   *)
AsHeard(v) ==
  IF v.kind = "table"
  THEN Table({<<ToString(j), Scalar(Surviving(v.fields[j][2]))>> :
                j \in {j \in DOMAIN v.fields : Surviving(v.fields[j][2]) # "nil"}})
  ELSE Scalar(Surviving(v.kind))

(* What a script publishes or dispatches arrives, as many values as were     *)
(* sent, in their order and after any receiver before: scalars and arrays of *)
(* them as they are, an object as a bare pointer, and of a table that is not *)
(* an array the values alone, although the docs say that any table is        *)
(* delivered.  A table in a table is beyond this: it asks lua_next about nil. *)
ArrivesAsSent ==
  (~wild /\ heard # <<>>) =>
    Len(heard) = Len(meant) /\ \A i \in DOMAIN meant : heard[i] = AsHeard(meant[i])

(* An entity's data shows, under each name, the default prop added last.    *)
DataShowsProps ==
  ~wild => \A name \in DOMAIN data : \E i \in DOMAIN props :
    /\ node[props[i]].name = name /\ \A j \in DOMAIN props : node[props[j]].name = name => j <= i
    /\ data[name] = Stored[props[i]]
=============================================================================
