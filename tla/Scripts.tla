------------------------------ MODULE Scripts ------------------------------
(***************************************************************************)
(* Script components: the Lua system of entity/systems/lua_system.c, which *)
(* walks its array of components once a frame, and the calls of            *)
(* entity/components/entity_component_lua.c, which makes a component's     *)
(* instance of its script when it is first needed, initialises it and      *)
(* caches its functions.  The functions may call functions of any          *)
(* component, give components other scripts, and add or remove components  *)
(* of the system that is walking them, so that a call is a stack of        *)
(* frames: a function of Lua that runs, or C code that waits for one.      *)
(*                                                                         *)
(* A step that reads a freed component sets scriptFault and nothing happens *)
(* after it: what the program does from there on is undefined.             *)
(***************************************************************************)
EXTENDS Integers, Sequences, FiniteSets, SequencesExt

CONSTANTS
  ScriptComponents,  \* components of type ENTITY_COMPONENT_LUA
  ScriptNames,       \* scripts that a component may name
  MayName(_),        \* bound: those that a component is ever given
  NoScript,          \* script = NULL
  Has(_),            \* the functions that a script defines
  MaxInstances,      \* bound: instances ever made
  MaxEntries,        \* bound: entries of the system's array
  MaxFrames          \* bound: frames of the stack

ASSUME ScriptsAssumption == /\ NoScript \notin ScriptNames
                            /\ MaxInstances \in Nat /\ MaxFrames \in Nat
                            /\ MaxEntries \in Nat
                            /\ \A c \in ScriptComponents : MayName(c) \subseteq ScriptNames

VARIABLES
  comp,    \* of each component: its script, instance_ref and function_cache
  loaded,  \* the scripts that the Lua engine has loaded
  made,    \* the script of each instance ever made
  live,    \* the instances in the Lua registry
  list,    \* the system's array
  walk,    \* the index that lua_sys_update is at, or 0
  stack,   \* the calls under way
  hook,    \* the frame that the hook of the Lua state times, or 0
  inits,   \* history: how often each instance's entity_init began
  seen,    \* history: how often the walk came by each component
  moved,   \* history: was a component removed since the walk began?
  strays,  \* history: components attached while the array had them, or taken
           \* from an entity without telling the system
  gone,    \* the components that were freed
  scriptFault \* the freed components that were read: "stray" ones or others

walkVars    == <<list, walk, seen, moved>>
fateVars    == <<strays, gone>>
callVars    == <<comp, loaded, made, live, stack, hook, inits>>
scriptsVars == <<callVars, walkVars, fateVars, scriptFault>>

(* entity_update stands for all of STANDARD_FUNCTIONS but the first; others *)
(* are cached when they are first called.                                   *)
Standard == {"entity_init", "entity_update"}
Funs     == Standard \cup {"other"}

NoRef   == 0   \* LUA_NOREF
Missing == -1  \* what lua_engine_instance_script answers for an unknown script
Instances == 1..MaxInstances

(* What the cache says of a function: nothing, or whose function it is and  *)
(* whether the instance has one of that name.                               *)
Unknown == <<NoRef, FALSE>>
Empty   == [f \in Funs |-> Unknown]

ScriptsInit ==
  /\ comp = [c \in ScriptComponents |->
               [script |-> NoScript, inst |-> NoRef, cache |-> Empty]]
  /\ loaded = {} /\ made = <<>> /\ live = {}
  /\ list = <<>> /\ walk = 0
  /\ stack = <<>> /\ hook = 0
  /\ inits = [i \in Instances |-> 0]
  /\ seen = [c \in ScriptComponents |-> 0] /\ moved = FALSE
  /\ strays = {} /\ gone = {} /\ scriptFault = {}
-----------------------------------------------------------------------------
(* Calling a function of a component.                                       *)

(* The function f of the component that has the record k.                   *)
Found(k, f) == [k EXCEPT !.cache[f] = <<k.inst, f \in Has(made'[k.inst])>>]

(* _entity_component_lua_cache_functions *)
Filled(k) ==
  CASE k.inst = NoRef -> k
    [] k.inst = Missing -> [k EXCEPT !.cache = Empty]
    [] OTHER -> [k EXCEPT !.cache =
                   [f \in Funs |-> IF f \in Standard THEN Found(k, f).cache[f] ELSE Unknown]]

(* entity_component_lua_run of a component that is not to be instantiated:  *)
(* f is looked up, once, and runs if there is one.                          *)
Enter(c, k, f, below) ==
  LET q == IF k.cache[f] = Unknown /\ k.inst > 0 THEN Found(k, f) ELSE k
      i == q.cache[f][1]
  IN /\ comp' = [comp EXCEPT ![c] = q]
     /\ IF q.cache[f][2]
          THEN /\ stack' = Append(below, [at |-> "lua", of |-> c, fun |-> f, inst |-> i])
               /\ hook' = Len(below) + 1
               /\ inits' = IF f = "entity_init" THEN [inits EXCEPT ![i] = @ + 1] ELSE inits
          ELSE stack' = below /\ UNCHANGED <<hook, inits>>

(* lua_engine_instance_script: k with an instance of its script. *)
Instantiated(k) ==
  [k EXCEPT !.inst = IF k.script \in loaded THEN Len(made) + 1 ELSE Missing]

Instantiate(k) ==
  /\ Len(made) < MaxInstances
  /\ made' = IF k.script \in loaded THEN Append(made, k.script) ELSE made
  /\ live' = IF k.script \in loaded THEN live \cup {Len(made) + 1} ELSE live

(* A C frame: a call or an update that waits for entity_init to return.     *)
Waits(at, c, f) == [at |-> at, of |-> c, fun |-> f, inst |-> NoRef]

(* The first call of a new instance: unless it is entity_init itself, that  *)
(* one runs before the functions are cached and f is called.                *)
FirstCall(c, k, f, below) ==
  IF f = "entity_init" THEN Enter(c, Filled(k), f, below)
  ELSE Enter(c, k, "entity_init", Append(below, Waits("call", c, f)))

Run(c, f, below) ==
  LET k == comp[c] IN
  IF k.cache[f] = Unknown /\ k.inst = NoRef /\ k.script # NoScript
    THEN /\ Instantiate(k)
         /\ FirstCall(c, Instantiated(k), f, below)
    ELSE UNCHANGED <<made, live>> /\ Enter(c, k, f, below)

Top(at) == stack # <<>> /\ Last(stack).at = at

(* What the program does after it read a freed component is left out.       *)
Defined == scriptFault = {}

(* The component c is read that was freed. *)
ReadsFreed(c) ==
  /\ c \in gone
  /\ scriptFault' = {IF c \in strays THEN "stray" ELSE "component"}
  /\ UNCHANGED <<callVars, walkVars, fateVars>>

(* c is there, and a step that is not about its lifetime reads it. *)
Keeps(c) == c \notin gone /\ UNCHANGED <<fateVars, scriptFault>>

(* Scripts, or C code that calls them between the updates of systems.       *)
MayAct == (stack = <<>> /\ walk = 0) \/ Top("lua")

(* lua_sethook(L, NULL, 0, 0) when a function has ended: it was the newest. *)
Unhooked(h) == 0

(* A function returns, or fails. *)
Returns ==
  /\ Top("lua")
  /\ stack' = Front(stack) /\ hook' = Unhooked(hook)
  /\ UNCHANGED <<comp, loaded, made, live, walkVars, inits, fateVars, scriptFault>>

(* entity_init has returned to entity_component_lua_run, which may find the *)
(* script replaced by it.                                                   *)
ResumeCall ==
  /\ Top("call")
  /\ LET c == Last(stack).of IN
       \/ ReadsFreed(c)
       \/ /\ Keeps(c) /\ UNCHANGED <<made, live, loaded, walkVars>>
          /\ Enter(c, Filled(comp[c]), Last(stack).fun, Front(stack))

(* ... to lua_sys_update, which calls entity_update like everybody else.    *)
ResumeUpdate ==
  /\ Top("update")
  /\ LET c == Last(stack).of IN
       \/ ReadsFreed(c)
       \/ /\ Keeps(c) /\ UNCHANGED <<loaded, walkVars>>
          /\ Run(c, Last(stack).fun, Front(stack))

(* entity:dispatch, publish, collisions.  Who calls entity_init by its name *)
(* runs it once more.                                                       *)
Call(c, f) ==
  /\ MayAct /\ f # "entity_init" /\ Len(stack) + 1 < MaxFrames
  /\ Keeps(c) /\ UNCHANGED <<loaded, walkVars>>
  /\ Run(c, f, stack)

(* Mutant: the functions of the old script stay in the cache. *)
WrongRenamed(k, s) == [k EXCEPT !.script = s, !.inst = NoRef]

(* What assigning to `script` leaves. *)
Renamed(k, s) == [k EXCEPT !.script = s, !.inst = NoRef, !.cache = Empty]

SetScript(c, s) ==
  /\ MayAct /\ Keeps(c)
  /\ comp' = [comp EXCEPT ![c] = Renamed(@, s)]
  /\ live' = live \ {comp[c].inst}
  /\ UNCHANGED <<loaded, made, walkVars, stack, hook, inits>>

(* lua_engine_load_script *)
Load(s) ==
  /\ MayAct /\ s \notin loaded
  /\ loaded' = loaded \cup {s}
  /\ UNCHANGED <<comp, made, live, walkVars, stack, hook, inits, fateVars, scriptFault>>
-----------------------------------------------------------------------------
(* The Lua system.                                                          *)

(* lua_sys_on_add *)
Added(L, c) == Append(L, c)

(* lua_sys_on_remove: the last one takes the place i. *)
Removed(L, i) == Front([L EXCEPT ![i] = Last(L)])

(* entity_component_add, of a component that may be attached already. *)
AddScript(c) ==
  /\ MayAct /\ c \notin gone /\ Len(list) < MaxEntries
  /\ list' = Added(list, c)
  /\ strays' = IF c \in ToSet(list) THEN strays \cup {c} ELSE strays
  /\ UNCHANGED <<callVars, walk, seen, moved, gone, scriptFault>>

RemoveScript(c) ==
  /\ MayAct /\ c \notin gone
  /\ \E i \in DOMAIN list :
       /\ list[i] = c /\ \A j \in 1..(i - 1) : list[j] # c
       /\ list' = Removed(list, i)
  /\ moved' = (walk # 0)
  /\ UNCHANGED <<callVars, walk, seen, fateVars, scriptFault>>

(* components:remove, pop and shift: the entity lets go of the component,   *)
(* and the system is not told.                                              *)
TakeScript(c) ==
  /\ MayAct /\ c \in ToSet(list) \ strays
  /\ strays' = strays \cup {c}
  /\ UNCHANGED <<callVars, walkVars, gone, scriptFault>>

(* _entity_component_lua_cleanup, for the last reference.  Entities release *)
(* their components in the cleanup and delete phases, when no function of   *)
(* theirs runs, and after telling the system.                               *)
FreeScript(c) ==
  /\ MayAct /\ c \notin gone
  /\ c \in strays \/ (c \notin ToSet(list) /\ \A n \in DOMAIN stack : stack[n].of # c)
  /\ gone' = gone \cup {c}
  /\ comp' = [comp EXCEPT ![c] = Renamed(@, NoScript)]
  /\ live' = live \ {comp[c].inst}
  /\ UNCHANGED <<loaded, made, stack, hook, inits, walkVars, strays, scriptFault>>

(* The update begins. *)
WalkBegins ==
  /\ stack = <<>> /\ walk = 0
  /\ walk' = 1
  /\ UNCHANGED <<callVars, list, seen, moved, fateVars, scriptFault>>

(* One turn of the loop.  A component without an instance gets one, and its *)
(* functions are cached before entity_init is called.                       *)
Update ==
  LET c == list[walk]
      k == comp[c]
  IN /\ stack = <<>> /\ walk \in DOMAIN list
     /\ \/ ReadsFreed(c)
        \/ /\ Keeps(c)
           /\ walk' = walk + 1 /\ seen' = [seen EXCEPT ![c] = @ + 1]
           /\ UNCHANGED <<loaded, list, moved>>
           /\ CASE k.script = NoScript -> UNCHANGED <<comp, made, live, stack, hook, inits>>
                [] k.script # NoScript /\ k.inst = NoRef ->
                     /\ Instantiate(k)
                     /\ Enter(c, Filled(Instantiated(k)), "entity_init",
                              <<Waits("update", c, "entity_update")>>)
                [] OTHER -> Run(c, "entity_update", <<>>)

WalkEnds ==
  /\ stack = <<>> /\ walk > Len(list)
  /\ walk' = 0
  /\ seen' = [c \in ScriptComponents |-> 0] /\ moved' = FALSE
  /\ UNCHANGED <<callVars, list, fateVars, scriptFault>>

ScriptsNext ==
  /\ Defined
  /\ \/ Returns \/ ResumeCall \/ ResumeUpdate
     \/ \E c \in ScriptComponents :
          \/ \E f \in Funs : Call(c, f)
          \/ \E s \in MayName(c) \cup {NoScript} : SetScript(c, s)
          \/ AddScript(c) \/ RemoveScript(c) \/ TakeScript(c) \/ FreeScript(c)
     \/ \E s \in ScriptNames : Load(s)
     \/ WalkBegins \/ Update \/ WalkEnds

ScriptsSpec == ScriptsInit /\ [][ScriptsNext]_scriptsVars
-----------------------------------------------------------------------------
ScriptsTypeOK ==
  /\ \A c \in ScriptComponents :
       /\ comp[c].script \in ScriptNames \cup {NoScript}
       /\ comp[c].inst \in {Missing, NoRef} \cup DOMAIN made
  /\ loaded \subseteq ScriptNames /\ live \subseteq DOMAIN made
  /\ walk \in Nat /\ hook \in Nat
  /\ strays \subseteq ScriptComponents /\ gone \subseteq ScriptComponents
  /\ scriptFault \subseteq {"stray", "component"}

(* An instance's entity_init runs before any other function of it, once,    *)
(* whether the Lua system or a call from another script comes first, and    *)
(* though entity_init may call functions and replace scripts itself.        *)
InitOnceFirst ==
  /\ \A n \in DOMAIN stack :
       LET i == stack[n].inst IN
         i > 0 /\ "entity_init" \in Has(made[i]) => inits[i] = 1
  /\ \A i \in Instances : inits[i] <= 1

(* The registry holds the instances that components have, no cached         *)
(* function is that of an instance which its component had before, and what *)
(* the cache says is true of the component's script.                        *)
RegistryExact ==
  /\ live = {comp[c].inst : c \in ScriptComponents} \cap Instances
  /\ \A c \in ScriptComponents, f \in Funs :
       LET k == comp[c] IN
         k.cache[f] # Unknown =>
           k.inst \in live /\ k.cache[f] = <<k.inst, f \in Has(made[k.inst])>>
                           /\ made[k.inst] = k.script

(* The hook, which points into the frame of the C function that set it,     *)
(* never outlives that frame: it times the newest function that runs, or    *)
(* none.                                                                    *)
HookLive ==
  hook # 0 => /\ hook \in DOMAIN stack
              /\ \A n \in hook..Len(stack) : stack[n].at = "lua" <=> n = hook

(* No walk, and no call that waited for entity_init, reads a component that *)
(* was freed, as long as it was never attached twice at a time nor taken    *)
(* from its entity behind the system's back.                                *)
OnlyStraysRead == scriptFault \subseteq {"stray"}

(* The places at which a list has c. *)
PlacesOf(L, c) == {j \in DOMAIN L : L[j] = c}

(* Each entry of the array is updated once a frame, also when functions     *)
(* that the walk calls add components; a removal may have one skipped.  A   *)
(* component that was attached once has one entry.                          *)
UpdatedOnce ==
  \A c \in ScriptComponents :
    /\ c \notin strays => Cardinality(PlacesOf(list, c)) <= 1
    /\ ~moved => /\ seen[c] <= Cardinality(PlacesOf(list, c))
                 /\ walk > Len(list) => seen[c] = Cardinality(PlacesOf(list, c))

(* The engine runs an instance's entity_init once, before all else, and     *)
(* the update of what the array lists once a frame.                         *)
EachInItsTurn == InitOnceFirst /\ UpdatedOnce

(* Nothing that outlives a replaced script, a returned function or a freed  *)
(* component points to it: not the registry, not the cache, not the hook,   *)
(* and for a component that did not go astray not the array or a call.      *)
NoStaleScript == RegistryExact /\ HookLive /\ OnlyStraysRead

(* C calls the functions that a script has: each instance's entity_init once *)
(* before all else, its update once a frame for each entry of the array,    *)
(* and none of a script that was replaced or of a component that is gone.   *)
ScriptsCalled == NoStaleScript /\ EachInItsTurn
=============================================================================
