------------------------------ MODULE LuaEngine ------------------------------
(* The Lua engine (scripting/lua_engine.c, lua_engine_private.c) and what    *)
(* core/engine.c registers in it: the table of globals, the scripts that are *)
(* classes, the instances made of them, the references of the registry, and  *)
(* the calls from C into Lua with the count hook that limits them.  A call by *)
(* reference is what components make; a call by name caches the function it  *)
(* finds, and engine_start makes it for startup().  Callbacks of the gui are *)
(* plain lua_calls.                                                          *)
EXTENDS Integers, FiniteSets, Sequences, SequencesExt

CONSTANTS
  Chunks,     \* script files -> their text, see Processed
  Library,    \* names of Lua's libraries
  Registered, \* names engine_create registers before it locks
  Late,       \* and one that sound_system_init sets afterwards
  MaxHeld,    \* bound: references of the registry
  MaxNested   \* bound: calls within each other

ASSUME LuaEngineAssumption ==
  (Library \cup Registered) \cap {Late} = {} /\ {MaxHeld, MaxNested} \subseteq Nat

VARIABLES
  globals,  \* name -> who set it: "lua", "engine", "script"
  guard,    \* _G's metatable: "none", "newindex" (swallows new names), "sealed"
  engine,   \* [stage, startup, box]: "new", "open", "filled", "locked", "started"
  registry,     \* registry: reference -> what it refers to
  spare,    \* references given back, the last one first
  classes,   \* file -> the reference of its class, 0 if none
  named,    \* func_cache_<instance>_<name>: instance reference -> function
  stale,    \* instances whose cache is not of them: removed, or redefined
  calls,    \* calls that run, outermost first
  luaHook   \* [on, of]: the count hook and the call whose limits it reads

engineVars == <<globals, guard, engine, registry, spare, classes, named, stale, calls, luaHook>>

NoHook == [on |-> FALSE, of |-> 0]
Returned == -1  \* a call that has returned: its limits were on the C stack
NoCall == [how |-> "ref", file |-> "", of |-> 0, fun |-> <<>>, nested |-> FALSE]

-----------------------------------------------------------------------------
(* luaL_ref and luaL_unref.                                                  *)
NextRef == IF spare # <<>> THEN Head(spare) ELSE Cardinality(DOMAIN registry) + 1
Holds(r, what) ==
  /\ r <= MaxHeld
  /\ registry' = [s \in DOMAIN registry \cup {r} |-> IF s = r THEN what ELSE registry[s]]
  /\ spare' = IF spare # <<>> THEN Tail(spare) ELSE spare

Drops(r) ==
  /\ registry' = [registry EXCEPT ![r] = [is |-> "free"]]
  /\ spare' = <<r>> \o spare

Remaining == {r \in DOMAIN registry : registry[r].is = "instance"}

(* _replace_colon_calls: MODULE:f() becomes MODULE.f(self), in a line that   *)
(* defines a function nothing does; after the first call with parameters     *)
(* the rest of the text is taken as it is.                                   *)
Processed(text) ==
  FoldLeft(LAMBDA done, word :
             [calls |-> Append(done.calls, IF word \in {"call", "call with parameters"} /\ ~done.raw
                                           THEN "self" ELSE word),
              raw |-> done.raw \/ word = "call with parameters"],
           [calls |-> <<>>, raw |-> FALSE], text).calls

-----------------------------------------------------------------------------
LuaEngineInit ==
  /\ globals = << >> /\ guard = "none"
  /\ engine = [stage |-> "new", startup |-> 0, box |-> "none"]
  /\ registry = << >> /\ spare = <<>>
  /\ classes = [f \in DOMAIN Chunks |-> 0]
  /\ named = << >> /\ stale = {}
  /\ calls = <<>> /\ luaHook = NoHook

Bind(names, who) == [n \in DOMAIN globals \cup names |-> IF n \in names THEN who ELSE globals[n]]

(* Mutant: the table of safe keys is taken. *)
WrongSandbox == "safe keys"

(* The table of safe keys lies below _G on the stack when luaL_ref takes the *)
(* top: what the engine keeps as its sandbox is _G.                          *)
Sandbox == LET stack == <<"safe keys", "_G">> IN stack[Len(stack)]

(* lua_engine_create.                                                        *)
CreateEngine ==
  /\ engine.stage = "new"
  /\ globals' = Bind(Library, "lua")
  /\ engine' = [engine EXCEPT !.stage = "open", !.box = Sandbox]
  /\ Holds(NextRef, [is |-> "table"])
  /\ UNCHANGED <<guard, classes, named, stale, calls, luaHook>>

(* engine_create's registrations, lua_engine_add_function and _add_global:   *)
(* into the sandbox.                                                         *)
RegisterAll ==
  /\ engine.stage = "open"
  /\ globals' = IF engine.box = "_G" THEN Bind(Registered, "engine") ELSE globals
  /\ engine' = [engine EXCEPT !.stage = "filled"]
  /\ UNCHANGED <<guard, registry, spare, classes, named, stale, calls, luaHook>>

(* lua_engine_global_lock: _G gets a metatable that swallows new names, and  *)
(* then the sandbox, which is _G, one that only hides itself.  The systems   *)
(* are set up after it.                                                      *)
LockGlobals ==
  /\ engine.stage = "filled"
  /\ guard' = IF engine.box = "_G" THEN "sealed" ELSE "newindex"
  /\ globals' = IF guard' = "newindex" THEN globals ELSE Bind({Late}, "engine")
  /\ engine' = [engine EXCEPT !.stage = "locked"]
  /\ UNCHANGED <<registry, spare, classes, named, stale, calls, luaHook>>

-----------------------------------------------------------------------------
Ready == engine.stage \in {"locked", "started"}
Deeper == Ready /\ Len(calls) < MaxNested
Depth == Len(calls)

(* lua_engine_load_script: a file that is loaded is not run again.  The      *)
(* chunk sees _G (nobody gives it the environment that was built for it)     *)
(* and runs under the hook of the call around it, if any.                    *)
BeginLoad(f) ==
  /\ Deeper /\ classes[f] = 0
  /\ calls' = Append(calls, [NoCall EXCEPT !.how = "load", !.file = f])
  /\ UNCHANGED <<globals, guard, engine, registry, spare, classes, named, stale, luaHook>>

(* The chunk returns its module, or fails.                                   *)
EndLoad(ok) ==
  /\ calls # <<>> /\ Last(calls).how = "load"
  /\ IF ok THEN /\ Holds(NextRef, [is |-> "class", of |-> Last(calls).file, text |-> Processed(Chunks[Last(calls).file])])
                /\ classes' = [classes EXCEPT ![Last(calls).file] = NextRef]
     ELSE UNCHANGED <<registry, spare, classes>>
  /\ calls' = Front(calls)
  /\ UNCHANGED <<globals, guard, engine, named, stale, luaHook>>

(* lua_engine_instance_script: -1 for a script that is not classes.          *)
MakeInstance(f) ==
  /\ Ready /\ classes[f] # 0
  /\ Holds(NextRef, [is |-> "instance", of |-> f, version |-> 0])
  /\ UNCHANGED <<globals, guard, engine, classes, named, stale, calls, luaHook>>

(* lua_engine_instance_remove: the cache keeps its entry.                    *)
RemoveInstance(r) ==
  /\ Ready /\ r \in Remaining /\ r # engine.startup /\ \A i \in 1 .. Depth : calls[i].of # r
  /\ Drops(r)
  /\ stale' = stale \cup ({r} \cap DOMAIN named)
  /\ UNCHANGED <<globals, guard, engine, classes, named, calls, luaHook>>

(* A script gives its instance another function of the name.                 *)
Redefine(r) ==
  /\ calls # <<>> /\ Last(calls).of = r /\ r \in Remaining /\ registry[r].version = 0
  /\ registry' = [registry EXCEPT ![r].version = 1]
  /\ stale' = stale \cup ({r} \cap DOMAIN named)
  /\ UNCHANGED <<globals, guard, engine, spare, classes, named, calls, luaHook>>

(* A script writes a global.                                                 *)
WriteGlobal(n) ==
  /\ calls # <<>>
  /\ ~(guard = "newindex" /\ n \notin DOMAIN globals)
  /\ globals' = Bind({n}, "script")
  /\ UNCHANGED <<guard, engine, registry, spare, classes, named, stale, calls, luaHook>>

-----------------------------------------------------------------------------
FunctionOf(r) == <<registry[r].of, registry[r].version>>

(* lua_engine_run_function_ref.                                              *)
CallByRef(r) ==
  /\ Deeper /\ r \in Remaining
  /\ calls' = Append(calls, [NoCall EXCEPT !.how = "ref", !.of = r])
  /\ luaHook' = [on |-> TRUE, of |-> Depth + 1]
  /\ UNCHANGED <<globals, guard, engine, registry, spare, classes, named, stale>>

(* lua_engine_run_function: every call takes one more reference of the       *)
(* function and never gives it back.  It is for C code with an empty stack.  *)
RunNamed(r) ==
  /\ Deeper /\ Depth = 0 /\ r \in Remaining
  /\ LET fun == IF r \in DOMAIN named THEN named[r] ELSE FunctionOf(r) IN
       /\ named' = [s \in DOMAIN named \cup {r} |-> IF s = r THEN fun ELSE named[s]]
       /\ Holds(NextRef, [is |-> "function"])
       /\ calls' = Append(calls, [NoCall EXCEPT !.how = "name", !.of = r, !.fun = fun])
  /\ luaHook' = [on |-> TRUE, of |-> Depth + 1]
  /\ UNCHANGED <<globals, guard, classes, stale>>

CallByName(r) == RunNamed(r) /\ UNCHANGED engine

(* A button's callback, or a script's __gc.                                  *)
CallbackRuns ==
  /\ Deeper /\ Depth = 0
  /\ calls' = Append(calls, [NoCall EXCEPT !.how = "callback"])
  /\ UNCHANGED <<globals, guard, engine, registry, spare, classes, named, stale, luaHook>>

(* The calls around the one that ends: nested are those that have made C     *)
(* call another function, be it by way of a chunk.                           *)
Outer(ended) == [i \in 1 .. Depth - 1 |-> [calls[i] EXCEPT !.nested = @ \/ ended]]

(* The function returns or raises an error.  Either way the hook goes, also  *)
(* the one of the call around; only when a function without arguments or     *)
(* result is called by name and fails, it stays.                             *)
EndCall(ok) ==
  /\ calls # <<>> /\ Last(calls).how # "load"
  /\ calls' = Outer(Last(calls).how \in {"ref", "name"})
  /\ luaHook' = CASE Last(calls).how = "callback" -> luaHook
               [] Last(calls).how = "name" /\ ~ok -> [luaHook EXCEPT !.of = Returned]
               [] OTHER -> NoHook
  /\ UNCHANGED <<globals, guard, engine, registry, spare, classes, named, stale>>

(* _lua_engine_function_hook finds a limit exceeded: an error in whatever    *)
(* runs.                                                                     *)
LimitReached ==
  /\ calls # <<>> /\ luaHook.on
  /\ calls' = Outer(Last(calls).how \in {"ref", "name"})
  /\ luaHook' = CASE Last(calls).how \in {"callback", "load"} -> luaHook
               [] Last(calls).how = "name" -> [luaHook EXCEPT !.of = Returned]
               [] OTHER -> NoHook
  /\ UNCHANGED <<globals, guard, engine, registry, spare, classes, named, stale>>

(* engine_create's last step and engine_start: startup() by name.            *)
AdoptStartup(r) ==
  /\ engine.stage = "locked" /\ engine.startup = 0 /\ r \in Remaining /\ Depth = 0
  /\ engine' = [engine EXCEPT !.startup = r]
  /\ UNCHANGED <<globals, guard, registry, spare, classes, named, stale, calls, luaHook>>

StartEngine ==
  /\ engine.stage = "locked" /\ engine.startup # 0
  /\ RunNamed(engine.startup)
  /\ engine' = [engine EXCEPT !.stage = "started"]

LuaEngineNext ==
  \/ CreateEngine \/ RegisterAll \/ LockGlobals
  \/ \E f \in DOMAIN Chunks : BeginLoad(f) \/ MakeInstance(f)
  \/ \E ok \in BOOLEAN : EndLoad(ok) \/ EndCall(ok)
  \/ \E r \in DOMAIN registry :
       RemoveInstance(r) \/ Redefine(r) \/ CallByRef(r) \/ CallByName(r) \/ AdoptStartup(r)
  \/ \E n \in {Late, "own"} : WriteGlobal(n)
  \/ CallbackRuns \/ LimitReached \/ StartEngine

LuaEngineSpec == LuaEngineInit /\ [][LuaEngineNext]_engineVars

-----------------------------------------------------------------------------
LuaEngineTypeOK ==
  /\ DOMAIN globals \subseteq Library \cup Registered \cup {Late, "own"}
  /\ guard \in {"none", "newindex", "sealed"}
  /\ DOMAIN registry = 1 .. Cardinality(DOMAIN registry) /\ Cardinality(DOMAIN registry) <= MaxHeld
  /\ ToSet(spare) = {r \in DOMAIN registry : registry[r].is = "free"}
  /\ DOMAIN named \cup stale \subseteq DOMAIN registry
  /\ Depth <= MaxNested /\ luaHook.on \in BOOLEAN /\ luaHook.of \in Returned .. MaxNested

(* A script finds everything the engine registers, what sound_system_init     *)
(* sets after the lock too.  The lock swallows nothing: the metatable that   *)
(* would has been replaced by the one of the sandbox, which is _G.           *)
FindsRegistered == Ready => Registered \cup {Late} \subseteq DOMAIN globals

(* The code's way with limits, which is not what its header and the docs      *)
(* promise (that is ExecutionLimited): a function that C calls runs under its *)
(* own limits until it has made C call another one; then it runs without, and *)
(* so does a callback, and a chunk with nothing but callbacks around it.  Once *)
(* a call by name has failed, the hook reads the frame of a call that returned. *)
Limiting == {i \in 1 .. Depth : calls[i].how \in {"ref", "name"}}
Innermost == CHOOSE i \in Limiting : \A j \in Limiting : j <= i

LimitsKept ==
  (calls # <<>> /\ luaHook.of # Returned) =>
    IF Limiting = {} THEN ~luaHook.on
    ELSE luaHook.on <=> ~calls[Innermost].nested /\ (luaHook.on => luaHook.of = Innermost)

(* What lua_engine.h and the docs promise: a function that C calls is subject *)
(* to the limits, as long as it runs.                                        *)
ExecutionLimited == calls # <<>> /\ Last(calls).how \in {"ref", "name"} => luaHook.on

(* A call by name calls the function that the instance has, unless another   *)
(* one was cached under the instance's reference before.                     *)
CallsItsFunction ==
  \A i \in 1 .. Depth :
    calls[i].how = "name" /\ calls[i].of \notin stale => calls[i].fun = FunctionOf(calls[i].of)

(* What the engine does for the scripts and the C code that calls them: the  *)
(* globals, the limits and the functions.                                    *)
LuaKeepsWord == FindsRegistered /\ LimitsKept /\ CallsItsFunction

(* A colon call of the module gets the instance as long as no call before it *)
(* has parameters.                                                           *)
SelfGiven ==
  \A r \in DOMAIN registry : registry[r].is = "class" =>
    LET text == Chunks[registry[r].of] IN
      \A i \in DOMAIN text :
        (text[i] \in {"call", "call with parameters"} /\ \A j \in 1 .. i - 1 : text[j] # "call with parameters")
          => registry[r].text[i] = "self"
=============================================================================
