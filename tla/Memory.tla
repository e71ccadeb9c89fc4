------------------------------- MODULE Memory -------------------------------
(***************************************************************************)
(* The memory manager: every thread has a table of what it allocated, in   *)
(* an array that is indexed by the thread's number and grows with it; one  *)
(* more table, behind a lock, is for blocks that threads share.  Freeing a *)
(* block that is not in the table ends the program.  On top of it is the   *)
(* allocator that Lua gets: a header with the block's size, a canary       *)
(* behind its last byte, and a limit on the sum of the sizes.              *)
(*                                                                         *)
(* Left out: tags and the other statistics, alignment, and an operating    *)
(* system that has no memory left, with which the program ends.            *)
(***************************************************************************)
EXTENDS Integers, FiniteSets, FiniteSetsExt, Functions

CONSTANTS
  Addresses,      \* blocks (bound)
  LastThread,     \* threads are numbered from 0, the main thread
  InitialTables,  \* INITIAL_MM_THREADS_CAPACITY
  Asked,          \* sizes that are asked for
  Overhead,       \* of Lua's blocks: header and canary
  LuaLimit        \* memory_limit of a Lua engine

ASSUME MemoryAssumption ==
  /\ Asked \subseteq Nat \ {0} /\ {LastThread, Overhead, LuaLimit} \subseteq Nat
  /\ InitialTables \in Nat \ {0, 1}   \* with 1, growing by a half would never end

Shared == -1
Nobody == -2   \* who leaked a block whose table is gone

Threads == 0 .. LastThread
Managers == Threads \cup {Shared}

NoManager == [table |-> <<>>, used |-> -1]
NewManager == [table |-> <<>>, used |-> 0]

VARIABLES
  capacity,  \* of the array of tables, 0 if there is none
  managers,  \* a thread's table, of sizes of blocks, and its current_usage
  ownerOf,     \* of each block that is allocated
  lua,       \* the headers of Lua's blocks, and how many bytes from each its canary is
  luaUsed,   \* memory_used
  worker,    \* per thread: "runs" | "reads" | "reads moved" | "ended"
  trouble    \* "none", or what ended the program

memoryVars == <<capacity, managers, ownerOf, lua, luaUsed, worker, trouble>>

Goes == trouble = "none"

Unused == Addresses \ DOMAIN ownerOf

Total(f) == MapThenSumSet(LAMBDA b : f[b], DOMAIN f)

With(f, b, v) == [x \in DOMAIN f \cup {b} |-> IF x = b THEN v ELSE f[x]]

Without(f, b) == Restrict(f, DOMAIN f \ {b})
-----------------------------------------------------------------------------
(* The manager's operations on one table.                                   *)

Tracked(m, b, s) == [table |-> With(m.table, b, s), used |-> m.used + s]

Untracked(m, b) == [table |-> Without(m.table, b), used |-> m.used - m.table[b]]

(* Mutant: the usage changes by the difference, the old entry stays. *)
WrongRealloced(m, b, c, s) ==
  [table |-> With(m.table, c, s), used |-> m.used + s - m.table[b]]

(* _mm_realloc never resizes: a new block, then the old one is freed. *)
Realloced(m, b, c, s) == Untracked(Tracked(m, c, s), b)

(* The size the array grows to for a thread's number. *)
Grown(number, size) ==
  LET grow[c \in Nat] == IF number < c THEN c ELSE grow[(c * 3) \div 2] IN grow[size]

(* _get_thread_manager makes the array and the caller's table when they are *)
(* needed; an array that grows is moved from under those that read it.      *)
Found(t) == IF managers[t] = NoManager THEN NewManager ELSE managers[t]

Manages(t, m) ==
  /\ managers' = [managers EXCEPT ![t] = m]
  /\ IF t = Shared
     THEN UNCHANGED <<capacity, worker>>
     ELSE /\ capacity' = Grown(t, IF capacity = 0 THEN InitialTables ELSE capacity)
          /\ worker' = [w \in Threads |->
                          IF worker[w] = "reads" /\ 0 < capacity /\ capacity <= t THEN "reads moved"
                          ELSE worker[w]]

Running(t) == Goes /\ (t # Shared => worker[t] = "runs")

MemoryInit ==
  /\ capacity = 0 /\ managers = [t \in Managers |-> NoManager]
  /\ ownerOf = <<>> /\ lua = <<>> /\ luaUsed = 0
  /\ worker = [t \in Threads |-> "runs"] /\ trouble = "none"

(* The main thread's calls for shared blocks go to the shared table. *)
Malloc(t) == \E b \in Unused, s \in Asked :
  /\ Running(t)
  /\ Manages(t, Tracked(Found(t), b, s))
  /\ ownerOf' = With(ownerOf, b, t)
  /\ UNCHANGED <<lua, luaUsed, trouble>>

Realloc(t) == \E b \in DOMAIN Found(t).table \ DOMAIN lua, c \in Unused, s \in Asked :
  /\ Running(t)
  /\ Manages(t, Realloced(Found(t), b, c, s))
  /\ ownerOf' = With(Without(ownerOf, b), c, t)
  /\ UNCHANGED <<lua, luaUsed, trouble>>

Free(t) == \E b \in DOMAIN Found(t).table \ DOMAIN lua :
  /\ Running(t)
  /\ Manages(t, Untracked(Found(t), b))
  /\ ownerOf' = Without(ownerOf, b)
  /\ UNCHANGED <<lua, luaUsed, trouble>>

(* _abort_with_report: the block is in none of the caller's chains. *)
FreeForeign(t) == \E b \in DOMAIN ownerOf \ DOMAIN Found(t).table :
  /\ Running(t)
  /\ trouble' = IF ownerOf[b] = t THEN "own block" ELSE "not the owner"
  /\ UNCHANGED <<capacity, managers, ownerOf, lua, luaUsed, worker>>
-----------------------------------------------------------------------------
(* Lua's allocator, on the main thread.                                     *)

Header(n) == [size |-> n, canary |-> n]

(* lua_hdr_valid: a block that fails it ends the program. *)
Valid(b) == lua[b].size <= LuaLimit /\ lua[b].canary = lua[b].size

LuaAlloc == \E b \in Unused, n \in Asked :
  /\ Running(0) /\ luaUsed + n <= LuaLimit
  /\ Manages(0, Tracked(Found(0), b, n + Overhead))
  /\ ownerOf' = With(ownerOf, b, 0)
  /\ lua' = With(lua, b, Header(n))
  /\ luaUsed' = luaUsed + n
  /\ UNCHANGED trouble

LuaFree == \E b \in DOMAIN lua :
  /\ Running(0) /\ Valid(b)
  /\ Manages(0, Untracked(Found(0), b))
  /\ ownerOf' = Without(ownerOf, b)
  /\ lua' = Without(lua, b)
  /\ luaUsed' = IF lua[b].size <= luaUsed THEN luaUsed - lua[b].size ELSE 0
  /\ UNCHANGED trouble

(* A block shrinks where it is: the table still has its old size. *)
LuaShrink == \E b \in DOMAIN lua, n \in Asked :
  /\ Running(0) /\ Valid(b) /\ n <= lua[b].size
  /\ lua' = [lua EXCEPT ![b] = Header(n)]
  /\ luaUsed' = luaUsed - (lua[b].size - n)
  /\ UNCHANGED <<capacity, managers, ownerOf, worker, trouble>>

(* It grows into a new block, within the limit or not at all. *)
LuaGrow == \E b \in DOMAIN lua, c \in Unused, n \in Asked :
  /\ Running(0) /\ Valid(b) /\ n > lua[b].size
  /\ luaUsed + (n - lua[b].size) <= LuaLimit
  /\ Manages(0, Untracked(Tracked(Found(0), c, n + Overhead), b))
  /\ ownerOf' = With(Without(ownerOf, b), c, 0)
  /\ lua' = With(Without(lua, b), c, Header(n))
  /\ luaUsed' = luaUsed + (n - lua[b].size)
  /\ UNCHANGED trouble
-----------------------------------------------------------------------------
(* Ends.                                                                    *)

Orphaned(gone) == [b \in DOMAIN ownerOf |-> IF ownerOf[b] \in gone THEN Nobody ELSE ownerOf[b]]

(* destroy(false), at the end of a worker: where the array is, is read      *)
(* before it is indexed, without the lock.                                  *)
WorkerReads(t) ==
  /\ Running(t) /\ capacity > 0
  /\ worker' = [worker EXCEPT ![t] = "reads"]
  /\ UNCHANGED <<capacity, managers, ownerOf, lua, luaUsed, trouble>>

WorkerEnds(t) ==
  /\ Goes /\ worker[t] = "reads"
  /\ worker' = [worker EXCEPT ![t] = "ended"]
  /\ managers' = [managers EXCEPT ![t] = NoManager]
  /\ ownerOf' = Orphaned({t})
  /\ UNCHANGED <<capacity, lua, luaUsed, trouble>>

WorkerReadsFreed(t) ==
  /\ Goes /\ worker[t] = "reads moved"
  /\ trouble' = "read freed array"
  /\ UNCHANGED <<capacity, managers, ownerOf, lua, luaUsed, worker>>

(* destroy(true): the main thread, when workers and Lua are gone. *)
DestroyAll ==
  /\ Goes /\ capacity > 0 /\ lua = <<>>
  /\ \A t \in Threads \ {0} : managers[t] = NoManager /\ worker[t] \in {"runs", "ended"}
  /\ capacity' = 0 /\ managers' = [t \in Managers |-> NoManager]
  /\ ownerOf' = Orphaned(Managers)
  /\ UNCHANGED <<lua, luaUsed, worker, trouble>>

MemoryNext ==
  \/ \E t \in Managers : Malloc(t) \/ Realloc(t) \/ Free(t) \/ FreeForeign(t)
  \/ LuaAlloc \/ LuaFree \/ LuaShrink \/ LuaGrow
  \/ \E t \in Threads \ {0} : WorkerReads(t) \/ WorkerEnds(t) \/ WorkerReadsFreed(t)
  \/ DestroyAll

MemorySpec == MemoryInit /\ [][MemoryNext]_memoryVars

MemoryTypeOK ==
  /\ capacity \in Nat /\ luaUsed \in Nat
  /\ DOMAIN managers = Managers /\ DOMAIN ownerOf \subseteq Addresses
  /\ \A t \in Managers : /\ managers[t].used \in Nat \cup {-1}
                         /\ DOMAIN managers[t].table \subseteq Addresses
                         /\ Range(managers[t].table) \subseteq Nat
  /\ Range(ownerOf) \subseteq Managers \cup {Nobody}
  /\ \A b \in DOMAIN lua : {lua[b].size, lua[b].canary} \subseteq Nat
  /\ worker \in [Threads -> {"runs", "reads", "reads moved", "ended"}]
  /\ trouble \in {"none", "own block", "not the owner", "read freed array"}

(* A table has exactly the blocks that its thread allocated and did not     *)
(* free, its usage is the sum of their sizes, and its thread finds it in    *)
(* the array.                                                               *)
TablesExact == \A t \in Managers :
  /\ DOMAIN managers[t].table = {b \in DOMAIN ownerOf : ownerOf[b] = t}
  /\ managers[t] # NoManager => /\ managers[t].used = Total(managers[t].table)
                                /\ t < capacity \/ t = Shared

(* What Lua uses is the sum of the sizes of its blocks and within its       *)
(* limit; each block passes the check it is freed with, and its canary is   *)
(* within what was allocated for it.                                        *)
LuaWithinLimit ==
  /\ luaUsed = Total([b \in DOMAIN lua |-> lua[b].size]) /\ luaUsed <= LuaLimit
  /\ \A b \in DOMAIN lua :
       Valid(b) /\ b \in DOMAIN managers[0].table /\ lua[b].canary + Overhead <= managers[0].table[b]

(* The program ends over a freed block only if its owner, as the design     *)
(* says, is another thread, or its table was destroyed; and whatever order  *)
(* threads start, end and share blocks in, and Lua's blocks change in,      *)
(* tables and sizes stay true.                                              *)
MemorySound == TablesExact /\ LuaWithinLimit /\ trouble # "own block"
=============================================================================
