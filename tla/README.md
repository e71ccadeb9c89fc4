# Entity Sprite Engine in TLA+

A model of the Entity Sprite Engine: the job queue its systems run on, the life
of entities and components over a frame, and, one module each, the parts around
them - subscriptions, HTTP, sound, memory, scripts, collisions, JSON, values,
lines, input, GUI, assets, drawing, containers, console, tile sets. The modules are
translated from the C code under `src/`. TLC checks them on small instances;
TLAPS proves the most important statements about the job queue, the frame,
publish/subscribe, HTTP requests, sound, memory, the Lua engine and what it shares
with C, collisions, input, the containers, scenes, maps, assets, the GUI and the
picture that is drawn, for any number of workers, jobs, entities, components,
requests, sounds, blocks, bodies, cells, nodes, tiles and sprites.

    tlc -workers 2 -config Main.cfg MCMain.tla
    tlapm JobQueueProofs.tla

Which lines each definition stands for is in `PROJECT.json` under `map`; what is
hard to test, line by line, under `hazards`; disagreements of the code with its
own words under `findings`.

## 1. The system

| Component | State it keeps | Operations | Talks to | Module |
|---|---|---|---|---|
| Job queue (`utility/job_queue.c`) | list of jobs, id map, per job state, flag and two results, worker threads, `shutting_down` | create, push, push_on_worker, status, wait_for_completion, cancel_callback, process, destroy; the worker loop | condition variable and two mutexes; callbacks and cleanups on the main thread | JobService, JobQueue |
| Engine (`core/engine.c`) | entity list, delete list, systems, job queue, GUI, two render lists | add, remove, clear entities; `engine_update` (one frame); destroy | everything | EngineFrame, Drawing, Input |
| System manager (`core/system_manager.c`) | array of systems with a phase each | register, notify_comp_add, notify_comp_rem, run_phase (parallel through the job queue, or sequential) | systems, job queue | EngineFrame |
| Systems (`entity/systems/*.c`) | arrays of raw component pointers; the cleanup system a removal queue; the map system results in flight | on_add, on_remove, update, apply_result | components, draw list | EngineFrame, Scripts, SoundSystem, Drawing, Assets |
| Entities (`entity/entity*.c`) | components, tags, props, subscriptions, collisions, bounds, `destroyed`, a reference count shared with Lua | create, copy, destroy, component add, remove (C) and add, remove, insert, pop, shift (Lua); JSON | engine, system manager, pub/sub, Lua | EngineFrame, PubSub, Collisions, Bounds, Documents, LuaValues |
| Components (`entity/components/*.c`) | owner, reference count, data | create, ref, unref, destroy, per-type operations | entities, assets | EngineFrame, LuaShared, Tilemaps, Shapes, Paths, SoundSystem, Scripts, Assets |
| Publish/subscribe (`core/pubsub.c`) | topics with arrays of subscriptions | sub, unsub, pub | entities (runs their Lua functions) | PubSub |
| Lua engine (`scripting/lua_engine*.c`) | interpreter, sandbox, registry references, one hook, allocator | load, instance, remove, call by reference and by name | scripts, C callers, console | LuaEngine, Memory, Console |
| Values between C and Lua (`scripting/lua_value.c`) | trees of typed nodes | create, copy, set, push, destroy, from and to the Lua stack | entities, pub/sub | LuaValues |
| Lua system, script components | array of components, instances, function caches | update, run a function, change the script | Lua engine | Scripts |
| Value types (`types/*.c`) | fields, watchers, reference count, userdata | create, copy, set, watch, JSON, arithmetic | scripts, entities | LuaShared, Values, PolyLines |
| HTTP (`types/http*.c`) | one request per call, shared by a worker, a callback and Lua | start, worker's ten steps, callback, cleanup | job queue, Lua | HttpRequest |
| Sound system, sound and music components | arrays of components, playback state, device | main-thread edits, audio callback, EARLY job, device selection | miniaudio's thread, assets | SoundSystem |
| Collision detection (`core/collision_resolver.c`, `utility/spatial_index.c`) | grid and trees of entities, pairs of this and the last frame | insert, pairs, solve, callbacks | entities | SpatialIndex, Collisions |
| Scenes (`types/scene*.c`) | descriptions of entities | create, clear, reset, run, JSON | engine | Snapshots |
| Render systems, draw and render lists (`entity/systems/*render*`, `graphics/draw_list.c`, `render_list.c`) | pool of objects, two lists of batches | request, set, sort, fill, flip, draw | systems' jobs, renderer | Drawing, Batches |
| GUI (`graphics/gui/*.c`) | up to 16 layouts, widget trees | start, open, push, close, finish, layout, click, clean up | scripts, input | Gui |
| Assets (`core/asset_manager.c`) | tables by group and name | load atlas, map, sound, music; get | renderer, components | Assets, SoundSystem |
| Memory manager (`core/memory_manager.c`) | a table of blocks per thread, a shared one | malloc, realloc, free, destroy | every thread, Lua's allocator | Memory |
| Containers (`utility/*map.c`, `double_linked_list.c`, `array.c`) | buckets of nodes, nodes, slots | set, get, remove, iterate, sort | everything | HashMaps, Lists |
| Console (`core/console.c`) | bounded history | add a line, draw | print, failing scripts, draw list | Console |
| Tile sets (`types/tileset*.c`) | lists of sprites with weights by tile, a generator's seed | add, reweigh, remove, clear, draw a sprite, copy | scripts, map render system | Tilesets, LuaShared |
| Platform (`platform/*`) | window, keys and buttons | events, polling, drawing | engine | Input, Batches |
| Logging, profiling | output, samples | | | not modelled |

Hard behaviour, and where it is:

* Worker threads use a job through a raw pointer outside the locks while the
  main thread frees jobs (`job_queue.c:275-310` against `628-653`). The result
  of a job changes hands three times before the job may be freed; shutdown must
  not stop that in the middle. Waits without timeout depend on one broadcast
  per state change.
* Systems keep raw component pointers over frames. Components leave their
  entity in five ways, and not all of them tell the systems. Removal is
  deferred to the CLEANUP phase and deletion to the end of the frame, while
  results of the job queue are applied between the two.
* Scripts call back into everything from every sequential phase, and into each
  other through publish/subscribe, calls and GUI callbacks, to any depth.
* Objects that C and Lua share are freed by whoever lets go last, by a protocol
  that eighteen types write out for themselves.
* The audio thread, the render jobs and the HTTP workers share structures with
  the main thread, each with a discipline of its own.
* Many caches follow a source by notification: bounds their rectangles, tile
  components their map's layers, function caches their script, batches the
  names in reused objects.

## 2. Modules

| Module | What it is | Checked by |
|---|---|---|
| `JobService` | abstract specification: what `job_queue.h` promises of a job | `job_queue_live` |
| `JobQueue` | the job queue as the code does it; implements `JobService` | `job_queue_*` |
| `EngineFrame` | entities, components, systems' caches, removal and deletion over frames | `engine`, `engine_result` |
| `PubSub` | subscriptions, the entities' own records of them, nested publishing | `main`, `pubsub_unsub` |
| `HttpRequest`, `SoundSystem`, `Memory` | the other places where threads meet | `threads` |
| `LuaShared`, `Scripts`, `SpatialIndex`, `Collisions`, `Documents`, `Snapshots`, `Values`, `Paths`, `PolyLines`, `Shapes`, `Input`, `LuaValues`, `LuaEngine`, `HashMaps`, `Lists` (with `Filters`), `Console`, `Tilesets` | what runs on the main thread between the phases | `main`, `shared_gc`, `lua_limits` |
| `Tilemaps`, `Drawing`, `Batches`, `Bounds`, `Gui`, `Assets` | what a scene is made of, to the vertices | `scene`, `batches_fill` |
| `JobQueueProofs` | theorems about `JobQueue` | |
| `EngineFrameProofs` | theorems about `EngineFrame`, `Snapshots`, `Lists` and `HashMaps` | |
| `MainProofs` | theorems about `PubSub`, `Collisions`, `Values`, `Input`, `Console`, `PolyLines`, `Tilesets` and `Paths` | |
| `ThreadsProofs` | theorems about `HttpRequest`, `SoundSystem` and `Memory`, and about the three in `MCThreads` | |
| `LuaProofs`, `SceneProofs` | theorems about `Scripts`, `LuaShared`, `LuaEngine` and `Shapes`, and about `Tilemaps`, `Assets`, `Bounds`, `Batches` and `Gui` | |
| `DrawingProofs` | theorems about `Drawing`, and about the six in `MCScene` | |
| `Facts` | lemmas that several of the proof modules need | |
| `MCJobQueue`, `MCEngineFrame`, `MCLuaEngine` | symmetry, how often each component is attached, a script | |
| `MCThreads`, `MCMain`, `MCScene` | several components in one run | |

`HttpRequest` uses `JobService` through INSTANCE: its jobs are those that
JobQueue is shown to implement. `Collisions` extends `SpatialIndex`; `Shapes`
uses the operators of `LuaShared` on an object. The three MC compositions check
components side by side: a behaviour is one of one component, and the others
stay in one initial state. They share no variables, because what they do to each
other in the code (a callback that does anything, a collector that runs any
time) is already nondeterminism in each one's environment.

### JobQueue

One action is one critical section of `global_mutex` (or of `jobs_mutex` where
the code takes only that one), or one stretch of code outside both:

| Code | Actions |
|---|---|
| `_worker_thread_main`, scan of the queue | `ScanPick`, `ScanAdvance`, `ScanExit` |
| `_worker_thread_main`, execution | `ReadCanceled`, `FnReturn`, `Finish`, `Notify` |
| `ese_job_queue_process` | `ProcessMark`, `ProcessCollect`, then per job `ProcessTake`, `ProcessCallback`, `ProcessUnlink`, `ProcessFree`; `ProcessEnd` |
| `ese_job_queue_destroy` | `DestroyBegin`, process again and again with `DestroyCheck`, `DestroyFree` |
| `ese_job_queue_push[_on_worker]` | `Push`, `PushReturn` (the read of `job->id` after the unlock) |
| `ese_job_queue_wait_for_completion` | `WaitBegin`, `WaitWake`, `WaitTimeout` |
| `ese_job_queue_cancel_callback`, `_status` | `Cancel`, `StatusOf` |

`state`, `target`, `executor`, `canceled`, `workerResult`, `mainResult` are the
fields of `EseJob`; `queue` is `global_queue` (a set: ids are handed out in the
critical section that appends, so list order is id order), `byId` is
`jobs_by_id`. A job's function may return a result or none and may cancel
itself. Main calls push, wait and cancel between frames and from callbacks and
cleanups; other threads at any time until destroy joins the workers.

Left out: the per-worker `init_fn`/`deinit_fn`, the bytes of results and a copy
function that fails, `ese_job_queue_process` called from a callback (it would
free the jobs the outer call still lists; no code of the repository does it),
and id overflow after 2^31 jobs. A callback that is NULL is a callback that does
nothing. A timed wait that wakes with nothing new is a stuttering step.

### EngineFrame

`phase` walks through `engine_update`: `early` (parallel systems), `lua`,
`collide` (callbacks of collisions), `late` (parallel), `gui`, `cleanup`,
`jobs` (`ese_job_queue_process`), `delete`. A parallel phase is one action: the
engine waits for each of its jobs, and `WaitNeverEarly` of JobQueue says that
this wait is a barrier. In `lua`, `collide`, `gui` and `jobs` scripts run, and
the game may do any of: create an entity, attach a component, remove one
(`entity_component_remove`, which only C code of a host calls), detach one
(`components:remove`, `:pop`, `:shift`), destroy an entity, clear the scene. The
collector may free a component without references at any time
(`CollectComponent`).

Nothing in `entity_component_add` (`entity.c:366-408`) or `components:add`
(`entity_lua.c:117-156`) asks whether the component is attached already: one
component may be in two entities, or in one of them twice, and is then listed as
often by the systems. `comps`, `cached` and `removals` therefore count. `refs` is
`lua_ref_count`: a component made in C starts with one, an attachment from C adds
one and `components:add` two; a detachment takes one, the cleanup system and the
death of an entity take two per entry (`unref` and `entity_component_destroy`), and
free the component when that was the last. After one attachment and one
`components:remove` a reference is left over and the component leaks; it is freed
under the systems when it was attached more often than that accounts for.

A component is `none`, `alive` or `freed`. `delCount` counts an entity's entries
in `del_entities`. A step that would dereference freed memory sets `fault`, and
nothing happens after it. Two variables are history: `shared` has the components
that were attached while an entity listed them, and `careless` says whether the
game detached one, cleared the scene, or removed a component after the cleanup
phase. `Careful` is a game with neither; the properties that need it say so. All
others hold of every game.

Left out: `components:insert` (it neither sets the owner nor notifies anybody;
Bounds has it), tags and the Lua handle of an entity, persistent entities
(Snapshots has them), `engine_destroy`, inactive systems.

### PubSub

A call is one action, since all of it runs on the main thread; only a publish is
taken apart, because the functions it calls may do anything:

| Code | Actions |
|---|---|
| `_entity_lua_subscribe` with `ese_pubsub_sub` | `Subscribe` |
| `_entity_lua_unsubscribe` with `ese_pubsub_unsub` | `Unsubscribe` |
| `ese_pubsub_pub` | `Publish` (the copy under the lock), then per entry `Visit`, `NextComponent`, `CallbackReturns`; `PublishEnds` |
| `entity.active = ...`, `entity:destroy()` | `SetActive`, `DestroyEntity` |
| `_entity_cleanup` (its subscriptions) | `DeleteEntity` |

`subs` are the `EseSubscription`s by number, `topics` the arrays (sets: entries
are appended and shifted out, so an array is in number order), `tracked` the
array `entity->subscriptions`, counted by topic and function. `depth`, `name`,
`rest` and `calling` are the stack of publishes under way. Entities are deleted
when no publish is under way: `engine_update` does it at the end of a frame,
after all scripts, and EngineFrame is where that is modelled. `since` and `cut`
are history that only the properties read.

Left out: `ese_pubsub_destroy`, the data that is published (LuaValues has its
conversion), subscriptions made from C without the entity's record (only the
tests make such), and the window between the two critical sections of
`ese_pubsub_sub` (no other thread subscribes).

### HttpRequest

A request object is shared by the userdata that Lua collects, the worker, and
the callback and cleanup on main.

| Code | Actions |
|---|---|
| `_ese_http_request_lua_new`, `_start`, `_gc` | `NewRequest`, `StartRequest`, `DropProxy`, `Collect` |
| `_http_worker_thread`, steps 0 to 9 | `Setup`, `Handshake`, `Lookup`, `Connect`, `Await`, `Send`, `Receive`, `Parse`, `Finish` |
| `_http_worker_callback`, `_http_job_cleanup` | `HttpCallback`, `HttpCleanup` |
| `ese_job_queue_destroy` | `HttpClose` |

What a worker has opened or allocated is a set of resources, so that every error
path shows what it forgets. The steps fail as the code lets them; parsing is a
choice of its outcomes, among them an answer without a status line and a
`Location` with a scheme of its own or without (`Locations`, `SchemeAt`). Canceling and destroying a queue never stops a running
HTTP job, a redirect counts the first URL (nine are followed with the default of
ten), and a request whose job failed is never `done`.

### SoundSystem

The audio callback holds the recursive mutex over many actions (`AudioBegins`,
`AudioLocks`, `MixSound`, `MixMusic`, `LookupEnds`, `AudioEnds`) while main edits
playlists and players (`EditTracks`, `ControlSound`, `ControlMusic`,
`SeekNowhere`), adds and frees components (`AddPlayer`, `TakeFromEntity`,
`Unlist`, `FreePlayer`), loads assets without the mutex (`LoadBegins`,
`LoadEnds`), runs the EARLY job (`EarlyBegins`, `UpdateSounds`, `EarlyEnds`) and
selects or closes the device. `soundLock` says who holds the mutex; after an error
in `seek` main holds it for good. `stage` follows a component: a `new` one is
`added`, and `removed` when the system is told, before it is `freed`. One that
`components:remove`, `:pop` or `:shift` took (`entity_lua.c:161-222`, `294-359`,
which tell no system), or that was attached again while listed, is `astray`: the
system's arrays list it, and it may be freed all the same (`lost`). Reading a lost
one makes `soundFault` "stray", reading any other freed one "component". That a
single `components:remove` may free the component is more than the reference count
of EngineFrame allows; here the count is left out and the free is always possible.
Gains, panning and listeners are left out. Without a sound component the callback
returns at once, so that music alone is silent; the model does as the code.

### Memory

`managers` are the tables by thread, in an array of `InitialTables` slots that
grows (`Grown`) when a thread's number lies beyond it; `_shared` blocks are in a
table of their own. `Malloc`, `Realloc`, `Free`, `FreeForeign` and the four paths
of Lua's limited allocator (`LuaAlloc`, `LuaFree`, `LuaShrink`, `LuaGrow`, with
header and canary) are calls; `WorkerReads`/`WorkerEnds` are the end of a worker,
which reads the array of tables without the lock, so that `WorkerReadsFreed` is
possible and ends the behaviour. `MEMORY_TRACK_FREE` is 0, as in the build.

### LuaShared

The life of one object of one kind: `ref`, `unref`, `push`, `destroy` and `__gc`
as each type writes them (a record per type, `Point` to `Component`), the places
in C that hold the object (`Adopt`, `Release` with the way in which each lets go)
and the userdata of scripts. `slips` is history: what a place did that the
others do not expect. `SharedGc.cfg` checks the sentence of `point.h`.

### Scripts

The stack of C and Lua frames while the Lua system walks its array: `WalkBegins`,
`Update`, `WalkEnds` (`lua_sys_update`), `Call`, `Returns`, `ResumeCall`,
`ResumeUpdate` (`entity_component_lua_run`, whose first call instantiates the
script and runs `entity_init` before caching), `SetScript`, `AddScript`,
`RemoveScript`, `TakeScript`, `FreeScript`, `Load`. A component whose script is not
loaded has the reference -1 and is never instantiated again. `lua_sys_on_add`
appends whatever the array holds (`lua_system.c:33-44`), so a component that was
attached twice is listed and updated twice. Such a component, and one that
`components:remove`, `:pop` or `:shift` took, is in `strays`: it may be freed
(`gone`) while the array or a waiting call still has it. Reading it makes
`scriptFault` "stray"; reading any other freed component would make it
"component", which `OnlyStraysRead` excludes.

### SpatialIndex and Collisions

`SpatialIndex` has the grid as a function from cells to sequences of bodies, the
trees as the cells that are converted, and `Pairs` as `get_pairs` computes it.
`get_pairs` walks the bins with an iterator (`spatial_index.c:694-708`) while each
conversion removes and frees nine of them, the iterator's own among them
(`570-578`). From the first conversion on the walk reads freed memory: which
further cells it comes to, in what order and how often, is open, and `Trees` is any
set of blocks apart from each other with at least one. (That it may crash there
too is a finding.) A cell is a pair of line numbers in `GridLines`, which reach as far as the boxes do;
the code's hash map of cells has no borders, and no cell beyond them is ever used.
`Collisions` runs it from frame to frame: `DetectBegins`, `InsertNext`,
`GetPairs`, `Solve`, `Callback`, `CollisionFrameEnds`, with scripts that move,
deactivate and destroy bodies between and in the callbacks. Shapes are a choice
of the pairs that hit. `collision_resolver_clear` is never called in `src/`.

### Documents and Snapshots

Both keep, of an entity or a component, the set of fields that are away from what
a new one has. `Documents`: `ToJSON`, `FromJSON`, `CopyEntity`, with one operator
per type and direction (`SpriteWritten`, `ReadSprite`, `SpriteCopied`, ...).
JSON loses the id, `default_props`, subscriptions, the rectangles of colliders,
what a script set and made, the map of a map component and playback; a copy loses
being inactive and the frame shown. One empty polyline costs the whole shape
component, a missing `active` a sprite, text or map. `Copyable` stops where
`entity_copy` would abort (no `default_props`) or dereference NULL (maps).

`Snapshots`: `SceneCreate`, `SceneWipe` (clear and reset, through `del_entities`),
`SceneRun`, `EndOfFrame`. Clearing does not mark entities as destroyed, so a scene
created later in the same frame describes them again. Of what persists
`SwapsExactly` speaks only where the calls belong together (`Matched`: `create(true)`
with `reset`, `create(false)` with `clear`); `create(true)` and `clear` double it, and
`create(false)` and `reset` lose it.

### Values, PolyLines, Shapes and Paths

`Values` has, for eight types, the sets of fields in each place that lists them:
`NewValue`, `SetField`, `CallMethod`, `AddWatcher`, `RemoveWatcher`, `CopyValue`,
`WriteValue`, `ReadValue`, `LoseKey`, `Tint` (colours of a style changed in place,
which its watchers miss). The 21 palettes are not in a style's JSON on purpose
(`gui_style.c:1199`). Only points have watchers in `src/`.

`PolyLines` has the array of points with the room it really has: `AddPoint`,
`RemovePoint`, `ClearPoints`, `CopyLine`, `WriteAndRead`, `DestroyLine`. A copy
allocates `count` points and takes over the capacity, so that adding to a copy
writes beyond its array; there the behaviour ends. Clearing and adding again
leaks the old array.

`Shapes` has the array of a shape's lines with their references: `PutLine`,
`RemoveLine`, `TakeLine`, `ShowLine`, `SetPath`, `ClearPath`, `CopyShape`,
`DropShape`, `CollectLine`. Cleaning up does `unref` and `destroy` per entry, so a
dying shape takes another shape's reference of a line they share (`taken`).
`set_path` appends although its comment speaks of replacing.

`Paths` reads an SVG path token by token as it comes (`ReadCommand`, `MoveTo`,
`Pair`, `LineTo`, `CurveTo`, `ArcTo`, `ClosePath`, ...); places are
one-dimensional, curves and arcs their ends. `Spin` is the loop in which the
reader hangs on something that is neither number nor letter after L, H, V, C, S
or A, or on numbers after Z. A line that is drawn on after Z stays "closed"
without closing; short groups are dropped; Q and T are skipped.

### Input

From the platform to scripts: `OpenWindow`, `PressKey`, `ReleaseKey`,
`PressButton`, `ReleaseButton`, `Scroll`, `AskClose` collect in the window,
`Process` hands over and forgets the edges, `EngineCopies` copies into what
scripts read (`TellKey`, `TellButton`), `NextFrame` closes the circle. Modifiers
and caps lock follow the bits of the last event only and never appear as pressed;
a held key counts as pressed again on mac. `ReadMouseTable`: the tables of
`mouse_down`, `mouse_clicked` and `mouse_released` come without a table; the
metatable goes to the key string and so to all strings, where
`docs/types/inputstate.md:66` speaks of read-only tables. This is a finding;
`EdgesTold` speaks of the keys and of what the functions say of buttons.

### LuaValues

Nodes form trees with one owner each: `CreateValue`, `CopyLuaValue`, `PushValue`,
`SetValue`, `SetProp`, `DestroyValue`, `AddProp`, `DropProps`; and what a script
passes to `publish` and `dispatch`: `Send` (tables become trees, without their
keys), `Hear` (trees are pushed), `EndSend`. `AsHeard` is what arrives of a value,
for each kind: scalars and arrays of them as they were, objects as bare pointers,
functions not at all, and of a table the values without the keys. The named fields
that `docs/types/entity.md:173-187` sends therefore arrive as numbered ones, which is
a finding. A table in a table makes the conversion call `lua_next` on what it has
just pushed; there, and where a value is replaced by one that needs it, the model is
`wild` and says nothing more.

### LuaEngine

`CreateEngine`, `RegisterAll`, `LockGlobals`, `BeginLoad`/`EndLoad`,
`MakeInstance`, `RemoveInstance`, `CallByRef`, `CallByName`, `CallbackRuns`,
`EndCall`, `LimitReached`, `AdoptStartup`, `StartEngine`, over the globals, the
registry with its free references, the named functions cached in it, the stack of
calls, and the one hook of the state. As the code stands

* the table kept as sandbox is `_G` itself, so scripts have io, os, package and
  debug (only `dofile`, `loadfile` and `require` go), and locking the globals
  replaces its own `__newindex`: globals stay writable. `docs/LUA Global.md:14-17`
  and `465-479` describe a sandbox. `FindsRegistered` holds because there is none;
  the difference is a finding;
* a call by reference or by name inside another removes the outer one's hook, also
  when a chunk that is being loaded makes it, and callbacks of the GUI and chunks
  loaded outside a call have none: `LimitsKept` says exactly when a limit is in force,
  and `lua_limits` shows that what the header and the docs promise
  (`ExecutionLimited`) is violated;
* the function cached for a reference outlives the instance and is found by the
  next one that gets the reference: `CallsItsFunction` excepts the `stale`;
* a call by name that fails on its fast path, as a failed `startup()` does, leaves its
  hook behind, whose data is a dead frame: a finding, which `LimitsKept` excepts as
  `Returned`.

### HashMaps and Lists

`HashMaps` runs the three maps (`mapKind`) with their chains and doubling arrays:
`SetEntry`, `RemoveEntry`, `ClearMap`, `RemoveGroup`, and an iterator, `BeginWalk`,
`CursorSteps`, `CursorEnds`, `EndWalk`. Setting a key again overwrites the value
without freeing it in two of the maps and frees it in the grouped one. A node that
is removed under the iterator is read by its next step (`CursorStepsFreed`): the walk
may then go on anywhere or end (`Stray`). `spatial_index_get_pairs` does exactly
that. `astray` tells such a walk, and one during which the array doubled, from the
others, of which `WalkComplete` speaks.
`Lists` runs the linked list node by node with its iterator, which stands on the
next node, and the growing array with its bubble sort. `dlist_remove_all` and
`dlist_remove_all_by` are declared and not defined.

### Console

`PrintLine` (with print's buffer), `ScriptFails`, `ToggleConsole` and the drawing
as operators (`Drawn`, `Typed`, `Marks`): a full row is left before the next
character, also before a newline, and wrapped rows are drawn over the lines
below. An error that is no string ends the program by an assertion. print goes to
the console as well, although `docs/LUA Global.md:51` says otherwise.

### Tilesets

`AddSprite`, `UpdateWeight`, `RemoveSprite` and `ClearMapping` change a tile's list
and the sum of its weights; `GetSprite` and `PaintCell` draw from it (`LookAt`) with
the generator `Stirred`, whose seed 0 stands for "none yet" and takes the clock
(`tileset.c:60-68`). `PaintBegins` sets the seed of the map component, so that a map
looks the same in every frame - except with seed 0, the default, and from the draw
at which the generator comes to 0 (`StandsStill`). `SeedModulus` is 2^32 in the code
and 3 here. `docs/types/tileset.md:179-190` describes a property `seed` that the
binding does not have; a script can only set the component's. Left out: the sum's
overflow (it takes 65537 sprites for one tile) and the casts of the binding
(`uint8_t` for the tile, `uint16_t` for the weight): the constants are the values
after the cast.

### Tilemaps

Maps, cells and the components that watch them: `GetCell`, `AddLayer`,
`RemoveLayer`, `ClearLayers`, `TouchCell`, `Resize`, `SetMap`, `SetNoMap`,
`FreeChart`; `UseFreedCell` is what a script does with a cell of a resized map.

### Drawing and Batches

`Drawing`: `Script` changes components, `Late` starts the render systems, which
take an object of the pool under the mutex (`PaintRequests`) and set it after
(`PaintSets`), in any interleaving; `LateEnds`, `Overlay` (GUI and console), and
`Fill`, which sorts, gathers the batches and flips the lists. `Picture` is what
the platform then draws, with texture names read from objects that the next frame
reuses. `Batches`: one action per kind of piece, with the vertices it reckons and
those it writes. `glBufferData` may read beyond a batch's buffer; that is left out.

### Bounds

Rectangles and positions with their watchers, as each operation of a collider
leaves them: `AddRect`, `RemoveRect`, `PopRect`, `ShiftRect`, `SetRect`,
`SetOffset`, `SetActive`, `Attach`, `AttachUntold` (`components:insert`),
`Detach`, `FreeCollider`, `ColliderSystem`. `entity_component_collider_make` does
not initialise `base.entity`; the model follows either outcome (`astray`).

### Gui

Layouts from `Start` to `FinishLayout`, widgets opened, pushed and closed, then
`LayOut`, `Click`, `Answer`, `CallbackReturns` (with scripts building on while a
button's function runs) and `CleanUpGui`. Places are along one axis. With sixteen
layouts in use (here two) `start` silently starts nothing; `finish` does not ask
for closed containers, although `docs/types/gui.md` describes another API.

### Assets

`LoadAtlas`, `LoadAtlasFails`, `LoadMap` over the two tables, with ids put
together and taken apart at colons (`Id`, `Split`), and sprite components:
`SetSprite`, `SpriteSystem`, `SpriteRender`, `SaveSprite`, `RestoreSprite`,
`CopySprite`. `Over` is a hash map after its entries were set. A frame beyond a sprite that was replaced by a shorter one aborts
the program. Names of 64 characters and more are excluded (`helpers.c:71`).

## 3. Runs

| Run | Instance | Shows |
|---|---|---|
| `job_queue_safety` | 2 workers, main and 1 thread, 2 jobs; 2.7 M states | nine invariants, every interleaving, destroy included |
| `job_queue_live` | 2 workers, main and 1 thread, 1 job, fairness; 17 k states | reclaiming, returning waits, ending destroy; refinement of JobService |
| `job_queue_push_race` | 1 worker, 1 job | **violated**: push reads a job that was executed, called back and freed |
| `engine` | 2 entities, a component attached up to twice and one once, every operation in every phase; 5.5 M states | destroyed entities die within their frame; what entities list is alive unless shared; a careful game touches no freed memory |
| `engine_result` | the same; a careful game | **violated**: results are applied to freed components |
| `pubsub_unsub` | 2 entities with one function each | **violated**: a publish reads a subscription that a callback freed |
| `threads` | HTTP, sound, memory; 507 k states, fairness | see below |
| `main` | seventeen components of the main thread; 1.35 M states | see below |
| `lua_limits` | a script, its instance, a call within a call | **violated**: a script runs on without its limits |
| `shared_gc` | one object of each kind | **violated**: a position dies under the userdata of a script |
| `scene` | six components from maps to vertices; 1.25 M states | see below |
| `batches_fill` | one batch of 1024 | **violated**: the fill of a polyline writes past the buffer |

`threads` checks that HTTP requests are safe under the collector unless started
twice (`HttpSafe`), that a worker gives back all it held on every path
(`HttpNothingLost`), that the audio thread and the EARLY job read nothing freed
but components that went astray (`SoundReadsLive`), that the samples that play are the current track's
(`PlaysCurrentTrack`), that the tables of the memory manager and Lua's count stay
exact (`MemorySound`), and, under fairness, that workers end and frames go on
unless a TLS peer is silent or the mutex was leaked by `seek` (`NoThreadHangs`).

`main` checks `TrackingExact` and `SafeUnlessCut` (subscriptions), `SharedLife`
(objects that C and Lua share are freed when the last lets go, neither earlier nor
never), `ScriptsCalled` (`entity_init` once and first, one update a frame for each
entry of the array, nothing points to a replaced script or a returned hook, only
components that went astray are read after they are freed), `LuaKeepsWord` (the
globals, limits and functions of the Lua engine, as the code has them),
`PairsComplete` and `StoryConsistent` (collisions), and four about what goes somewhere
and is to come out as it went in, exceptions included: `WrittenComesBack` (JSON and
copies, scenes, values, points), `SentArrives` (input, data of events, default
properties, the `self` of a script's colon calls), `ContainersKeep` (maps, lists and
arrays, the lines of shapes, the owners of Lua values) and `DrawnAsGiven` (paths, the
console, the sprites of tile sets).

`scene` checks that a tile component's array always covers its map's layers
(`MapsDrawSafely`), that the picture consists of exactly the pieces wanted in
their own look and order (`FaithfulPicture`), by how much a batch is overrun
(`OverrunIsSix`), that bounds follow their rectangles (`BoundsFollow`), that
layouts are whole, clicks reach the first leaf and callbacks are kept
(`GuiSound`), and that loaded sprites are found and drawn as loaded
(`AssetsSound`).

The properties of these three runs join those of several components, each
guarded by the component the behaviour is of. The conjuncts are properties of
their own in the modules, with a comment each. Type invariants of the components
are theorems (section 4); those of Documents and LuaValues, which are not proved, are
in `WrittenComesBack` and `SentArrives`.

### Bounds

With two workers and two jobs there are jobs for the same worker and for
different ones, targeted and untargeted, one ahead of the other in the list; both
can be in every pair of states, and a third party can wait for or cancel either.
A third job or worker adds no new kind of step, and the only properties that
relate two jobs (`NoOvertaking`, `ResultReleased`) are about pairs. In EngineFrame
a hazard involves one entity and one of its components; the second of each shows
that steps on one leave the other alone and that a component can move to another
entity or be in both. The component that is attached twice may be in two entities, or
in one twice, and survive one of them; the other is attached once, so that both kinds
are listed side by side (`TwiceAndOnce`). In PubSub three subscriptions of one function give two of the same entity
and topic and another entity's; topics share nothing but the numbering. Two levels of
publishing give an inner publish over the copy of an outer one. The safety
properties of these three modules, and of the others that section 4 names, are also
proved for any size. `MaxJobs` and `MaxAdds` bound
ids and attachments; they only make the state space finite.

Elsewhere a bound is large enough for every branch to be taken, and smaller than
the code's only where the code has a constant that the instance scales down:

| Constant | Here | Code | What it still lets happen |
|---|---|---|---|
| `InitialTables` (Memory) | 2 | 4 | the array of tables grows, at an end of it and beyond |
| `FirstBuckets` (HashMaps) | 2 | 16 | two doublings, keys that share a bucket before and not after |
| `FirstRoom`, `ShapeRoom` | 1 | 4 | arrays of points and lines grow twice |
| `MaxHops` (HttpRequest) | 2 | 10 | redirects are used up, with the scheme changing both ways |
| `Frames` (SoundSystem) | 1 | any | an asset's end is reached, seek goes to it |
| `MaxLayouts` (Gui) | 2 | 16 | start finds none free |
| `SplitBuffer` (Assets) | 2 | 64 | a name is cut and meets another |
| `MaxHistory`, `PrintLimit` (Console) | 2, 3 | 1000, 1023 | the oldest line leaves, a text is cut |
| `ButtonMax`, `ButtonCount` (Input) | 1, 2 | 5, 8 | a button the array has no room for |
| `FirstSprites`, `SeedModulus` (Tilesets) | 1, 3 | 4, 2^32 | a list grows twice; the generator passes through 0 |
| `LuaLimit` (Memory) | 3 | configured | an allocation and a growth are refused |
| `Room` (Batches in `scene`) | 48 | 1024 | a batch grows; `batches_fill` has the code's 1024 |

Bounds without a counterpart (`MaxFrames`, `MaxInstances`, `MaxPeople`,
`MaxMade`, `MaxRoster`, `MaxStrokes`, `MaxEvents`, `MaxAdded`, `MaxHeld`,
`MaxNested`, `MaxDrawings`, ...) end the exploration; each leaves one more step
than the longest pattern its properties speak of (two frames for "once a frame",
two instances for a replaced script, three printed lines for a history of two).
In Scripts one of two components may have either script and the other the full one
(`MayName`), and the array has two entries (`MaxEntries`): of two components, or of
one twice. One polyline has a userdata at a time (`PolyProxies`); `LinesAreHeld` is
proved for any number.
`MaxNested` is 2 in LuaEngine: an outer and an inner call, of every pair of kinds.
That a call which loads a chunk that makes C call another function is without limits
afterwards takes three; `EngineKeepsWord` covers any depth.
Three frames let a function of a script that was called from C call another
component's, whose `entity_init` runs first. The two boxes touch at an edge; one
covers the grid, so that it is filed in cells which the other shares and does not.

`CHECK_DEADLOCK FALSE` where the system may stop: after destroy the job queue is
gone, a program ends by an assertion, a step that touched freed memory ends the
behaviour, and bounds are used up.

### Fairness

`Fairness` in JobQueue: each worker is weakly fair, as mutexes are eventually
granted, timed waits end, and a job's function returns. The main thread is
strongly fair, because the frame loop comes back to `ese_job_queue_process`
whatever is called in between and its steps are disabled while main itself
sleeps inside a wait. A woken or timed wait and a push run to their return.
Nothing is assumed about pushes, new waits, cancels, or that anybody ever
destroys the queue.

`HttpFairness`: a worker's loop comes round until it ends; reads of a TLS session
are excepted, since they block until the peer sends. `SoundFairness`: the audio
callback and a woken main thread are weakly fair; `UpdateSounds`, for which the
callback takes the mutex again and again, is strongly fair, as mutexes are granted
in turn. Nothing is assumed about scripts. All other modules are checked for
safety only.

### Findings

Where the code and its documents disagree is listed under `findings`, each with
the sentence it contradicts. Six have a run of their own, which TLC ends with a
behaviour that violates what the sentence says:

* push reads the id of a job that a worker has executed and main freed after its
  callback (`job_queue_push_race`; the trace has all three);
* results of EARLY jobs are applied to components that the cleanup freed
  (`engine_result`);
* a publish reads a subscription that a callback has ended (`pubsub_unsub`);
* an entity frees the position under a script's userdata (`shared_gc`);
* the fill of a polyline writes behind a batch's buffer (`batches_fill`);
* a script runs without its limits once a function that it made C call has returned
  (`lua_limits`).

The others are in properties that hold, because the model says what the code does
and the property names the exception: `components:remove`, `:pop`, `:shift` and a
component in two entities, after which systems, the audio thread and scripts read freed
components (`NoFault`, `SoundReadsLive`, `ScriptsCalled`); the hook that a failed call
leaves, and globals that are neither sandboxed nor locked (`LuaKeepsWord`); what becomes
of tables that are published, and of the tables of mouse buttons (`SentArrives`); and
the iterator that `get_pairs` walks with while it frees the nodes under it
(`PairsComplete`).

Not stated as findings are what is left out or an exception in the sections above:
removal records after `Scene.clear`, borrowed maps of the asset manager
(`docs/LUA Global.md:282` promises memory safety, but every `asset_get_map`
pushes a userdata whose `__gc` frees the map in the table), a TileSet's
`set_tileset` that borrows, the swapped arguments of `show_layer`'s accessors, the
second frame array of a map component that is sized only when the map is set.

## 4. Proofs

`JobQueueProofs` proves, for any finite or infinite sets of workers and threads
and any bound on jobs, from the assumptions on the constants alone
(`ThreadsAssumption`, `MaxJobsAssumption`):

* `Invariance`: `IInv` is an invariant. None of the safety properties is
  inductive by itself. `HeldJobAlive`, for example, needs to know that main
  collects only EXECUTED and CANCELED jobs and that these states are final
  (`MainOK`, `FinalStays`), that a job leaves the list before the map and both
  only then (`ListsOK`), and that the worker's job is RUNNING (`HeldOK`).
  `CanceledNeverCalled` needs that the flag is only set on jobs that are not
  past RUNNING, and that such a job ends CANCELED (`FlagsOK`).
  `WaitNeverEarly` rests on final states staying final after the job is gone.
  `NoLostWakeup` is inductive together with `HeldOK` and `CallsOK`.
* `TypeCorrect`, `HeldJobsStayAlive`, `MainJobsStayIntact`,
  `CanceledJobsStaySilent`, `ResultsAreReleased`, `NobodyOvertakes`,
  `NoWakeupIsLost`, `WorkersLeaveNothing`, `WaitsAreBarriers`,
  `DestroyLeavesNothing`: the invariants of `job_queue_safety`, and
  `ExitedOwnsNothing`, which no run checks any more.
* `StatusStaysConsistent`: an action property, statuses never go back.
* `Refinement`: every behaviour of JobQueue is one of JobService, under the
  mapping `PhaseOf`. The lemmas before it say how one job moves between the
  phases and that a step leaves the others alone.

`EngineFrameProofs` proves, from `EngineFrameAssumption`:

* for every game, with the invariant `FrameInv` (`TypeCorrect`,
  `EntitiesDieWithinFrame`, `AttachedStayAlive`): an entity that is marked is
  listed until it is deleted; only live entities list components; and a component
  that was never attached while it was listed is listed once, by its owner, with a
  reference, and is freed only in the step that takes it out. Of a component that
  was `shared` nothing of this is true: the entity that dies first frees it;
* for every game too, with `CarefulInv` (`CarefulGamesAreSafe`, `CachesStayLive`,
  `FramesStartClean`): as long as the history is that of a careful game, records are
  consumed before the entities they name are deleted, entities are listed once, and
  what is about to be removed is in no array (`RemovalsInOrder`). `Careful` is a
  condition in the properties, on what the game did, and no assumption of the
  theorems.

`MainProofs` proves from `PubSubAssumption`, with the invariant `PubSubInv`,
`TrackingExact` and `SafeUnlessCut`, which `main` checks, and type correctness,
`NoDanglingSubscriber`, `ListedOrFreed` and `NewcomersWait`. Its core is
arithmetic of sets: `MatchingFinite`, `FirstIsOldest` (one unsubscribe takes
exactly the oldest match) and `FirstAll` (as many as there are matches take all),
from which `DeletionTakesAll` follows: a record that is exact makes
`_entity_cleanup` complete. `TrackingExact` is therefore what
`NoDanglingSubscriber` needs, and the latter with `ListedOrFreed` is what
`SafeUnlessCut` needs: an entry of a copy that is not freed is listed, and the
entity of a listed one is not freed. `UncutAlive` and `PublishOK` carry this over
the stack of publishes.

`ThreadsProofs` has three components. It proves `RequestsAreSafe` (`HttpSafe`) and `WorkersCloseAll`
(`HttpNothingLost`) for any requests, jobs and numbers of redirects and addresses,
with the invariant `HttpInv`. `Needs` says what a worker holds in each step; that it
holds no more, unless a redirect led away from a TLS connection (`left`), is
inductive, and at the end of the loop nothing is needed. `RequestOK`
follows a request through its anchor: as long as no job of it has been cleaned up
the anchor keeps the object alive, so that only a second job can meet a freed one.

`ReadsStayLive` (`SoundReadsLive`) and `CurrentTrackPlays` (`PlaysCurrentTrack`) are
about the sound system, with `SoundInv`. What the callback has
still to mix is in the arrays, since it holds the mutex that unlisting takes, and what
the arrays have was added or went astray; only of the latter is any freed while it is
listed (`MixingOK`); a playlist's current track is in it, and the samples
that play are that track's unless it was removed while they played (`MusicOK`); a
system that is shut down has no callback (`ShutDownOK`).

`MemoryStaysSound` (`MemorySound`) is about the memory manager, for any threads,
blocks, sizes and limits, with `MemoryInv`: a thread's table has exactly the blocks
that it owns, is finite, and has their sum as its use (`Open`); its number is below
the array's capacity, which is not 1, since growing by a half would then never end
(`ManagersOK`); and each block of Lua's is in the main thread's table, under a size
that still covers its header and canary (`LuaOK`). A table keeps the size a block had
before Lua shrank it, so that the last conjunct is an inequality. The sums change by
one block at a time (`TotalWith`, `TotalWithout`); `GrownIs` says that the array
reaches a thread's number; `ReplacingKeeps` is reallocation, for C and Lua alike. What
a thread frees and its table lacks is therefore not its own (`FreeForeignKeeps`).
`ThreadsTypeCorrect` joins the three for the specification of the run.

`LuaProofs` has four components. For any script components, scripts and depth of
calls, `ScriptsAreCalled` (`ScriptsCalled`) and `ScriptsTypes` follow from `ScriptsInv`. No two
components share an instance, and what a cache knows is true of the instance its
component has (`Instanced`, `Fits`); `entity_init` has begun once for every instance
that has one (`Initialised`); the frames from the hook's on wait for it (`Hooked`);
the walk came once by each place left of it, unless the array moved (`Walked`, which
counts the places with `Passed`, since a component may have several); and what is freed
is neither in the array nor in a call, unless it went astray (`Fated`). The
lemmas before it are about sequences: frames pushed and popped, components swapped
out of the array.

`SharedObjectsLive` (`SharedLife`) is about objects that C and Lua share, for each of
the eighteen kinds that LuaShared has from the code (`SharedKinds \subseteq AllKinds`)
and any bounds, with the invariant `SharedInv`. `Linked` ties the anchor to the
userdata. `Counted` compares the count with `Owed`, what the two places in C that can
hold the object have counted and not given back: the count is at least that as long
as no place has overdrawn or freed against the rest (`Clean`), and at most that
unless a reference was left over. An object that is not anchored has one holder in a
clean history (`Lonely`), and somebody has it, in C or in Lua, as long as nothing was
left over (`Reached`). `Slips(shared, holder) \subseteq slips` says that the history
tells of everything in the present that was a slip. `KindsFollow` is what the proof
needs to know of the kinds - the ways of letting go that no kind has, and that a kind
whose unref clears the anchor is held once and let go by unref and destroy - checked
for each of them; a step of the life is then proved once for all kinds.

`EngineKeepsWord` (`LuaKeepsWord`) and `EngineTypes` are about the Lua engine, for
any scripts, libraries, references and calls within each other to any depth, with
`EngineInv`: spare references are free, each once, and references are numbered
without a gap (`RegistryKept`, from which `NextIs` says what `luaL_ref` returns); what
is cached under a reference is true of its instance unless it is stale, and calls by
name run what is cached (`CacheKept`); the hook is on for the innermost call with
limits, or each of those has made C call another function (`HookKept`); and what is
kept as the sandbox is `_G`, so that what is registered before and after the lock is
found (`GlobalsKept`). The proof of `HookKept` found a flaw of the model: a call was
marked only when the one directly inside it ended, and not when that one was a chunk
whose own calls had ended before. The mark is now set on all calls around; the run
with its two levels of calls could not tell the difference.

`LinesAreHeld` (`LinesHold`) is about the polylines that shapes have, for any shapes,
lines, userdata and capacities, with `ShapesInv`: a line has as many references as
shapes have entries of it, unless a dying shape took it (`LineOK`), and the lines of
a living shape are there unless they were taken (`ShapeOK`). One entry put or removed
with its reference keeps both (`MoreKeeps`, `LessKeeps`), and so does a userdata
made, dropped or collected (`LineKeeps`). Clearing a path and freeing a shape go
through the entries one by one (`EmptiedFolds`, `EmptiedKeeps`): while a shape dies all
its lines count as taken, and those that no other shape has turn out in the end to
have no references (`DropShapeKeeps`). A copied shape gets new lines, which are the
next that are not yet born (`BornFirst`).

`MainProofs` also proves `PairsAreComplete` (`PairsComplete`) and
`StoryIsConsistent` (`StoryConsistent`) for any bodies, boxes, grids, sizes of cells
and thresholds. `Filed` says that a body is in all cells of its bounds, and in no other,
while the index fills up; two boxes that overlap have a cell in common because division
is monotone; and a cell either keeps its list or is in the block of a tree, which lists
its nine cells but for what `lost` has. Which cells became trees is any set that
`Trees` allows, so that the proof does not depend on where the walk over freed nodes
goes. No pair is tested that does not overlap, and of the pairs that may not collide
only those that share a cell. `StoryTold` relates what is left to tell of a pair
with what was told, and carries `StoryConsistent` over the callbacks.

Of the components that `main` joins in `WrittenComesBack`, `SentArrives`,
`ContainersKeep` and `DrawnAsGiven`, `MainProofs` has these:

* `ValuesAreKept` (`ValuesKept`), for any watchers: what the tables of fields of the
  kinds have to do with each other (`FieldsAgree`) is checked for each kind, and a
  step is then proved once for all of them;
* `InputIsTold` (`EdgesTold`), for any keys and buttons: an input state is compared
  with the hands and with what scripts saw in the frame before, key by key
  (`KeyEdges`), for either host;
* `ConsoleShows` (`NewestShown`, `LegibleText`), for any texts and sizes: the history
  is the end of all there ever was (`EndOf`), and the pen stays in the row's width
  and goes on in reading order (`PenOK`). Typing is a fold over the characters; that
  a fold goes through them one by one is `FoldingSteps` in `Facts`;
* `LinesKeepPoints` (`PointsKept`), for any points and rooms: only a copy's array has
  less room than its capacity promises, and only until it grows (`LineOK`);
* `TilesetsStandStill` (`TilesetsKept`), for any sprites, weights and seeds: a tile's
  list has the sprites that were asked for, each once, and its sum is that of their
  weights by name (`ListOK`, `MappingOK`); a draw stops at the first sprite whose
  running sum is beyond the number (`AccumulatedIs`, `DrawnBetween`); the seed of a
  draw is the one that the draw before it left, which is why a picture painted again
  is the same (`PaintingOK`, `PaintedAlike`);
* `PathsAreDrawn` (`PathsDrawn`), for any points: the line that is drawn ends at the
  pen, and begins where the last move went (`PenOn`), whatever was dropped.

`EngineFrameProofs` has four more of them:

* `ScenesSwap` (`SwapsExactly`), for any tags, rosters and scenes: entities that look
  alike are counted, and what stays, what a scene holds and what a run brings add up
  for every look (`PactOK`);
* `ListsWalk` (`LinksAgree`, `WalkInOrder`), for any nodes: a node's links are its
  neighbours in `sequence`, and what a walker has yet to return is an end of that
  sequence that starts where it stands (`ListInv`), so that every removal but the one
  of the walker's own node leaves it its way;
* `ArraysKeepAndSort` (`SlotsExact`, `SortSorts`), for any elements and growth: the
  array's filled part and what was released or given back are the elements it got,
  apart from each other (`ArrayInv`, `Held`); a pass of the bubble sort brings the
  largest of what is left to its place (`PassFolds`), so that the passes settle the
  array from its end (`Settled`) and only permute it;
* `HashMapsHold` (`MapIsFunction`, `OneOwnerEach`, `WalkComplete`), for any keys, any
  hash function, any capacities and each of the three kinds: `HashMapsInv` says that
  the table has each key of the map once, in the bucket its hash gives, with its value
  (`Chained`), and that a cursor which goes on has given exactly the keys behind it
  (`Onward`, `Passed`), unless it went `astray`: of a cursor whose node was removed, or
  that a doubling met, only its bucket's range is known (`CursorOK`). That doubling keeps the table is an induction over the nodes
  of all buckets one after the other (`FillsUp`, `DoubledIs`); that removing leaves
  the cursor its place is that what stays keeps its order (`NodesGo`).

What a loop leaves out of a list is `Sifted`, a fold, since the provers know nothing
of `SelectSeq`; `SiftedIs` in `Facts` says what it keeps.

`SceneProofs` has five components. For any maps, sizes and components,
`MapsAreDrawnSafely` (`MapsDrawSafely`) follows from `TilesInv`: a map's watchers
are exactly the components that show it, once each (`Watched`), a count that is not
marked covers every cell (`Covered`), and frames fit the map's size (`Sized`). For
any atlases and sprite components, `AssetsAreSound` (`AssetsSound`) follows from
`SpritesInv`: a table's entry has a texture that a loaded atlas brought (`Tabled`),
pixels are those of an atlas with that id (`Painted`), and no frame is beyond its
sprite unless that was replaced (`Played`). `IdSplits` says that an id is taken
apart into what it was put together from when the group has no colon.
For any entities, colliders and rectangles, `EntitiesAreBounded` (`BoundsFollow`)
follows from `BoundsInv`: a rectangle has a collider among its watchers as often as
the collider has it (`Tallied`), so that a rectangle's change reaches every hull it
is in (`SettingKeeps`), and an entity's bounds are the hull of the one collider that
was ever added to it (`Current`). The lemmas before count elements of sequences:
`TimesInserted`, `TimesRemoved`, `TimesWithout` (from `OccursInserted` and its like
in `Facts`). `LeavesIs`, that a collider which is
freed leaves nothing behind at any of its rectangles, goes over their number; the
induction is by the least number that it fails for (`MinIs`), which exists without a
library theorem that takes an operator.
For any initial room of at least two quads and any polylines, `FillsOverrunBySix`
(`OverrunIsSix`) follows from `BatchesInv`. A quad doubles the buffer once, which is
enough as long as the room is at least 12 and the last fill was no more than six
beyond it; the others double it until it is enough (`RoomFor`).
For any containers, regions, clicks and bounds, `GuiStaysSound` (`GuiSound`) follows
from `GuiInv`: what is below a widget is an interval of the order of building
(`Nested`, `Building`), since a container that was closed gets no more children;
a function is kept under a number for the one button that has it (`Keeps`), which a
function that builds on does not move (`Answering`). `AnsweredFirst` is by induction
over the tree: whichever way the click takes, through the worker or through the
handlers of containers, the first leaf under the mouse is the first found
(`BelowApart`: what is below a child comes before the next). `RowInside` adds up
widths: the equal shares of the children without a width are rounded down, so that
all widths together are no more than the row (`SumUnion`, `SumConstant`). The proof
corrected the property: scripts may ask for less than nothing, and then children
overlap; the recursion of the layout and of the click are shown to have a solution
(`PlacingExists`, `AskingExists`).

`DrawingProofs` proves `PicturesAreFaithful` (`FaithfulPicture`) for any components of
every kind, any textures and colours, any capacity of the pool and any overlays. What
is to be drawn is a sequence of things, and the same things may come to the picture in
any order. The proof compares such sequences by weight: two sequences have the same
elements equally often if every function from elements to numbers gives them the same
sum (`TallySame`). `DrawingInv` says, until the list is filled, that for every such
function what was wanted weighs what the finished objects weigh and what the render
systems have still to add (`Accounted`); a system that holds an object has it alone
and has something to set it to (`PaintersSound`), and the array of the pool is a
permutation of the objects (`PoolTyped`), when it grows (`GrownIs`) as when its taken
part is sorted (`ResortedIs`). At the end of the frame the objects alone weigh what
was wanted (`NothingLeft`). `FillShows` follows them into the picture: any order that
putting one after the other in its place can give is one by z (`SortingsAre`); whether
a piece joins the last batch or opens one, the picture has it as its last piece and in
its own look (`PieceAdded`), so that the picture of the batches is the objects' pieces
one after the other (`FilledIs`), lower ones first (`ShardsClimb`), which weigh what
the objects do (`ShardsWeigh`). Nothing writes to an object between `Fill` and the end
of the platform's drawing, which is why the names that batches point to are still
right.

`SceneIsSix` says that a behaviour of `SceneSpec`, which `scene` checks, is one of each
of its six components; what is proved of the components therefore holds of it, and
`SceneTypeCorrect` joins their types.

`Facts` has what the proofs share and the theorem libraries lack: least and greatest
elements; sequences without repetition, and what removing, inserting and looking up
does to them; sums of integers over finite sets (`SumWithout`, `SumUnion`, `SumSame`,
`SumParts`); what sequences weigh (`WeightAppended`, `WeightOnce`), also when they are
mapped and flattened (`FlattenAppended`, `FlatMapWeighs`); and loops that make a
number grow until it reaches another (`Climbing`). The sums, flattened sequences and
loops are recursive functions, which are chosen: that there is such a function, and
that it is the only one, are inductions over cardinalities and numbers. The library's
induction theorems take an operator, which the provers cannot instantiate; the proofs
take instead the least number that the statement fails for (`MinIs`), and contradict
it, or show that a set of sequences or of subsets has all of them (`SeqInduct`,
`SetInduct`).

Each theorem assumes no more than its module's assumptions on the constants. The inductive invariants were checked with TLC
before they were proved, except `Accounted`, which speaks of every function to numbers;
of it TLC checked what it is for, `FaithfulPicture`.

Only model-checked:

* `WrittenComesBack` and `SentArrives` as wholes: their parts about scenes, values,
  points and input are proved by themselves. Documents, and what becomes of values
  between C and Lua (`OneOwner` of `ContainersKeep` too), are what recursive
  definitions over trees make of their input, and the type invariants of both are
  checked with them. `SelfGiven` of the Lua engine is not proved either;
* `ContainersKeep` and `DrawnAsGiven` as conjunctions over a behaviour of any
  component; all parts but `OneOwner` are theorems;
* the liveness properties (fairness and ENABLED are out of reach), and the runs that
  show a violation.

## 5. Plan and what is not modelled

Next, in this order:

* documents and the values between C and Lua with an induction over trees of bounded
  depth, where the prover has none over data;
* `engine_update`'s parallel phases as clients of JobService, so that "a parallel
  phase is a barrier" becomes a refinement instead of the remark in EngineFrame;
* lookups by id, tag and position, and the tags themselves.

Not modelled, and why:

* the Metal renderer, the window, timers and events (`platform/`): Objective-C
  calls into a system library. Input and Batches model what the engine gives
  them and takes from them;
* decoding of images, sounds, fonts and shaders: what a load decodes does not
  matter to who owns it, which Assets and SoundSystem have;
* logging and profiling (`utility/log.c`, `profile.c`): they change nothing that
  another part reads. A `log_assert` ends the program and is modelled where one
  can be reached;
* the arithmetic of value types (vectors, colours, rays): it is numeric code on
  doubles without state;
* `init_fn` and `deinit_fn` of the job queue's workers: set once before the
  first job;
* vendored code, examples, the tables of the font and the style sheet.

Liveness is stated for the job queue and for `threads` only. On the main thread a
frame is a sequence of calls that end, except a script's, and Lua's limits on
those are the subject of LuaEngine.
