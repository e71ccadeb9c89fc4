----------------------------- MODULE LuaShared -----------------------------
(***************************************************************************)
(* The objects that C and Lua share: the value types of src/types, the     *)
(* entities and the components.  All carry lua_ref and lua_ref_count and   *)
(* the same five functions, written out once per type:                     *)
(*   ref    the first one makes a userdata and anchors it in the registry, *)
(*   unref  the last one drops that anchor,                                *)
(*   push   hands out the anchored userdata, or else a new one,            *)
(*   destroy  frees an object that is not anchored, and drops a reference  *)
(*          of one that is,                                                *)
(*   __gc   destroys the object when it is not anchored.                   *)
(* A userdata here is a proxy: it points to the object and Lua collects it *)
(* when neither a script nor the registry refers to it.                    *)
(*                                                                         *)
(* A behaviour is the life of one object of one kind.  The kinds differ in *)
(* their functions and in the protocols their holders in C follow, which   *)
(* are not written down anywhere in the code: they are read off the calls. *)
(***************************************************************************)
EXTENDS Naturals, FiniteSets, FiniteSetsExt

CONSTANTS
  SharedKinds,  \* the kinds in question, each one a record of KindRecords
  MaxProxies,   \* bound: userdata that ever point to the object
  MaxRefs       \* bound: lua_ref_count

ASSUME SharedAssumption == MaxProxies \in Nat \ {0} /\ MaxRefs \in Nat

VARIABLES
  sharedKind,  \* the object's kind
  shared,      \* the object, with its proxies
  holder,      \* of each place in C: the references it took, or Nobody
  slips        \* history: what its holders did that no other place expects

sharedVars == <<sharedKind, shared, holder, slips>>

Proxies == 1..MaxProxies
Holders == 1..2
Nobody  == 9
Nowhere == 0  \* anchor of an object whose lua_ref is LUA_NOREF

(* points are the proxies whose pointer is not cleared; a dropped proxy is  *)
(* one that no script refers to any more.                                   *)
Objects == [freed : BOOLEAN, count : Nat, anchor : {Nowhere} \cup Proxies,
            proxy : [Proxies -> {"none", "held", "dropped", "collected"}],
            points : SUBSET Proxies]

(* How a place in C lets go: "return" hands the object back to the script.  *)
Endings == {"destroy", "unref", "both", "return", "forget"}

(* protocols: the references that a place takes, and how it lets go;        *)
(* keepers: the places that may hold an object at a time; adopts: they also *)
(* take the objects that scripts bring; pushed: C hands the object out;     *)
(* clears: unref clears the proxy and drops its anchor, at any count;       *)
(* counts: destroy frees the object when the count gets to zero.            *)
KindRecords == [madeBy : SUBSET {"C", "Lua"}, protocols : SUBSET ((0..2) \X Endings),
                keepers : 0..2, adopts : BOOLEAN, pushed : BOOLEAN,
                clears : BOOLEAN, counts : BOOLEAN]
-----------------------------------------------------------------------------
(* The kinds.                                                               *)

(* Arguments and results of scripts only. *)
Vector == [madeBy |-> {"Lua"}, protocols |-> {}, keepers |-> 0, adopts |-> FALSE,
           pushed |-> FALSE, clears |-> FALSE, counts |-> FALSE]
Ray    == Vector
Arc    == Vector

(* What the engine makes for itself and hands to every script. *)
Camera     == [Vector EXCEPT !.madeBy = {"C"}, !.protocols = {<<1, "destroy">>},
                             !.keepers = 1, !.pushed = TRUE]
Display    == Camera
InputState == Camera

(* An entity's position, a camera's, the offsets of colliders and texts. *)
Point == [Camera EXCEPT !.madeBy = {"C", "Lua"}, !.protocols = {<<1, "both">>}]

(* An entity's id; a component's id is not referenced. *)
Uuid == [Point EXCEPT !.protocols = @ \cup {<<0, "destroy">>}, !.pushed = FALSE]

(* The bounds of an entity; the rectangles of a collider. *)
Rect == [Point EXCEPT !.protocols = {<<1, "destroy">>, <<1, "both">>, <<1, "unref">>,
                                     <<1, "return">>},
                      !.keepers = 2, !.adopts = TRUE]

(* The colours of lines; the colours of a style. *)
Color == [Rect EXCEPT !.protocols = {<<1, "both">>, <<1, "unref">>, <<0, "destroy">>}]

PolyLine == [Rect EXCEPT !.protocols = {<<1, "both">>, <<1, "unref">>, <<1, "return">>}]

(* A map's tile set, which set_tileset replaces. *)
TileSet == [Rect EXCEPT !.protocols = {<<0, "destroy">>, <<0, "forget">>}]

(* The asset table owns a map; map components refer to it. *)
Map == [Rect EXCEPT !.protocols = {<<0, "destroy">>, <<1, "unref">>}]

(* A map's cells. *)
MapCell == [Camera EXCEPT !.protocols = {<<0, "destroy">>}]

(* What the collision resolver made for the frame. *)
CollisionHit == [MapCell EXCEPT !.pushed = FALSE]

(* The default style of the GUI. *)
GuiStyle == [Point EXCEPT !.adopts = TRUE, !.clears = TRUE]

EntityKind == [Camera EXCEPT !.counts = TRUE]

(* components.add takes two references, insert one; remove, pop and shift   *)
(* return one, an entity that dies two.                                     *)
Component == [Rect EXCEPT !.protocols = (1..2) \X {"both", "unref", "return"},
                          !.pushed = TRUE, !.counts = TRUE]

AllKinds == {Vector, Ray, Arc, Camera, Display, InputState, Point, Uuid, Rect, Color,
             PolyLine, TileSet, Map, MapCell, CollisionHit, GuiStyle, EntityKind, Component}
JustPoints == {Point}
-----------------------------------------------------------------------------
(* The five functions, of an object o.                                      *)

Unmade == [freed |-> FALSE, count |-> 0, anchor |-> Nowhere,
           proxy |-> [p \in Proxies |-> "none"], points |-> {}]

Anchored(o) == o.anchor # Nowhere
Unused(o)   == {p \in Proxies : o.proxy[p] = "none"}

NewProxy(o, state) ==
  LET p == Min(Unused(o)) IN
    [o EXCEPT !.proxy[p] = state, !.points = @ \cup {p}]

Ref(o) == IF Anchored(o) THEN [o EXCEPT !.count = @ + 1]
          ELSE [NewProxy(o, "dropped") EXCEPT !.anchor = Min(Unused(o)), !.count = 1]

Take(o, refs) == CASE refs = 0 -> o
                   [] refs = 1 -> Ref(o)
                   [] refs = 2 -> Ref(Ref(o))

(* Mutant: every unref drops the anchor. *)
WrongUnref(o) ==
  IF ~Anchored(o) THEN o ELSE [o EXCEPT !.count = @ - 1, !.anchor = Nowhere]

Unref(o) ==
  IF ~Anchored(o) THEN o
  ELSE [o EXCEPT !.count = @ - 1,
                 !.anchor = IF o.count = 1 \/ sharedKind.clears THEN Nowhere ELSE @,
                 !.points = IF sharedKind.clears THEN @ \ {o.anchor} ELSE @]

Destroyed(o) ==
  LET rest == Unref(o) IN
    [rest EXCEPT !.freed = ~Anchored(o) \/ (sharedKind.counts /\ ~Anchored(rest))]

(* A component that is not anchored is pushed as nil. *)
Pushed(o) == CASE Anchored(o) -> [o EXCEPT !.proxy[o.anchor] = "held"]
               [] ~Anchored(o) /\ sharedKind.counts -> o
               [] OTHER -> NewProxy(o, "held")

(* __gc of a proxy. *)
Garbage(o, p) ==
  [o EXCEPT !.proxy[p] = "collected", !.points = @ \ {p},
            !.freed = p \in o.points /\ ~Anchored(o)]
-----------------------------------------------------------------------------
(* What happens to an object until it is freed.                             *)

Pointing == {p \in shared.points : shared.proxy[p] \in {"held", "dropped"}}
Holding  == {w \in Holders : holder[w] # Nobody}

(* A script makes it and holds a proxy of it, or C makes it. *)
SharedInit ==
  /\ sharedKind \in SharedKinds
  /\ slips = {}
  /\ \/ /\ "Lua" \in sharedKind.madeBy
        /\ shared = NewProxy(Unmade, "held")
        /\ holder = [w \in Holders |-> Nobody]
     \/ /\ "C" \in sharedKind.madeBy
        /\ \E protocol \in sharedKind.protocols :
             /\ shared = Take(Unmade, protocol[1])
             /\ holder = [w \in Holders |-> IF w = 1 THEN protocol[1] ELSE Nobody]

(* What goes wrong later began here: the object gets a second proxy; a      *)
(* place in C holds, without a reference, what a proxy points to as well.   *)
Slips(o, hold) ==
  (IF Cardinality(o.points) > 1 THEN {"twin"} ELSE {})
  \cup (IF ~Anchored(o) /\ o.points # {} /\ \E w \in Holders : hold[w] = 0
          THEN {"borrowed"} ELSE {})

Becomes(o, hold, more) ==
  /\ shared' = o /\ holder' = hold
  /\ slips' = slips \cup Slips(o, hold) \cup more

(* A place in C takes the object that a script passes to it. *)
Adopt(w, refs) ==
  /\ sharedKind.adopts /\ holder[w] = Nobody
  /\ Cardinality(Holding) < sharedKind.keepers /\ shared.count + refs <= MaxRefs
  /\ \E p \in shared.points : shared.proxy[p] = "held"
  /\ \E ending \in Endings : <<refs, ending>> \in sharedKind.protocols
  /\ refs > 0 /\ ~Anchored(shared) => Unused(shared) # {}
  /\ Becomes(Take(shared, refs), [holder EXCEPT ![w] = refs], {})

Push ==
  /\ sharedKind.pushed /\ Holding # {}
  /\ Anchored(shared) \/ Unused(shared) # {}
  /\ Becomes(Pushed(shared), holder, {})

LetGo(o, ending) == CASE ending = "destroy" -> Destroyed(o)
                      [] ending = "unref" -> Unref(o)
                      [] ending = "both" -> Destroyed(Unref(o))
                      [] ending = "return" -> Pushed(Unref(o))
                      [] ending = "forget" -> o

(* Whether destroying heeds no proxy; whether it drops somebody else's      *)
(* reference; whether references stay behind.                               *)
Forced(ending) == (ending = "both" /\ ~sharedKind.clears) \/ sharedKind.counts
Overdrawn(refs, ending) == refs = 0 /\ ending = "destroy" /\ Anchored(shared)
LeftOver(refs, ending) ==
  ending = "forget" \/ (refs = 2 /\ ending \in {"unref", "return"})

Release(w, ending) ==
  /\ <<holder[w], ending>> \in sharedKind.protocols
  /\ ending = "return" => Unused(shared) # {}
  /\ Becomes(LetGo(shared, ending), [holder EXCEPT ![w] = Nobody],
             (IF Forced(ending) THEN {"forced"} ELSE {})
             \cup (IF Overdrawn(holder[w], ending) THEN {"overdrawn"} ELSE {})
             \cup (IF LeftOver(holder[w], ending) THEN {"left over"} ELSE {}))

(* The last reference of the scripts to a proxy goes. *)
DropProxy(p) ==
  /\ shared.proxy[p] = "held"
  /\ shared' = [shared EXCEPT !.proxy[p] = "dropped"]
  /\ UNCHANGED <<holder, slips>>

Collect(p) ==
  /\ shared.proxy[p] = "dropped" /\ shared.anchor # p
  /\ shared' = Garbage(shared, p)
  /\ UNCHANGED <<holder, slips>>

SharedNext ==
  /\ ~shared.freed /\ UNCHANGED sharedKind
  /\ \/ \E w \in Holders : \/ \E refs \in 0..2 : Adopt(w, refs)
                           \/ \E ending \in Endings : Release(w, ending)
     \/ Push
     \/ \E p \in Proxies : DropProxy(p) \/ Collect(p)

SharedSpec == SharedInit /\ [][SharedNext]_sharedVars
-----------------------------------------------------------------------------
SharedTypeOK ==
  /\ sharedKind \in SharedKinds
  /\ shared \in Objects
  /\ holder \in [Holders -> {Nobody, 0, 1, 2}]
  /\ slips \in SUBSET {"twin", "borrowed", "forced", "overdrawn", "left over"}

(* Somebody still has the address of the freed object. *)
Dangling == shared.freed /\ (Pointing # {} \/ Holding # {})

(* The scheme of lua_ref, lua_ref_count and __gc is safe as long as nobody  *)
(* slips: an object is freed under somebody who still has it only if it got *)
(* a second userdata, was lent without a reference, was destroyed by a place  *)
(* that does not heed the userdata, or by one that has no reference to drop *)
(* while another has.                                                       *)
SharedSafe == Dangling => slips \cap {"twin", "borrowed", "forced", "overdrawn"} # {}

(* And nothing leaks unless a place keeps a reference it gave up, or        *)
(* forgets the object: one that nobody has is freed, and an anchor that     *)
(* keeps a userdata from being collected is some place's.                   *)
SharedFreed ==
  /\ ~shared.freed /\ Holding = {}
  /\ \A p \in Pointing : shared.proxy[p] = "dropped" /\ shared.anchor = p
  => "left over" \in slips

(* An object that C and Lua share lives exactly as long as somebody has it. *)
SharedLife == SharedSafe /\ SharedFreed

(* What the comments of the types say: destroying an object that Lua refers *)
(* to leaves its memory to the garbage collector.  A position that a script *)
(* has is freed with its entity, by unref and then destroy.                 *)
DestroyLeavesProxies == shared.freed => Pointing = {}
=============================================================================
